---------------------------- MODULE SendEmailProofs ----------------------------
(***************************************************************************)
(* Proofs about SendEmail, for any set of argument records, any files and   *)
(* directories, any word size and any number of crashes.                    *)
(***************************************************************************)
EXTENDS SendEmail, RouteFilesProofs

\* The retry loop: how i, attempts and lastErr move together, and what was
\* delivered and lost up to here.
LoopInv ==
  /\ pc \in Preparing => /\ i = 0 /\ attempts = 0 /\ lastErr = "none"
                         /\ delivered = 0 /\ dials = 0
  /\ pc = "loop" => /\ attempts = i /\ i <= MaxAttempts
                    /\ i > 0 => lastErr # "none"
  /\ pc \in {"dial", "again", "wait"} => attempts = i + 1 /\ i < MaxAttempts
  /\ pc \in {"again", "wait"} => lastErr # "none"
  /\ pc = "dial" => dials < attempts /\ ~cfg.dryRun
  /\ dials <= attempts /\ attempts <= MaxAttempts
  /\ cfg.dryRun => delivered = 0 /\ earlier = 0

\* The account of copies: before the outcome is fixed, all are lost replies of
\* this run or belong to runs that were killed.
CopiesInv ==
  /\ pc \in Preparing \cup Looping \cup {"crashed"} => delivered + earlier <= lost + crashes
  /\ delivered + earlier <= 1 + lost + crashes
  /\ pc \in Looping /\ delivered > 0 => lost > 0

\* The outcome of the loop, which is what the caller will be told.
OutcomeInv ==
  /\ pc \notin {"returned", "crashed"} => answer = "none"
  /\ pc = "crashed" => answer = "none"
  /\ pc = "returned" => answer # "none"
  /\ answer = "rejected" => delivered = 0
  /\ answer # "rejected" /\ pc \in Closing \cup {"returned"} =>
       /\ lastErr = "none" => (delivered > 0 <=> ~cfg.dryRun)
       /\ lastErr # "none" /\ delivered > 0 => lost > 0
       /\ lastErr # "none" /\ ctx = "live" => attempts = MaxAttempts
  /\ answer = "ok" => lastErr = "none"
  /\ answer = "error" => lastErr # "none"

\* Routing runs only between StartRouting and EndRouting.
RpcInv ==
  /\ pc \notin {"routing", "crashed"} => rpc = "idle"
  /\ pc = "crashed" => rpc \in {"idle", "dead"}
  /\ pc = "routing" => rpc # "dead"

SendInv == TypeOK /\ RouteInv /\ RpcInv /\ LoopInv /\ CopiesInv /\ OutcomeInv

-----------------------------------------------------------------------------

LEMMA ConfigFacts ==
  ASSUME cfg \in Configs
  PROVE  /\ MaxAttempts \in Nat \ {0}
         /\ cfg.dryRun \in BOOLEAN /\ cfg.encrypt \in BOOLEAN
         /\ RouteJob \in Job
         /\ cfg.successPath \in Dirs \cup {NoPath}
<1>1. cfg \in Config
  BY ConfigAssumption
<1>2. cfg.retries \in Int /\ cfg.retries <= MaxInt /\ MaxInt \in Nat
  BY <1>1, ConfigAssumption DEF Config
<1>3. MaxAttempts \in Nat \ {0}
  BY <1>2 DEF MaxAttempts
<1>4. RouteJob.files \in Seq(Files \cup {NoPath})
  <2>1. cfg.attachments \in Seq(Files \cup {NoPath}) /\ cfg.bodyFile \in Files \cup {NoPath}
    BY <1>1 DEF Config
  <2>2. <<>> \in Seq(Files \cup {NoPath}) /\ <<cfg.bodyFile>> \in Seq(Files \cup {NoPath})
    BY <2>1
  <2> DEFINE first == IF cfg.bodyFile = NoPath THEN <<>> ELSE <<cfg.bodyFile>>
  <2>3. first \in Seq(Files \cup {NoPath})
    BY <2>2
  <2>4. first \o cfg.attachments \in Seq(Files \cup {NoPath})
    <3> HIDE DEF first
    <3> QED BY <2>1, <2>3
  <2>5. RouteJob.files = first \o cfg.attachments
    BY DEF RouteJob
  <2> QED BY <2>4, <2>5
<1>5. RouteJob \in Job
  BY <1>1, <1>4 DEF RouteJob, Job, Config, success
<1> QED BY <1>1, <1>3, <1>5 DEF Config

LEMMA SendInitInv == Init => SendInv
<1> SUFFICES ASSUME Init PROVE SendInv
  OBVIOUS
<1>1. RouteInv /\ RouteTypeOK
  BY InitInv DEF Init, RouteInv
<1>2. TypeOK
  BY <1>1, ConfigAssumption DEF Init, TypeOK, Preparing
<1>3. MaxAttempts \in Nat \ {0}
  BY ConfigFacts DEF Init
<1>4. LoopInv /\ CopiesInv /\ OutcomeInv
  BY <1>3 DEF Init, LoopInv, CopiesInv, OutcomeInv, Preparing, Looping, Closing
<1>5. RpcInv
  BY DEF Init, RouteInit, RpcInv
<1> QED BY <1>1, <1>2, <1>5, <1>4 DEF SendInv

-----------------------------------------------------------------------------

\* Outside routing nothing touches the variables of RouteFiles, except that
\* another program may take a file away.
LEMMA RoutePart ==
  ASSUME SendInv, [Next]_vars
  PROVE  \/ [RouteNext]_routeVars
         \/ rpc = "idle" /\ \E f \in Files : Vanish(f)
<1>1. CASE UNCHANGED vars
  BY <1>1 DEF vars
<1>2. CASE Work
  <2>1. CASE Routing
    BY <2>1 DEF Routing, RouteNext
  <2>2. CASE StartRouting
    BY <2>2, ConfigFacts DEF StartRouting, RouteNext, SendInv, TypeOK
  <2>3. CASE ~Routing /\ ~StartRouting
    BY <1>2, <2>3 DEF Work, ValidateInputs, ValidateOutputs, ValidateNumbers, BuildMessage,
       SkipDelay, CancelDelay, LoopEnds, LoopCancelled, StartAttempt, Accepted, Refused,
       ReplyLost, Dial, PrepareRetry, LastAttemptFailed, NextIteration, RetryCancelled,
       SaveEML, SkipRouting, EndRouting, Audit, Proceed, Reject
  <2> QED BY <2>1, <2>2, <2>3
<1>3. CASE Timers
  BY <1>3 DEF Timers, DelayTimer, RetryTimer, NextIteration, Proceed
<1>4. CASE Cancel \/ Crash \/ Restart
  BY <1>4 DEF Cancel, Crash, Restart, RouteNext
<1>5. CASE \E f \in Files : Vanish(f)
  BY <1>5 DEF Vanish, Running, SendInv, RpcInv
<1> QED BY <1>1, <1>2, <1>3, <1>4, <1>5 DEF Next, Environment

LEMMA RouteInvStep == SendInv /\ [Next]_vars => RouteInv'
<1> SUFFICES ASSUME SendInv, [Next]_vars PROVE RouteInv'
  OBVIOUS
<1>1. CASE [RouteNext]_routeVars
  BY <1>1, RouteStepInv DEF SendInv
<1>2. ASSUME NEW f \in Files, rpc = "idle", Vanish(f) PROVE RouteInv'
  <2>1. RouteTypeOK'
    BY <1>2 DEF SendInv, RouteInv, RouteTypeOK, Vanish
  <2>2. NamesInv'
    BY <1>2 DEF SendInv, RouteInv, NamesInv, Vanish
  <2>3. MoveInv' /\ CopyInv'
    BY <1>2 DEF MoveInv, CopyInv, Vanish, Moving
  <2> QED BY <2>1, <2>2, <2>3 DEF RouteInv
<1> QED BY <1>1, <1>2, RoutePart

LEMMA RpcInvStep == SendInv /\ [Next]_vars => RpcInv'
<1> SUFFICES ASSUME SendInv, [Next]_vars PROVE RpcInv'
  OBVIOUS
<1> USE DEF RpcInv
<1>1. CASE UNCHANGED vars
  BY <1>1 DEF vars, routeVars, SendInv
<1>2. CASE Work
  <2>1. CASE Routing
    BY <2>1 DEF Routing, RouteStep, RouteReturn, SkipFile, DeleteFile, MakeDestDir,
       RenameFile, OpenSource, CreateDest, WriteDest, UnlinkSource, NextFile, StepTo,
       RouteFails
  <2>2. CASE StartRouting
    BY <2>2 DEF StartRouting, RouteCall
  <2>3. CASE ~Routing /\ ~StartRouting
    BY <1>2, <2>3 DEF Work, ValidateInputs, ValidateOutputs, ValidateNumbers, BuildMessage,
       SkipDelay, CancelDelay, LoopEnds, LoopCancelled, StartAttempt, Accepted, Refused,
       ReplyLost, Dial, PrepareRetry, LastAttemptFailed, NextIteration, RetryCancelled,
       SaveEML, SkipRouting, EndRouting, Audit, Proceed, Reject, LeaveLoop, SendInv, routeVars
  <2> QED BY <2>1, <2>2, <2>3
<1>3. CASE Timers
  BY <1>3 DEF Timers, DelayTimer, RetryTimer, NextIteration, Proceed, SendInv, routeVars
<1>4. CASE Cancel \/ Crash \/ Restart
  BY <1>4 DEF Cancel, Crash, Restart, RouteDies, RouteRevives, SendInv, routeVars, Running
<1>5. CASE \E f \in Files : Vanish(f)
  BY <1>5 DEF Vanish, SendInv, Running
<1> QED BY <1>1, <1>2, <1>3, <1>4, <1>5 DEF Next, Environment

\* The arguments never change, and with them what is computed from them.
LEMMA SameConfig ==
  ASSUME [Next]_vars
  PROVE  cfg' = cfg /\ MaxAttempts' = MaxAttempts
<1>1. cfg' = cfg
  BY DEF vars, Next, Work, Timers, Environment, ValidateInputs, ValidateOutputs,
     ValidateNumbers, BuildMessage, SkipDelay, DelayTimer, CancelDelay, LoopEnds,
     LoopCancelled, StartAttempt, Accepted, Refused, ReplyLost, Dial, PrepareRetry,
     LastAttemptFailed, RetryTimer, NextIteration, RetryCancelled, SaveEML, StartRouting,
     SkipRouting, Routing, EndRouting, Audit, Cancel, Vanish, Crash, Restart, Proceed, Reject
<1> QED BY <1>1 DEF MaxAttempts

LEMMA TypeStep == SendInv /\ [Next]_vars => TypeOK'
<1> SUFFICES ASSUME SendInv, [Next]_vars PROVE TypeOK'
  OBVIOUS
<1>1. RouteTypeOK' /\ cfg' \in Configs
  BY RouteInvStep, SameConfig DEF RouteInv, SendInv, TypeOK
<1> DEFINE Rest ==
      /\ pc \in Preparing \cup Looping \cup Closing \cup {"returned", "crashed"}
      /\ ctx \in {"live", "done"}
      /\ i \in Nat /\ attempts \in Nat /\ dials \in Nat
      /\ lastErr \in {"none", "cancelled", "client", "send"}
      /\ parts \subseteq Files
      /\ answer \in {"none", "ok", "error", "rejected"}
      /\ archive \in {"none", "saved", "ioError", "unreadable"}
      /\ logged \subseteq {"RETRY", "SUCCESS", "ERROR"}
      /\ delivered \in Nat /\ earlier \in Nat /\ lost \in Nat
      /\ vanished \subseteq Files
      /\ crashes \in 0..MaxCrashes
<1>2. Rest
  BY DEF SendInv, TypeOK
<1> USE <1>2 DEF Preparing, Looping, Closing
<1>3. ASSUME UNCHANGED vars PROVE Rest'
  BY <1>3 DEF vars, loopVars, resultVars, serverVars, envVars
<1> USE DEF loopVars, resultVars, serverVars, envVars
<1>4. ASSUME \/ ValidateInputs \/ ValidateOutputs \/ ValidateNumbers \/ BuildMessage
             \/ SkipDelay \/ DelayTimer \/ CancelDelay \/ LoopEnds \/ SkipRouting
             \/ EndRouting
      PROVE  Rest'
  <2>1. CASE BuildMessage
    <3>1. present \subseteq Files
      BY DEF SendInv, TypeOK, RouteTypeOK
    <3> QED BY <2>1, <3>1 DEF BuildMessage, Reject
  <2>2. CASE ~BuildMessage
    BY <1>4, <2>2 DEF ValidateInputs, ValidateOutputs, ValidateNumbers, SkipDelay,
       DelayTimer, CancelDelay, LoopEnds, SkipRouting, EndRouting, Proceed, Reject
  <2> QED BY <2>1, <2>2
<1>5. ASSUME \/ LoopCancelled \/ StartAttempt \/ LastAttemptFailed
             \/ RetryTimer \/ RetryCancelled
      PROVE  Rest'
  <2>1. CASE LoopCancelled \/ RetryCancelled
    BY <2>1 DEF LoopCancelled, RetryCancelled, LeaveLoop
  <2>2. CASE StartAttempt
    BY <2>2 DEF StartAttempt
  <2>3. CASE LastAttemptFailed \/ RetryTimer
    <3>1. NextIteration
      BY <2>3 DEF LastAttemptFailed, RetryTimer
    <3> QED BY <3>1 DEF NextIteration
  <2> QED BY <1>5, <2>1, <2>2, <2>3
<1>6. ASSUME Accepted \/ Refused \/ ReplyLost PROVE Rest'
  <2>1. CASE Accepted
    BY <2>1 DEF Accepted, Dial
  <2>2. CASE Refused
    BY <2>2 DEF Refused, Dial
  <2>3. CASE ReplyLost
    BY <2>3 DEF ReplyLost, Dial
  <2> QED BY <1>6, <2>1, <2>2, <2>3
<1>7. ASSUME PrepareRetry \/ Audit PROVE Rest'
  BY <1>7 DEF PrepareRetry, Audit
<1>8. ASSUME SaveEML PROVE Rest'
  BY <1>8 DEF SaveEML
<1>9. ASSUME StartRouting \/ Routing PROVE Rest'
  BY <1>9 DEF StartRouting, Routing
<1>10. ASSUME Cancel \/ (\E f \in Files : Vanish(f)) PROVE Rest'
  BY <1>10 DEF Cancel, Vanish
<1>11. ASSUME Crash PROVE Rest'
  BY <1>11, ConfigAssumption DEF Crash
<1>12. ASSUME Restart PROVE Rest'
  BY <1>12 DEF Restart
<1>13. Rest'
  BY <1>3, <1>4, <1>5, <1>6, <1>7, <1>8, <1>9, <1>10, <1>11, <1>12
     DEF Next, Work, Timers, Environment
<1> HIDE DEF Preparing, Looping, Closing
<1> QED BY <1>1, <1>13 DEF TypeOK

LEMMA LoopStep == SendInv /\ [Next]_vars => LoopInv' /\ CopiesInv' /\ OutcomeInv'
<1> SUFFICES ASSUME SendInv, [Next]_vars PROVE LoopInv' /\ CopiesInv' /\ OutcomeInv'
  OBVIOUS
<1>1. /\ i \in Nat /\ attempts \in Nat /\ dials \in Nat /\ crashes \in Nat
      /\ delivered \in Nat /\ earlier \in Nat /\ lost \in Nat
      /\ MaxAttempts \in Nat \ {0} /\ MaxAttempts' = MaxAttempts /\ cfg' = cfg
      /\ cfg.dryRun \in BOOLEAN /\ ctx \in {"live", "done"}
  BY ConfigFacts, SameConfig, ConfigAssumption DEF SendInv, TypeOK
<1> DEFINE Max == MaxAttempts
<1>2. LoopInv /\ CopiesInv /\ OutcomeInv
  BY DEF SendInv
<1> USE <1>1, <1>2 DEF LoopInv, CopiesInv, OutcomeInv, Preparing, Looping, Closing,
    loopVars, resultVars, serverVars, envVars
<1>3. CASE UNCHANGED vars
  BY <1>3 DEF vars
<1>4. CASE \/ ValidateInputs \/ ValidateOutputs \/ ValidateNumbers \/ BuildMessage
           \/ CancelDelay
  BY <1>4 DEF ValidateInputs, ValidateOutputs, ValidateNumbers, BuildMessage,
     CancelDelay, Proceed, Reject
<1>5. CASE SkipDelay \/ DelayTimer \/ LoopEnds \/ SkipRouting \/ EndRouting
  BY <1>5 DEF SkipDelay, DelayTimer, LoopEnds, SkipRouting, EndRouting, Proceed
<1>6. CASE LoopCancelled \/ RetryCancelled
  BY <1>6 DEF LoopCancelled, RetryCancelled, LeaveLoop
<1>7. CASE StartAttempt
  BY <1>7 DEF StartAttempt
<1>8. CASE Accepted \/ Refused \/ ReplyLost
  BY <1>8 DEF Accepted, Refused, ReplyLost, Dial
<1>9. CASE PrepareRetry \/ LastAttemptFailed \/ RetryTimer
  BY <1>9 DEF PrepareRetry, LastAttemptFailed, RetryTimer, NextIteration
<1>10. CASE SaveEML \/ StartRouting \/ Routing
  BY <1>10 DEF SaveEML, StartRouting, Routing
<1>11. CASE Audit
  BY <1>11 DEF Audit, success
<1>12. CASE Cancel \/ \E f \in Files : Vanish(f)
  BY <1>12 DEF Cancel, Vanish
<1>13. CASE Crash
  BY <1>13 DEF Crash, Running
<1>14. CASE Restart
  BY <1>14 DEF Restart
<1> QED BY <1>3, <1>4, <1>5, <1>6, <1>7, <1>8, <1>9, <1>10, <1>11, <1>12, <1>13, <1>14
        DEF Next, Work, Timers, Environment

LEMMA SendInvStep == SendInv /\ [Next]_vars => SendInv'
BY TypeStep, RouteInvStep, RpcInvStep, LoopStep DEF SendInv

(* The type invariant of SendEmail and its inductive invariant: the control  *)
(* state, the loop counters and the account of copies always agree.          *)
THEOREM SendTypeCorrect == Spec => []TypeOK
<1>1. SendInv => TypeOK
  BY DEF SendInv
<1> QED BY <1>1, SendInitInv, SendInvStep, PTL DEF Spec

LEMMA VanishedStep ==
  ASSUME [Next]_vars PROVE vanished' = vanished \/ \E f \in Files : Vanish(f)
BY DEF vars, envVars, Next, Work, Timers, Environment, ValidateInputs, ValidateOutputs,
   ValidateNumbers, BuildMessage, SkipDelay, DelayTimer, CancelDelay, LoopEnds,
   LoopCancelled, StartAttempt, Accepted, Refused, ReplyLost, Dial, PrepareRetry,
   LastAttemptFailed, RetryTimer, NextIteration, RetryCancelled, SaveEML, StartRouting,
   SkipRouting, Routing, EndRouting, Audit, Cancel, Crash, Restart, Proceed, Reject

(* What SendEmail tells its caller is true of the server, for every budget   *)
(* of retries, also one at which 1 + Retries overflows.                      *)
THEOREM SendAnswerTruth == Spec => []AnswerTruth
<1>1. SendInv => AnswerTruth
  BY DEF SendInv, TypeOK, OutcomeInv, AnswerTruth, Closing
<1> QED BY <1>1, SendInitInv, SendInvStep, PTL DEF Spec

(* The retry loop never sends again what the server acknowledged: copies     *)
(* beyond the first are lost replies or reruns after a crash.                *)
THEOREM SendCopiesAccounted == Spec => []CopiesAccounted
<1>1. SendInv => CopiesAccounted
  BY DEF SendInv, CopiesInv, CopiesAccounted
<1> QED BY <1>1, SendInitInv, SendInvStep, PTL DEF Spec

(* SendEmail gives up only when its budget is spent or it was cancelled.     *)
THEOREM SendWholeBudget == Spec => []WholeBudget
<1>1. SendInv => WholeBudget
  BY DEF SendInv, TypeOK, LoopInv, OutcomeInv, WholeBudget, Closing
<1> QED BY <1>1, SendInitInv, SendInvStep, PTL DEF Spec

(* No attempt is started once the context is cancelled.                      *)
THEOREM SendNoAttemptAfterCancel == Spec => NoAttemptAfterCancel
<1>1. [Next]_vars => [ctx = "done" /\ Running => attempts' = attempts]_vars
  <2> SUFFICES ASSUME Next, ctx = "done", Running PROVE attempts' = attempts
    OBVIOUS
  <2>1. ~StartAttempt /\ ~Restart
    BY DEF StartAttempt, Restart, Running
  <2> QED BY <2>1 DEF Next, Work, Timers, Environment, ValidateInputs, ValidateOutputs,
       ValidateNumbers, BuildMessage, SkipDelay, DelayTimer, CancelDelay, LoopEnds,
       LoopCancelled, Accepted, Refused, ReplyLost, Dial, PrepareRetry, LastAttemptFailed,
       RetryTimer, NextIteration, RetryCancelled, LeaveLoop, SaveEML, StartRouting,
       SkipRouting, Routing, EndRouting, Audit, Cancel, Vanish, Crash, Proceed, Reject,
       loopVars
<1> QED BY <1>1, PTL DEF Spec, NoAttemptAfterCancel

(* Routing loses no file over crashes and reruns.                            *)
THEOREM SendInputsSurvive == ASSUME DistinctNames PROVE Spec => []InputsSurvive
<1>1. Init => InputsSurvive
  BY DEF Init, RouteInit, InputsSurvive, Kept
<1>2. SendInv /\ InputsSurvive /\ [Next]_vars => InputsSurvive'
  <2> SUFFICES ASSUME SendInv, InputsSurvive, [Next]_vars PROVE InputsSurvive'
    OBVIOUS
  <2>1. ASSUME NEW f \in Files, Vanish(f) PROVE InputsSurvive'
    BY <2>1 DEF Vanish, InputsSurvive, Kept
  <2>2. CASE [RouteNext]_routeVars /\ vanished' = vanished
    BY <2>2, KeptStep, PurgedGrows, DistinctNames DEF SendInv, InputsSurvive
  <2> QED BY <2>1, <2>2, RoutePart, VanishedStep
<1> QED BY <1>1, <1>2, SendInitInv, SendInvStep, PTL DEF Spec

-----------------------------------------------------------------------------

\* What SendEmail does to the disk, and what the disk says about the server.
DiskInv ==
  /\ cfg.dryRun => pc # "routing" /\ archive = "none"
  /\ pc \in Looping \cup {"outputs", "numbers", "build", "delay", "archive"} =>
       InputFiles \subseteq present \cup vanished
  /\ pc \in Looping \cup Closing \cup {"delay"} =>
       Attached \cup Embedded \subseteq parts \cup vanished
  /\ parts \subseteq Attached \cup Embedded
  /\ pc \in Preparing => archive = "none"
  /\ archive = "unreadable" => parts \cap vanished # {}
  /\ pc = "routing" => /\ RoutingAsked
                        /\ job.success = success
                        /\ job.successPath = cfg.successPath
                        /\ job.errorPath = cfg.errorPath

\* Every step leaves the disk alone, or routes one file, or is another program.
LEMMA DiskStep ==
  ASSUME SendInv, [Next]_vars
  PROVE  \/ DiskUnchanged /\ vanished' = vanished
         \/ Routing /\ vanished' = vanished
         \/ \E f \in Files : Vanish(f)
BY DEF vars, routeVars, envVars, Next, Work, Timers, Environment, ValidateInputs,
   ValidateOutputs, ValidateNumbers, BuildMessage, SkipDelay, DelayTimer, CancelDelay,
   LoopEnds, LoopCancelled, StartAttempt, Accepted, Refused, ReplyLost, Dial, PrepareRetry,
   LastAttemptFailed, RetryTimer, NextIteration, RetryCancelled, SaveEML, StartRouting,
   SkipRouting, Routing, EndRouting, Audit, Cancel, Crash, Restart, Proceed, Reject,
   DiskUnchanged, RouteCall, RouteDies, RouteRevives

LEMMA DiskInvInit == Init => DiskInv
BY DEF Init, DiskInv, Preparing, Looping, Closing

LEMMA DiskInvStep == SendInv /\ DiskInv /\ [Next]_vars => DiskInv'
<1> SUFFICES ASSUME SendInv, DiskInv, [Next]_vars PROVE DiskInv'
  OBVIOUS
<1>1. /\ cfg' = cfg /\ cfg.dryRun \in BOOLEAN
      /\ InputFiles' = InputFiles /\ RoutingAsked' = RoutingAsked
      /\ Attached' = Attached /\ Embedded' = Embedded
  BY SameConfig, ConfigFacts
     DEF SendInv, TypeOK, InputFiles, Attached, Embedded, RoutingAsked
<1>2. Attached \cup Embedded \subseteq InputFiles
  BY DEF InputFiles
<1> USE <1>1 DEF DiskInv, Preparing, Looping, Closing
<1>3. CASE UNCHANGED vars
  BY <1>3 DEF vars, routeVars, loopVars, resultVars, envVars, success
<1>4. CASE \/ ValidateInputs \/ ValidateOutputs \/ ValidateNumbers
           \/ CancelDelay \/ SkipDelay \/ DelayTimer \/ LoopEnds \/ SkipRouting \/ EndRouting
  BY <1>4 DEF ValidateInputs, ValidateOutputs, ValidateNumbers, CancelDelay,
     SkipDelay, DelayTimer, LoopEnds, SkipRouting, EndRouting, Proceed, Reject,
     routeVars, resultVars, envVars
<1>14. CASE BuildMessage
  BY <1>2, <1>14 DEF BuildMessage, Reject, routeVars, envVars
<1>5. CASE \/ LoopCancelled \/ RetryCancelled \/ StartAttempt \/ PrepareRetry
           \/ LastAttemptFailed \/ RetryTimer
  BY <1>5 DEF LoopCancelled, RetryCancelled, LeaveLoop, StartAttempt, PrepareRetry,
     LastAttemptFailed, RetryTimer, NextIteration, routeVars, resultVars, envVars
<1>6. CASE Accepted \/ Refused \/ ReplyLost
  BY <1>6 DEF Accepted, Refused, ReplyLost, Dial, routeVars, resultVars, envVars
<1>7. CASE SaveEML
  <2>1. ~Readable => parts \cap vanished # {}
    BY <1>2, <1>7 DEF SaveEML, Readable
  <2> QED BY <1>7, <2>1 DEF SaveEML, routeVars, envVars
<1>8. CASE StartRouting
  BY <1>8 DEF StartRouting, RoutingAsked, RouteCall, RouteJob, DiskUnchanged, resultVars,
     envVars, loopVars, success
<1>9. CASE Routing
  BY <1>9, RouteStepJob DEF Routing, resultVars, envVars, loopVars, success
<1>10. CASE Audit
  BY <1>10 DEF Audit, routeVars, envVars
<1>11. CASE Cancel \/ Crash
  BY <1>11 DEF Cancel, Crash, routeVars, resultVars, loopVars, success
<1>12. CASE Restart
  BY <1>12 DEF Restart
<1>13. CASE \E f \in Files : Vanish(f)
  BY <1>13 DEF Vanish, resultVars, loopVars, success
<1> QED BY <1>3, <1>4, <1>5, <1>6, <1>7, <1>8, <1>9, <1>10, <1>11, <1>12, <1>13, <1>14
        DEF Next, Work, Timers, Environment

(* The message is built and written out, and so is its archive, only while   *)
(* every input file is where it was named, unless another program took it:   *)
(* only such a file is left off the message.                                 *)
THEOREM SendReadsBeforeRouting == Spec => []ReadsBeforeRouting
<1>1. DiskInv => ReadsBeforeRouting
  BY DEF DiskInv, ReadsBeforeRouting
<1> QED BY <1>1, SendInitInv, SendInvStep, DiskInvInit, DiskInvStep, PTL DEF Spec

(* A dry run sends and archives nothing; a dry run, and a message without    *)
(* routing options, moves and deletes nothing.                               *)
THEOREM SendInert == Spec => []Inert
<1> DEFINE Unrouted == \/ cfg.dryRun
                       \/ /\ cfg.successPath = NoPath /\ cfg.errorPath = NoPath
                          /\ ~cfg.deleteAfter
           Untouched == /\ Files \subseteq present \cup vanished
                        /\ \A p \in Dirs \X Names : out[p] = NoCopy
<1>1. Init => Inert
  BY DEF Init, RouteInit, Inert
<1>2. SendInv /\ DiskInv /\ Inert /\ SendInv' /\ DiskInv' /\ [Next]_vars => Inert'
  <2> SUFFICES ASSUME SendInv, DiskInv, Inert, SendInv', DiskInv', [Next]_vars PROVE Inert'
    OBVIOUS
  <2>1. cfg' = cfg /\ cfg.dryRun \in BOOLEAN
    BY SameConfig, ConfigFacts DEF SendInv, TypeOK
  <2>2. cfg'.dryRun => delivered' + earlier' = 0 /\ archive' = "none"
    BY <2>1 DEF SendInv, LoopInv, DiskInv
  <2>3. Unrouted => Untouched'
    <3> SUFFICES ASSUME Unrouted PROVE Untouched'
      OBVIOUS
    <3>1. ~Routing
      BY DEF Routing, DiskInv, RoutingAsked
    <3>2. Untouched
      BY DEF Inert
    <3> QED BY <3>1, <3>2, DiskStep DEF DiskUnchanged, Vanish
  <2> QED BY <2>1, <2>2, <2>3 DEF Inert
<1> QED BY <1>1, <1>2, SendInitInv, SendInvStep, DiskInvInit, DiskInvStep, PTL DEF Spec

LEMMA SumGrows ==
  \A x, y, u, v \in Nat : u + v >= x + y => (x + y > 0 => u + v > 0)
OBVIOUS

LEMMA CopiesGrow ==
  ASSUME SendInv, [Next]_vars PROVE delivered' + earlier' >= delivered + earlier
<1>1. delivered \in Nat /\ earlier \in Nat
  BY DEF SendInv, TypeOK
<1>2. CASE UNCHANGED <<delivered, earlier>>
  BY <1>1, <1>2
<1>3. CASE Accepted \/ ReplyLost
  BY <1>1, <1>3 DEF Accepted, ReplyLost, Dial
<1>4. CASE Restart
  BY <1>1, <1>4 DEF Restart
<1> QED BY <1>2, <1>3, <1>4 DEF vars, serverVars, Next, Work, Timers, Environment,
   ValidateInputs, ValidateOutputs, ValidateNumbers, BuildMessage, SkipDelay, DelayTimer,
   CancelDelay, LoopEnds, LoopCancelled, StartAttempt, Refused, Dial, PrepareRetry,
   LastAttemptFailed, RetryTimer, NextIteration, RetryCancelled, SaveEML, StartRouting,
   SkipRouting, Routing, EndRouting, Audit, Cancel, Vanish, Crash, Proceed, Reject

(* Whatever lies in the success directory belongs to a message the server    *)
(* has taken, also after crashes and reruns.                                 *)
THEOREM SendSuccessDirMeansSent == Spec => []SuccessDirMeansSent
<1>1. Init => SuccessDirMeansSent
  BY DEF Init, RouteInit, SuccessDirMeansSent
<1>2. SendInv /\ DiskInv /\ SuccessDirMeansSent /\ [Next]_vars => SuccessDirMeansSent'
  <2> SUFFICES ASSUME SendInv, DiskInv, SuccessDirMeansSent, [Next]_vars,
                      cfg.successPath # cfg.errorPath, cfg.successPath \in Dirs,
                      NEW n \in Names, out'[<<cfg.successPath, n>>] # NoCopy
               PROVE  delivered' + earlier' > 0
    BY SameConfig DEF SuccessDirMeansSent
  <2>1. delivered + earlier > 0 => delivered' + earlier' > 0
    <3>1. delivered' \in Nat /\ earlier' \in Nat /\ delivered \in Nat /\ earlier \in Nat
      BY SendInvStep DEF SendInv, TypeOK
    <3>2. delivered' + earlier' >= delivered + earlier
      BY CopiesGrow
    <3> QED BY <3>1, <3>2, SumGrows
  <2> DEFINE p == <<cfg.successPath, n>>
  <2>2. CASE out'[p] = out[p]
    <3>1. out[p] # NoCopy /\ cfg.successPath \in {cfg.successPath} \cap Dirs
      BY <2>2
    <3>2. delivered + earlier > 0
      BY <3>1 DEF SuccessDirMeansSent
    <3> QED BY <2>1, <3>2
  <2>3. CASE out'[p] # out[p]
    <3>1. Routing
      BY <2>3, DiskStep DEF DiskUnchanged, Vanish
    <3>2. cfg.successPath = DestDir(job)
      BY <2>3, <3>1, RouteStepWrites DEF Routing, SendInv
    <3>3. pc = "routing" /\ job.success = success /\ job.successPath = cfg.successPath
          /\ job.errorPath = cfg.errorPath /\ ~cfg.dryRun
      BY <3>1 DEF Routing, DiskInv
    <3>4. lastErr = "none"
      BY <3>2, <3>3 DEF DestDir, success
    <3>5. delivered > 0 /\ delivered \in Nat /\ earlier \in Nat
      BY <3>3, <3>4 DEF SendInv, TypeOK, OutcomeInv, Closing
    <3>6. delivered + earlier > 0
      BY ONLY <3>5
    <3> QED BY <2>1, <3>6
  <2> QED BY <2>2, <2>3
<1> QED BY <1>1, <1>2, SendInitInv, SendInvStep, DiskInvInit, DiskInvStep, PTL DEF Spec

-----------------------------------------------------------------------------

\* Refinement: what each step of SendEmail is in Delivery.

\* The refinement mapping, read off the control state.
BarInv ==
  /\ pc \in Preparing \cup Looping => phaseBar = "sending" /\ outcomeBar = "none"
  /\ pc \in Closing =>
       /\ phaseBar = "filing"
       /\ outcomeBar = IF lastErr # "none" THEN "failed"
                       ELSE IF cfg.dryRun THEN "rehearsed" ELSE "sent"
  /\ pc = "returned" =>
       /\ phaseBar = "told"
       /\ outcomeBar = IF answer = "rejected" THEN "rejected"
                       ELSE IF lastErr # "none" THEN "failed"
                       ELSE IF cfg.dryRun THEN "rehearsed" ELSE "sent"
  /\ pc = "crashed" => phaseBar = "dead" /\ outcomeBar = "none"

LEMMA BarFacts == SendInv => BarInv
<1> SUFFICES ASSUME SendInv PROVE BarInv
  OBVIOUS
<1> USE DEF phaseBar, outcomeBar, success, SendInv, OutcomeInv, Preparing, Looping, Closing
<1>1. pc \in Preparing \cup Looping => phaseBar = "sending" /\ outcomeBar = "none"
  OBVIOUS
<1>2. pc \in Closing =>
       /\ phaseBar = "filing"
       /\ outcomeBar = IF lastErr # "none" THEN "failed"
                       ELSE IF cfg.dryRun THEN "rehearsed" ELSE "sent"
  OBVIOUS
<1>3. pc = "returned" =>
       /\ phaseBar = "told"
       /\ outcomeBar = IF answer = "rejected" THEN "rejected"
                       ELSE IF lastErr # "none" THEN "failed"
                       ELSE IF cfg.dryRun THEN "rehearsed" ELSE "sent"
  OBVIOUS
<1>4. pc = "crashed" => phaseBar = "dead" /\ outcomeBar = "none"
  OBVIOUS
<1> QED BY <1>1, <1>2, <1>3, <1>4 DEF BarInv

movedBar == Files \ (present \cup vanished)

\* One step of routing takes away at most the current file.
LEMMA RouteStepMoves ==
  ASSUME RouteInv, RouteStep, vanished' = vanished
  PROVE  movedBar' = movedBar \/ \E f \in Files : movedBar' = movedBar \cup {f}
<1>1. present' = present \/ (present' = present \ {File} /\ File \in Files)
  <2>1. CASE DeleteFile
    BY <2>1, FileAtIndex DEF DeleteFile, DiskUnchanged, RouteInv
  <2>2. CASE RenameFile \/ UnlinkSource
    BY <2>2 DEF RenameFile, UnlinkSource, DiskUnchanged, RouteInv, MoveInv, Moving
  <2> QED BY <2>1, <2>2 DEF RouteStep, RouteReturn, SkipFile, MakeDestDir, OpenSource,
          CreateDest, WriteDest, DiskUnchanged
<1>2. CASE present' = present
  BY <1>2 DEF movedBar
<1>3. CASE present' = present \ {File} /\ File \in Files /\ File \in vanished
  BY <1>3 DEF movedBar
<1>4. CASE present' = present \ {File} /\ File \in Files /\ File \notin vanished
  BY <1>4 DEF movedBar
<1> QED BY <1>1, <1>2, <1>3, <1>4

\* Every step of SendEmail is a step of Delivery or changes nothing there.
LEMMA StepRefines ==
  SendInv /\ DiskInv /\ BarInv /\ SendInv' /\ BarInv' /\ [Next]_vars => [D!Next]_(D!vars)
<1> SUFFICES ASSUME SendInv, DiskInv, BarInv, SendInv', BarInv', [Next]_vars
             PROVE  [D!Next]_(D!vars)
  OBVIOUS
<1> DEFINE Same == phaseBar' = phaseBar /\ outcomeBar' = outcomeBar
                   /\ delivered' = delivered /\ movedBar' = movedBar
<1>1. Same => [D!Next]_(D!vars)
  BY DEF D!vars, movedBar
<1> HIDE DEF Same
<1>2. cfg' = cfg /\ cfg.dryRun \in BOOLEAN /\ MaxAttempts \in Nat \ {0}
  BY SameConfig, ConfigFacts DEF SendInv, TypeOK
<1>3. UNCHANGED <<present, vanished>> => movedBar' = movedBar
  BY DEF movedBar
<1> USE DEF Preparing, Looping, Closing, routeVars, loopVars, resultVars, serverVars, envVars
<1>4. CASE UNCHANGED vars
  BY <1>1, <1>4 DEF vars, phaseBar, outcomeBar, success, movedBar, Same
<1>5. CASE Cancel
  BY <1>1, <1>5 DEF Cancel, phaseBar, outcomeBar, success, movedBar, Same
<1>6. CASE \E f \in Files : Vanish(f)
  <2>1. movedBar' = movedBar
    BY <1>6 DEF Vanish, movedBar
  <2> QED BY <1>1, <1>6, <2>1 DEF Vanish, phaseBar, outcomeBar, success, Same
<1>7. CASE \/ ValidateInputs \/ ValidateOutputs \/ ValidateNumbers \/ BuildMessage
           \/ SkipDelay \/ DelayTimer \/ CancelDelay
  <2> DEFINE Onward == /\ pc' \in Preparing \cup Looping
                       /\ UNCHANGED <<cfg, present, delivered, vanished>>
  <2>1. pc \in Preparing /\ (Onward \/ Reject)
    BY <1>7 DEF ValidateInputs, ValidateOutputs, ValidateNumbers, BuildMessage, SkipDelay,
       DelayTimer, CancelDelay, Proceed
  <2>2. CASE Onward
    BY <1>1, <1>3, <2>1, <2>2 DEF BarInv, Same
  <2>3. CASE Reject
    <3>1. /\ phaseBar = "sending" /\ delivered = 0
          /\ phaseBar' = "told" /\ outcomeBar' = "rejected" /\ delivered' = delivered
      BY <2>1, <2>3 DEF Reject, BarInv, SendInv, LoopInv
    <3> QED BY <1>3, <2>3, <3>1 DEF Reject, D!Next, D!Settle, D!Refuse, movedBar
  <2> QED BY <2>1, <2>2, <2>3
<1>8. CASE LoopEnds \/ LoopCancelled \/ RetryCancelled
  <2>1. /\ pc \in Looping /\ pc' = "archive" /\ lastErr' # "none"
        /\ delivered' = delivered /\ UNCHANGED <<present, vanished>>
    BY <1>2, <1>8 DEF LoopEnds, LoopCancelled, RetryCancelled, LeaveLoop, Proceed, SendInv,
       TypeOK, LoopInv
  <2>2. /\ phaseBar = "sending" /\ phaseBar' = "filing" /\ outcomeBar' = "failed"
    BY <2>1 DEF BarInv
  <2> QED BY <1>3, <2>1, <2>2 DEF D!Next, D!Settle, D!GiveUp, movedBar
<1>9. CASE StartAttempt
  <2>1. CASE pc' = "archive"
    <3>1. phaseBar = "sending" /\ phaseBar' = "filing" /\ outcomeBar' = "rehearsed"
          /\ delivered = 0 /\ delivered' = 0
      BY <1>2, <1>9, <2>1 DEF StartAttempt, BarInv, SendInv, LoopInv
    <3> QED BY <1>3, <1>9, <3>1 DEF StartAttempt, D!Next, D!Settle, D!Rehearse, movedBar
  <2>2. CASE pc' # "archive"
    BY <1>1, <1>3, <1>9, <2>2 DEF StartAttempt, BarInv, Same
  <2> QED BY <2>1, <2>2
<1>10. CASE Accepted
  <2>1. phaseBar = "sending" /\ phaseBar' = "filing" /\ outcomeBar' = "sent"
    BY <1>2, <1>10 DEF Accepted, Dial, BarInv, SendInv, LoopInv
  <2> QED BY <1>3, <1>10, <2>1 DEF Accepted, Dial, D!Next, D!Settle, D!Acknowledge, movedBar
<1>11. CASE Refused \/ PrepareRetry \/ LastAttemptFailed \/ RetryTimer
  BY <1>1, <1>3, <1>11 DEF Refused, Dial, PrepareRetry, LastAttemptFailed, RetryTimer,
     NextIteration, BarInv, Same
<1>12. CASE ReplyLost
  <2>1. phaseBar = "sending" /\ phaseBar' = phaseBar /\ outcomeBar' = outcomeBar
    BY <1>12 DEF ReplyLost, Dial, BarInv
  <2> QED BY <1>3, <1>12, <2>1 DEF ReplyLost, Dial, D!Next, D!LoseReply, movedBar
<1>13. CASE SaveEML \/ StartRouting \/ SkipRouting \/ EndRouting
  BY <1>1, <1>2, <1>3, <1>13 DEF SaveEML, StartRouting, RouteCall, DiskUnchanged,
     SkipRouting, EndRouting, Proceed, BarInv, Same
<1>14. CASE Routing
  <2>1. /\ phaseBar = "filing" /\ outcomeBar \in {"sent", "failed"}
        /\ phaseBar' = phaseBar /\ outcomeBar' = outcomeBar /\ delivered' = delivered
        /\ vanished' = vanished
    BY <1>2, <1>14 DEF Routing, BarInv, DiskInv
  <2>2. CASE movedBar' = movedBar
    BY <1>1, <2>1, <2>2 DEF Same
  <2>3. ASSUME NEW f \in Files, movedBar' = movedBar \cup {f} PROVE [D!Next]_(D!vars)
    BY <2>1, <2>3 DEF D!Next, D!Move, movedBar
  <2> QED BY <1>14, <2>1, <2>2, <2>3, RouteStepMoves DEF Routing, SendInv
<1>15. CASE Audit
  <2>1. /\ phaseBar = "filing" /\ phaseBar' = "told" /\ outcomeBar' = outcomeBar
        /\ delivered' = delivered
    BY <1>2, <1>15 DEF Audit, success, BarInv
  <2> QED BY <1>3, <1>15, <2>1 DEF Audit, D!Next, D!Tell, movedBar
<1>16. CASE Crash
  <2>1. /\ phaseBar \in {"sending", "filing"} /\ phaseBar' = "dead" /\ outcomeBar' = "none"
        /\ delivered' = delivered
    BY <1>16 DEF Crash, Running, BarInv, SendInv, TypeOK
  <2>2. UNCHANGED <<present, vanished>>
    BY <1>16 DEF Crash, RouteDies, DiskUnchanged
  <2> QED BY <1>3, <2>1, <2>2 DEF D!Next, D!Kill, movedBar
<1>17. CASE Restart
  <2>1. /\ phaseBar = "dead" /\ phaseBar' = "sending" /\ outcomeBar' = outcomeBar
        /\ delivered' = 0
    BY <1>17 DEF Restart, BarInv
  <2>2. UNCHANGED <<present, vanished>>
    BY <1>17 DEF Restart, RouteRevives, DiskUnchanged
  <2> QED BY <1>3, <2>1, <2>2 DEF D!Next, D!Rerun, movedBar
<1> QED BY <1>4, <1>5, <1>6, <1>7, <1>8, <1>9, <1>10, <1>11, <1>12, <1>13, <1>14, <1>15,
        <1>16, <1>17 DEF Next, Work, Timers, Environment

(* SendEmail implements Delivery (its safety part): copies are sent, then    *)
(* the outcome is fixed, then files move, then the caller is told.           *)
THEOREM SendRefines == Spec => D!SafeSpec
<1>1. Init => D!Init
  BY DEF Init, RouteInit, D!Init, phaseBar, outcomeBar, Preparing, Looping, Closing
<1>2. SendInv => BarInv
  BY BarFacts
<1> QED BY <1>1, <1>2, StepRefines, SendInitInv, SendInvStep, DiskInvInit, DiskInvStep, PTL
        DEF Spec, D!SafeSpec

-----------------------------------------------------------------------------

\* What the batch modes rely on: to them a mail is Delivery without files.

\* No argument record asks for routing, or it is a dry run.
Unrouted == \A c \in Configs :
  c.dryRun \/ (c.successPath = NoPath /\ c.errorPath = NoPath /\ ~c.deleteAfter)

Mail == INSTANCE Delivery
          WITH phase   <- phaseBar,
               outcome <- outcomeBar,
               copies  <- delivered,
               moved   <- {}

(* A mail whose routing options are cleared, as single-attachment mode does  *)
(* before each call of SendEmail, keeps the promise of Delivery without      *)
(* ever touching a file: this is the mail that Batch is built on.            *)
THEOREM SendRefinesMail == ASSUME Unrouted PROVE Spec => Mail!SafeSpec
<1>1. Init => Mail!Init
  BY DEF Init, RouteInit, Mail!Init, phaseBar, outcomeBar, Preparing, Looping, Closing
<1> DEFINE NoneMoved == movedBar = {}
<1>2. SendInv /\ Inert => NoneMoved
  <2> SUFFICES ASSUME SendInv, Inert PROVE movedBar = {}
    OBVIOUS
  <2>1. Files \subseteq present \cup vanished
    BY Unrouted DEF Unrouted, SendInv, TypeOK, Inert
  <2> QED BY <2>1 DEF movedBar
<1>3. NoneMoved /\ NoneMoved' /\ [D!Next]_(D!vars) => [Mail!Next]_(Mail!vars)
  BY DEF movedBar, D!Next, D!vars, D!LoseReply, D!Settle, D!Acknowledge, D!GiveUp, D!Rehearse,
     D!Refuse, D!Move, D!Tell, D!Kill, D!Rerun, Mail!Next, Mail!vars, Mail!LoseReply,
     Mail!Settle, Mail!Acknowledge, Mail!GiveUp, Mail!Rehearse, Mail!Refuse, Mail!Move,
     Mail!Tell, Mail!Kill, Mail!Rerun
<1>4. SendInv => BarInv
  BY BarFacts
<1>5. Spec => []Inert
  BY SendInert
<1> HIDE DEF NoneMoved
<1> QED BY <1>1, <1>2, <1>3, <1>4, <1>5, StepRefines, SendInitInv, SendInvStep, DiskInvInit,
           DiskInvStep, PTL DEF Spec, Mail!SafeSpec

-----------------------------------------------------------------------------

\* The variant: StepsLeft as a function of the place, the round and the routing.
LeftAt(p, k, r) ==
  CASE p \in DOMAIN FromLoop -> 5 + RoutingSteps + 4 * (MaxAttempts - k) - FromLoop[p]
    [] p = "archive" -> 4 + RoutingSteps
    [] p = "route"   -> 3 + RoutingSteps
    [] p = "routing" -> 2 + r
    [] p = "audit"   -> 1
    [] OTHER         -> 0

LEMMA FromLoopIs ==
  /\ DOMAIN FromLoop = Preparing \cup Looping
  /\ FromLoop["start"] = -5 /\ FromLoop["outputs"] = -4 /\ FromLoop["numbers"] = -3
  /\ FromLoop["build"] = -2 /\ FromLoop["delay"] = -1 /\ FromLoop["loop"] = 0
  /\ FromLoop["dial"] = 1 /\ FromLoop["again"] = 2 /\ FromLoop["wait"] = 3
BY DEF FromLoop, Preparing, Looping

LEMMA LeftAtIs ==
  ASSUME NEW k, NEW r
  PROVE  /\ \A p \in Preparing \cup Looping :
              LeftAt(p, k, r) = 5 + RoutingSteps + 4 * (MaxAttempts - k) - FromLoop[p]
         /\ LeftAt("archive", k, r) = 4 + RoutingSteps
         /\ LeftAt("route", k, r) = 3 + RoutingSteps
         /\ LeftAt("routing", k, r) = 2 + r
         /\ LeftAt("audit", k, r) = 1
         /\ LeftAt("returned", k, r) = 0 /\ LeftAt("crashed", k, r) = 0
BY FromLoopIs DEF LeftAt, Preparing, Looping

LEMMA RoutingStepsFacts ==
  ASSUME cfg \in Configs
  PROVE  /\ RoutingSteps \in Nat \ {0}
         /\ Len(RouteJob.files) \in Nat /\ 1 + 6 * Len(RouteJob.files) <= RoutingSteps
<1>1. cfg.attachments \in Seq(Files \cup {NoPath}) /\ cfg.bodyFile \in Files \cup {NoPath}
  BY ConfigAssumption DEF Config
<1>2. Len(cfg.attachments) \in Nat
  BY <1>1
<1> DEFINE first == IF cfg.bodyFile = NoPath THEN <<>> ELSE <<cfg.bodyFile>>
<1>3. first \in Seq(Files \cup {NoPath}) /\ Len(first) \in 0..1
  BY <1>1
<1>4. RouteJob.files = first \o cfg.attachments
  BY DEF RouteJob
<1> HIDE DEF first
<1>5. Len(first \o cfg.attachments) = Len(first) + Len(cfg.attachments)
  BY <1>1, <1>3
<1> QED BY <1>2, <1>3, <1>4, <1>5 DEF RoutingSteps

LEMMA AtInvHolds == SendInv /\ AtInv /\ [Next]_vars => AtInv'
<1> SUFFICES ASSUME SendInv, AtInv, [Next]_vars PROVE AtInv'
  OBVIOUS
<1>1. CASE [RouteNext]_routeVars
  BY <1>1, AtInvStep DEF SendInv
<1>2. CASE \E f \in Files : Vanish(f)
  BY <1>2 DEF Vanish, AtInv
<1> QED BY <1>1, <1>2, RoutePart

\* The variant is a number, in every state.
LEMMA StepsLeftNat == SendInv /\ AtInv => StepsLeft \in Nat
<1> SUFFICES ASSUME SendInv, AtInv PROVE StepsLeft \in Nat
  OBVIOUS
<1>1. /\ RoutingSteps \in Nat \ {0} /\ RoutingLeft \in Nat
      /\ i \in Nat /\ MaxAttempts \in Nat \ {0}
      /\ pc \in Preparing \cup Looping \cup Closing \cup {"returned", "crashed"}
  BY RoutingStepsFacts, ConfigFacts, RoutingLeftNat DEF SendInv, TypeOK
<1>2. StepsLeft = LeftAt(pc, i, RoutingLeft)
  BY DEF StepsLeft, LeftAt
<1>3. CASE pc \in Preparing \cup Looping
  <2>1. StepsLeft = 5 + RoutingSteps + 4 * (MaxAttempts - i) - FromLoop[pc]
    BY <1>2, <1>3, LeftAtIs
  <2>2. FromLoop[pc] \in -5..3 /\ i <= MaxAttempts
    BY <1>1, <1>3, FromLoopIs DEF Preparing, Looping, SendInv, LoopInv
  <2> QED BY <1>1, <2>1, <2>2
<1>4. CASE pc \notin Preparing \cup Looping
  BY <1>1, <1>2, <1>4, LeftAtIs DEF Closing
<1> QED BY <1>3, <1>4

\* What a step of its own does to the variant.
LEMMA OwnStepAdvances ==
  ASSUME SendInv, AtInv, SendInv', AtInv', Work \/ Timers PROVE StepsLeft' < StepsLeft
<1>1. /\ RoutingSteps \in Nat \ {0} /\ RoutingLeft \in Nat
      /\ i \in Nat /\ MaxAttempts \in Nat \ {0}
      /\ 1 + 6 * Len(RouteJob.files) <= RoutingSteps /\ Len(RouteJob.files) \in Nat
  BY RoutingStepsFacts, ConfigFacts, RoutingLeftNat DEF SendInv, TypeOK
<1>2. cfg' = cfg /\ MaxAttempts' = MaxAttempts
  BY SameConfig DEF Next
<1>3. /\ StepsLeft = LeftAt(pc, i, RoutingLeft)
      /\ StepsLeft' = LeftAt(pc', i', RoutingLeft')
  BY <1>2 DEF StepsLeft, LeftAt, RoutingSteps, FromLoop
<1> DEFINE R == RoutingSteps
           M == 4 * (MaxAttempts - i)
<1>4. \A p \in Preparing \cup Looping : \A r : LeftAt(p, i, r) = 5 + R + M - FromLoop[p]
  BY LeftAtIs
<1> USE DEF Preparing, Looping
<1>5. CASE \/ ValidateInputs \/ ValidateOutputs \/ ValidateNumbers \/ BuildMessage
           \/ SkipDelay \/ DelayTimer \/ CancelDelay
  <2>1. i = 0
    BY <1>5 DEF SendInv, LoopInv, ValidateInputs, ValidateOutputs, ValidateNumbers,
       BuildMessage, SkipDelay, DelayTimer, CancelDelay
  <2>2. CASE Reject
    <3>1. pc \in Preparing /\ pc' = "returned"
      BY <1>5, <2>2 DEF Reject, ValidateInputs, ValidateOutputs, ValidateNumbers,
         BuildMessage, SkipDelay, DelayTimer, CancelDelay
    <3>2. StepsLeft' = 0
      BY <1>3, <3>1, LeftAtIs
    <3>3. FromLoop[pc] \in -5..0
      BY <3>1, FromLoopIs
    <3>4. StepsLeft = 5 + R + M - FromLoop[pc]
      BY <1>3, <1>4, <3>1
    <3> QED BY <1>1, <2>1, <3>2, <3>3, <3>4
  <2>3. CASE ~Reject
    <3>1. /\ pc \in Preparing /\ pc' \in Preparing \cup Looping /\ i' = i
          /\ FromLoop[pc'] = FromLoop[pc] + 1 /\ FromLoop[pc] \in -5..0
      BY <1>5, <2>3, FromLoopIs DEF Proceed, ValidateInputs, ValidateOutputs,
         ValidateNumbers, BuildMessage, SkipDelay, DelayTimer, CancelDelay, loopVars
    <3>2. StepsLeft = 5 + R + M - FromLoop[pc] /\ StepsLeft' = 5 + R + M - (FromLoop[pc] + 1)
      BY <1>3, <1>4, <3>1
    <3>3. R \in Int /\ M \in Int /\ FromLoop[pc] \in Int
      BY <1>1, <3>1
    <3> HIDE DEF R, M
    <3> QED BY <3>2, <3>3
  <2> QED BY <2>2, <2>3
<1>6. CASE \/ LoopEnds \/ LoopCancelled \/ RetryCancelled
           \/ ((StartAttempt \/ Accepted) /\ pc' = "archive")
  <2>1. /\ pc \in Looping /\ pc' = "archive" /\ i <= MaxAttempts
        /\ pc # "loop" => i < MaxAttempts
    <3>1. pc \in {"loop", "wait", "dial"} /\ pc' = "archive"
      BY <1>6 DEF LoopEnds, LoopCancelled, RetryCancelled, StartAttempt, Accepted, Dial,
         LeaveLoop, Proceed
    <3> QED BY <1>1, <3>1 DEF SendInv, LoopInv
  <2>2. StepsLeft' = 4 + R
    BY <1>3, <2>1, LeftAtIs
  <2>3. FromLoop[pc] \in 0..3 /\ (pc = "loop" => FromLoop[pc] = 0)
    BY <2>1, FromLoopIs
  <2>4. StepsLeft = 5 + R + M - FromLoop[pc]
    BY <1>3, <1>4, <2>1
  <2> QED BY <1>1, <2>1, <2>2, <2>3, <2>4
<1>7. CASE \/ StartAttempt /\ pc' # "archive"
           \/ Refused \/ ReplyLost \/ PrepareRetry
  <2>1. /\ pc \in Looping /\ pc' \in Looping /\ i' = i
        /\ FromLoop[pc'] > FromLoop[pc]
        /\ FromLoop[pc] \in 0..3 /\ FromLoop[pc'] \in 0..3
    BY <1>7, FromLoopIs DEF StartAttempt, Refused, ReplyLost, Dial, PrepareRetry, loopVars
  <2>2. StepsLeft = 5 + R + M - FromLoop[pc] /\ StepsLeft' = 5 + R + M - FromLoop[pc']
    BY <1>3, <1>4, <2>1
  <2> QED BY <1>1, <2>1, <2>2
<1>8. CASE LastAttemptFailed \/ RetryTimer
  <2>1. pc \in {"again", "wait"} /\ pc' = "loop" /\ i' = i + 1
    BY <1>8 DEF LastAttemptFailed, RetryTimer, NextIteration
  <2>2. FromLoop[pc] \in 2..3 /\ FromLoop["loop"] = 0
    BY <2>1, FromLoopIs
  <2>3. StepsLeft = 5 + R + M - FromLoop[pc]
    BY <1>3, <1>4, <2>1
  <2>4. StepsLeft' = 5 + R + 4 * (MaxAttempts - (i + 1)) - FromLoop["loop"]
    BY <1>3, <2>1, LeftAtIs
  <2> QED BY <1>1, <2>2, <2>3, <2>4
<1>9. CASE SaveEML \/ SkipRouting \/ Audit
  <2>1. \/ pc = "archive" /\ pc' = "route"
        \/ pc = "route" /\ pc' = "audit"
        \/ pc = "audit" /\ pc' = "returned"
    BY <1>9 DEF SaveEML, SkipRouting, Audit, Proceed
  <2> QED BY <1>1, <1>3, <2>1, LeftAtIs
<1>10. CASE StartRouting
  <2>1. pc = "route" /\ pc' = "routing" /\ RouteCall(RouteJob)
    BY <1>10 DEF StartRouting
  <2>2. RoutingLeft' = 1 + 6 * (Len(RouteJob.files) + 1 - 1)
    <3>1. job' = RouteJob /\ at' = 1 /\ rpc' = "file"
      BY <2>1 DEF RouteCall
    <3>2. RoutingLeft' = 1 + 6 * (Len(RouteJob.files) + 1 - 1) - Behind["file"]
      BY <3>1, BehindIs DEF RoutingLeft, Behind
    <3> QED BY <1>1, <3>2, BehindIs
  <2>3. StepsLeft = 3 + R /\ StepsLeft' = 2 + RoutingLeft'
    BY <1>3, <2>1, LeftAtIs
  <2> QED BY <1>1, <2>2, <2>3
<1>11. CASE Routing
  <2>1. pc = "routing" /\ pc' = "routing" /\ RoutingLeft' \in 0 .. RoutingLeft - 1
    BY <1>11, RouteStepAdvances DEF Routing, SendInv
  <2>2. StepsLeft = 2 + RoutingLeft /\ StepsLeft' = 2 + RoutingLeft'
    BY <1>3, <2>1, LeftAtIs
  <2>3. RoutingLeft \in Nat /\ RoutingLeft' \in Nat /\ RoutingLeft' < RoutingLeft
    BY <1>1, <2>1
  <2>4. \A x, y \in Nat : x < y => 2 + x < 2 + y
    OBVIOUS
  <2>5. 2 + RoutingLeft' < 2 + RoutingLeft
    BY <2>3, <2>4
  <2> QED BY <2>2, <2>5
<1>12. CASE EndRouting
  <2>1. pc = "routing" /\ pc' = "audit"
    BY <1>12 DEF EndRouting, Proceed
  <2>2. StepsLeft = 2 + RoutingLeft /\ StepsLeft' = 1
    BY <1>3, <2>1, LeftAtIs
  <2> QED BY <1>1, <2>2
<1>13. Accepted => pc' = "archive"
  BY DEF Accepted
<1> QED BY <1>5, <1>6, <1>7, <1>8, <1>9, <1>10, <1>11, <1>12, <1>13 DEF Work, Timers

\* The world does not prolong a run.
LEMMA WorldStepKeeps ==
  ASSUME SendInv, AtInv, pc # "crashed", Environment PROVE StepsLeft' \in 0..StepsLeft
<1>1. StepsLeft \in Nat
  BY StepsLeftNat
<1>2. CASE Crash
  <2>1. StepsLeft' = 0
    BY <1>2, FromLoopIs DEF Crash, StepsLeft, FromLoop
  <2> QED BY <1>1, <2>1
<1>3. CASE Cancel \/ \E f \in Files : Vanish(f)
  <2>1. StepsLeft' = StepsLeft
    BY <1>3 DEF Cancel, Vanish, StepsLeft, RoutingSteps, MaxAttempts, RoutingLeft, FromLoop,
       Behind, routeVars, loopVars
  <2> QED BY <1>1, <2>1
<1>4. ~Restart
  BY DEF Restart
<1> QED BY <1>2, <1>3, <1>4 DEF Environment

(* SendEmail cannot run for ever: each of its own steps leaves it fewer,     *)
(* for every budget of attempts, whatever fails, and whatever the world does *)
(* in between.                                                               *)
THEOREM SendAdvances == Spec => Advances
<1>1. Init => AtInv
  BY DEF Init, RouteInit, AtInv
<1> DEFINE Counted == StepsLeft \in Nat
<1>2. SendInv /\ AtInv => Counted
  BY StepsLeftNat
<1>3. SendInv /\ AtInv /\ Counted /\ SendInv' /\ AtInv' /\ Counted' /\ [Next]_vars
        => [pc # "crashed" => /\ StepsLeft' \in 0..StepsLeft
                              /\ Work \/ Timers => StepsLeft' < StepsLeft]_vars
  <2> SUFFICES ASSUME SendInv, AtInv, Counted, SendInv', AtInv', Counted', Next, pc # "crashed"
               PROVE  /\ StepsLeft' \in 0..StepsLeft
                      /\ Work \/ Timers => StepsLeft' < StepsLeft
    OBVIOUS
  <2>1. CASE Work \/ Timers
    BY <2>1, OwnStepAdvances
  <2>2. CASE ~(Work \/ Timers)
    BY <2>2, WorldStepKeeps DEF Next
  <2> QED BY <2>1, <2>2
<1> HIDE DEF Counted
<1> QED BY <1>1, <1>2, <1>3, AtInvHolds, SendInitInv, SendInvStep, PTL DEF Spec, Advances

=============================================================================
