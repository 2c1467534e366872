------------------------- MODULE SingleAttachmentProofs -------------------------
(***************************************************************************)
(* Proofs about SingleAttachment, for lists of any length, any files and    *)
(* directories, and any number of lost replies and kills.  The invariant    *)
(* keeps the count in step with the number of the mail, and says of the     *)
(* call of routeAttachments under way whose files it has been given.        *)
(***************************************************************************)
EXTENDS SingleAttachment, RouteFilesProofs, FiniteSetTheorems

Filing == {"routeOne", "routeAll", "routeBody", "errorBody"}

\* The steps that follow a mail which did not succeed, and the mail itself.
Uncounted == {"mail", "routeAll", "errorBody"}

\* successCount against the number of the mail, at each place of the loop.
Tally ==
  /\ n \in {successCount, successCount + 1}
  /\ pc # "crashed" => (n = successCount + 1 <=> pc \in Uncounted \/ answer = "error")
  /\ pc \in {"start", "body"} => n = 0
  /\ pc = "routeOne" => n > 0
  /\ pc = "routeBody" \/ answer = "ok" => n = Total
  /\ pc # "returned" => answer = "none"
  /\ pc = "crashed" => crashes > 0

\* The mails that were counted are acknowledged.
AckInv ==
  ~cfg.dryRun =>
    /\ outcome # "rehearsed"
    /\ pc = "mail" /\ outcome = "sent" => n \in acked
    /\ 1..successCount \subseteq acked
    /\ crashes = 0 => acked \subseteq 1..n

\* The copy of mail k that needs no excuse.
Credit(k) == IF pc # "crashed" /\ (k < n \/ (k = n /\ phase # "sending")) THEN 1 ELSE 0

TakenInv == \A k \in 1..Total : taken[k] <= lost + crashes + Credit(k)

\* What routeAttachments has been called with.
JobInv ==
  /\ pc \notin Filing \cup {"crashed"} => rpc = "idle"
  /\ pc = "crashed" => rpc \in {"idle", "dead"}
  /\ pc \in Filing => rpc # "dead"
  /\ pc = "routeOne" => job = SuccessJob(<<cfg.attachments[n]>>)
  /\ pc = "routeBody" => job = SuccessJob(<<cfg.bodyFile>>)
  /\ pc \in {"routeAll", "errorBody"} => ~job.deleteAfter /\ DestDir(job) = cfg.errorPath

\* What has been filed, and why.
FiledInv ==
  ~cfg.dryRun /\ OwnSuccessDir =>
    \A f \in Files : Settled(f) =>
      \/ MailsOf(f) \cap acked # {}
      \/ f = cfg.bodyFile /\ acked = 1..Total

AttachInv == TypeOK /\ RouteInv /\ Tally /\ AckInv /\ TakenInv /\ JobInv /\ FiledInv

-----------------------------------------------------------------------------

LEMMA ConfigFacts ==
  ASSUME cfg \in Configs
  PROVE  /\ cfg.attachments \in Seq(Files \cup {NoPath}) /\ Total \in Nat /\ Total > 1
         /\ DOMAIN cfg.attachments = 1..Total
         /\ cfg.bodyFile \in Files \cup {NoPath}
         /\ cfg.successPath \in Dirs \cup {NoPath} /\ cfg.errorPath \in Dirs \cup {NoPath}
         /\ cfg.deleteAfter \in BOOLEAN /\ cfg.dryRun \in BOOLEAN
BY BatchAssumption, ManyAttachments DEF Config, Total

\* Every list that is routed makes a job.
LEMMA Jobs ==
  ASSUME cfg \in Configs, NEW list \in Seq(Files \cup {NoPath})
  PROVE  /\ SuccessJob(list) \in Job /\ ErrorJob(list) \in Job
         /\ ~ErrorJob(list).deleteAfter /\ DestDir(ErrorJob(list)) = cfg.errorPath
         /\ DestDir(SuccessJob(list)) = cfg.successPath
         /\ SuccessJob(list).files = list
BY ConfigFacts DEF SuccessJob, ErrorJob, Job, DestDir

LEMMA OneFile ==
  ASSUME cfg \in Configs
  PROVE  /\ \A k \in 1..Total : cfg.attachments[k] \in Files \cup {NoPath}
         /\ \A k \in 1..Total : <<cfg.attachments[k]>> \in Seq(Files \cup {NoPath})
         /\ <<cfg.bodyFile>> \in Seq(Files \cup {NoPath})
<1>1. \A k \in 1..Total : cfg.attachments[k] \in Files \cup {NoPath}
  BY ConfigFacts
<1> QED BY <1>1, ConfigFacts

\* The arguments never change.
LEMMA SameConfig == [Next]_vars => cfg' = cfg
BY DEF vars, Next, Work, Environment, Validate, ReadBody, NextMail, BeginMail, Mail, LoseReply,
   Acknowledge, Rehearse, GiveUp, Refuse, MailStep, TellMail, MailSent, Count, EndRouteOne,
   MailFailed, EndRouteAll, EndErrorBody, AllSent, EndRouteBody, Routing, RouteThen, Return,
   Proceed, Vanish, Crash, Restart

-----------------------------------------------------------------------------

\* The four kinds of step: of the loop, of the mail, of routing, of the world.
Loop == \/ Validate \/ ReadBody \/ NextMail \/ MailSent \/ EndRouteOne \/ MailFailed
        \/ EndRouteAll \/ EndErrorBody \/ AllSent \/ EndRouteBody

\* A step of the loop leaves the disk alone: it calls routeAttachments or does not.
LEMMA LoopStep ==
  ASSUME AttachInv, Loop
  PROVE  /\ UNCHANGED routeVars \/ \E j \in Job : RouteCall(j)
         /\ UNCHANGED <<out, purged, acked, taken, lost, vanished, crashes>>
<1>1. cfg \in Configs
  BY DEF AttachInv, TypeOK, BatchTypeOK
<1>2. UNCHANGED routeVars \/ \E j \in Job : RouteCall(j)
  <2>1. CASE MailSent
    <3>1. CASE UNCHANGED routeVars
      BY <3>1
    <3>2. CASE RouteCall(SuccessJob(<<cfg.attachments[n]>>)) /\ pc = "mail"
      <4>1. n \in 1..Total
        BY <1>1, <3>2, ConfigFacts DEF AttachInv, Tally, Uncounted, TypeOK, BatchTypeOK
      <4> QED BY <3>2, <4>1, <1>1, OneFile, Jobs
    <3> QED BY <2>1, <3>1, <3>2 DEF MailSent, Done
  <2>2. CASE MailFailed \/ EndRouteAll \/ AllSent
    BY <2>2, <1>1, OneFile, Jobs, ConfigFacts
       DEF MailFailed, EndRouteAll, AllSent, RouteThen, Return
  <2>3. CASE \/ Validate \/ ReadBody \/ NextMail \/ EndRouteOne \/ EndErrorBody \/ EndRouteBody
    BY <2>3 DEF Validate, ReadBody, NextMail, BeginMail, EndRouteOne, EndErrorBody,
       EndRouteBody, Return, Proceed
  <2> QED BY <2>1, <2>2, <2>3 DEF Loop
<1>3. UNCHANGED <<out, purged>>
  BY <1>2 DEF routeVars, RouteCall, DiskUnchanged
<1>4. UNCHANGED <<acked, taken, lost, vanished, crashes>>
  BY DEF Loop, Validate, ReadBody, NextMail, BeginMail, MailSent, Count, EndRouteOne,
     MailFailed, EndRouteAll, EndErrorBody, AllSent, EndRouteBody, RouteThen, Return,
     Proceed, historyVars, faultVars
<1> QED BY <1>2, <1>3, <1>4

\* Of the variables of RouteFiles only the routing steps change what is on the
\* disk, except that another program may take a file away.
LEMMA RoutePart ==
  ASSUME AttachInv, [Next]_vars
  PROVE  /\ \/ [RouteNext]_routeVars
            \/ rpc = "idle" /\ \E f \in Files : Vanish(f)
         /\ UNCHANGED <<out, purged>> \/ Routing(Filing)
<1>1. CASE UNCHANGED vars
  BY <1>1 DEF vars, routeVars
<1>2. CASE Routing(Filing)
  BY <1>2 DEF Routing, RouteNext
<1>3. CASE Mail \/ TellMail
  BY <1>3 DEF Mail, TellMail, LoseReply, Acknowledge, Rehearse, GiveUp, Refuse, MailStep,
     routeVars
<1>4. CASE Loop
  BY <1>4, LoopStep DEF RouteNext
<1>5. CASE Crash \/ Restart
  BY <1>5 DEF Crash, Restart, RouteNext, RouteDies, RouteRevives, DiskUnchanged, routeVars
<1>6. CASE \E f \in Files : Vanish(f)
  BY <1>6 DEF Vanish
<1> QED BY <1>1, <1>2, <1>3, <1>4, <1>5, <1>6 DEF Next, Work, Environment, Loop, Filing

LEMMA RouteInvStep == AttachInv /\ [Next]_vars => RouteInv'
<1> SUFFICES ASSUME AttachInv, [Next]_vars PROVE RouteInv'
  OBVIOUS
<1>1. CASE [RouteNext]_routeVars
  BY <1>1, RouteStepInv DEF AttachInv
<1>2. ASSUME NEW f \in Files, rpc = "idle", Vanish(f) PROVE RouteInv'
  <2>1. RouteTypeOK'
    BY <1>2 DEF AttachInv, RouteInv, RouteTypeOK, Vanish
  <2>2. NamesInv'
    BY <1>2 DEF AttachInv, RouteInv, NamesInv, Vanish
  <2>3. MoveInv' /\ CopyInv'
    BY <1>2 DEF MoveInv, CopyInv, Vanish, Moving
  <2> QED BY <2>1, <2>2, <2>3 DEF RouteInv
<1> QED BY <1>1, <1>2, RoutePart

-----------------------------------------------------------------------------

\* A step of a mail, seen from the loop.
MailWork == Mail \/ TellMail

LEMMA MailFrame ==
  ASSUME MailWork
  PROVE  /\ pc = "mail" /\ UNCHANGED <<routeVars, cfg, pc, loopVars, faultVars>>
         /\ phase # "sending" => phase = "filing" /\ phase' = "told"
         /\ \/ UNCHANGED <<acked, taken, lost>>
            \/ /\ phase = "sending" /\ taken' = [taken EXCEPT ![n] = @ + 1]
               /\ \/ acked' = acked /\ lost' = lost + 1 /\ lost < MaxLost
                  \/ lost' = lost /\ acked' = acked \cup {n} /\ phase' = "filing"
BY DEF MailWork, Mail, TellMail, LoseReply, Acknowledge, Rehearse, GiveUp, Refuse, MailStep,
   D!LoseReply, D!Acknowledge, D!Rehearse, D!GiveUp, D!Refuse, D!Tell, historyVars

LEMMA RoutingFrame ==
  ASSUME Routing(Filing)
  PROVE  /\ pc \in Filing /\ RouteStep /\ job' = job
         /\ UNCHANGED <<cfg, pc, mailVars, loopVars, historyVars, faultVars>>
BY RouteStepJob DEF Routing

\* The mail under way is one of the list.
LEMMA InList ==
  ASSUME AttachInv
  PROVE  /\ n \in Nat /\ successCount \in Nat /\ Total \in Nat /\ n <= Total
         /\ pc \in {"mail", "routeOne"} => n \in 1..Total
         /\ cfg \in Configs
BY ConfigFacts DEF AttachInv, TypeOK, BatchTypeOK, Tally, Uncounted

LEMMA TypeStep == AttachInv /\ [Next]_vars => TypeOK'
<1> SUFFICES ASSUME AttachInv, [Next]_vars PROVE TypeOK'
  OBVIOUS
<1>1. cfg' = cfg /\ Total' = Total /\ RouteTypeOK'
  BY SameConfig, RouteInvStep DEF Total, RouteInv
<1> USE <1>1, InList, BatchAssumption DEF AttachInv, TypeOK, BatchTypeOK
<1>2. CASE UNCHANGED vars
  BY <1>2 DEF vars, mailVars, loopVars, historyVars, faultVars
<1>3. CASE Routing(Filing)
  BY <1>3, RoutingFrame DEF mailVars, loopVars, historyVars, faultVars
<1>4. CASE MailWork
  <2>1. UNCHANGED <<cfg, pc, n, successCount, failed, answer, vanished, crashes>>
    BY <1>4, MailFrame DEF loopVars, faultVars
  <2>2. n \in 1..Total /\ acked' \subseteq 1..Total /\ lost' \in 0..MaxLost
    <3>1. n \in 1..Total
      BY <1>4, MailFrame, InList
    <3>2. acked' = acked \/ acked' = acked \cup {n}
      BY <1>4, MailFrame
    <3>3. lost' = lost \/ (lost' = lost + 1 /\ lost < MaxLost)
      BY <1>4, MailFrame
    <3>4. acked \subseteq 1..Total /\ lost \in 0..MaxLost /\ MaxLost \in Nat
      OBVIOUS
    <3>5. acked' \subseteq 1..Total
      BY <3>1, <3>2, <3>4
    <3>6. lost' \in 0..MaxLost
      BY <3>3, <3>4
    <3> QED BY <3>1, <3>5, <3>6
  <2>4. taken' = taken \/ taken' = [taken EXCEPT ![n] = @ + 1]
    BY <1>4, MailFrame
  <2>5. taken' \in [1..Total -> Nat]
    BY <2>4
  <2>3. /\ phase' \in {"sending", "filing", "told", "dead"} /\ copies' \in Nat
        /\ outcome' \in {"none", "sent", "failed", "rehearsed", "rejected"}
    BY <1>4 DEF MailWork, Mail, TellMail, LoseReply, Acknowledge, Rehearse, GiveUp, Refuse,
       D!LoseReply, D!Acknowledge, D!Rehearse, D!GiveUp, D!Refuse, D!Tell
  <2> QED BY <2>1, <2>2, <2>3, <2>5
<1>5. CASE Loop
  <2>1. UNCHANGED <<acked, taken, lost, vanished, crashes>>
    BY <1>5, LoopStep
  <2>2. CASE NextMail
    BY <2>1, <2>2 DEF NextMail, BeginMail
  <2>3. CASE MailSent
    BY <2>1, <2>3 DEF MailSent, Done, Count, mailVars, Tally, Uncounted
  <2>4. CASE ~NextMail /\ ~MailSent
    BY <1>5, <2>1, <2>4 DEF Loop, Validate, ReadBody, EndRouteOne, MailFailed, EndRouteAll,
       EndErrorBody, AllSent, EndRouteBody, RouteThen, Return, Proceed, mailVars, loopVars
  <2> QED BY <2>2, <2>3, <2>4
<1>6. CASE Crash
  BY <1>6 DEF Crash, mailVars, loopVars, historyVars
<1>7. CASE Restart
  BY <1>7 DEF Restart, historyVars, faultVars
<1>8. CASE \E f \in Files : Vanish(f)
  BY <1>8 DEF Vanish, mailVars, loopVars, historyVars
<1> QED BY <1>2, <1>3, <1>4, <1>5, <1>6, <1>7, <1>8
        DEF Next, Work, Environment, Loop, Filing, MailWork

LEMMA TallyStep == AttachInv /\ [Next]_vars => Tally'
<1> SUFFICES ASSUME AttachInv, [Next]_vars PROVE Tally'
  OBVIOUS
<1>1. cfg' = cfg /\ Total' = Total
  BY SameConfig DEF Total
<1>2. crashes \in Nat
  BY BatchAssumption DEF AttachInv, TypeOK, BatchTypeOK
<1> USE <1>1, <1>2, InList DEF AttachInv, Tally, Uncounted
<1>3. CASE UNCHANGED vars
  BY <1>3 DEF vars, loopVars, faultVars
<1>4. CASE Routing(Filing)
  BY <1>4, RoutingFrame DEF loopVars, faultVars
<1>5. CASE MailWork
  BY <1>5, MailFrame DEF loopVars, faultVars
<1>6. CASE Loop
  <2>1. CASE NextMail
    BY <2>1 DEF NextMail, BeginMail, faultVars
  <2>2. CASE MailSent
    BY <2>2 DEF MailSent, Done, Count, faultVars
  <2>3. CASE ~NextMail /\ ~MailSent
    BY <1>6, <2>3 DEF Loop, Validate, ReadBody, EndRouteOne, MailFailed, EndRouteAll,
       EndErrorBody, AllSent, EndRouteBody, RouteThen, Return, Proceed, Done, Routed,
       loopVars, faultVars
  <2> QED BY <2>1, <2>2, <2>3
<1>7. CASE Crash
  BY <1>7 DEF Crash, Running, loopVars
<1>8. CASE Restart
  BY <1>8 DEF Restart, faultVars
<1>9. CASE \E f \in Files : Vanish(f)
  BY <1>9 DEF Vanish, loopVars
<1> QED BY <1>3, <1>4, <1>5, <1>6, <1>7, <1>8, <1>9
        DEF Next, Work, Environment, Loop, Filing, MailWork

\* A mail is counted only when its outcome says "sent", and that is the server's word.
LEMMA AckStep == AttachInv /\ [Next]_vars => AckInv'
<1> SUFFICES ASSUME AttachInv, [Next]_vars, ~cfg.dryRun PROVE AckInv'
  BY SameConfig DEF AckInv
<1>1. cfg' = cfg /\ crashes \in Nat /\ successCount \in Nat /\ n \in Nat
  BY SameConfig, InList, BatchAssumption DEF AttachInv, TypeOK, BatchTypeOK
<1>2. /\ outcome # "rehearsed" /\ 1..successCount \subseteq acked
      /\ pc = "mail" /\ outcome = "sent" => n \in acked
      /\ crashes = 0 => acked \subseteq 1..n
  BY DEF AttachInv, AckInv
<1>3. n \in {successCount, successCount + 1} /\ (pc = "mail" => n = successCount + 1)
  BY DEF AttachInv, Tally, Uncounted
<1> USE <1>1, <1>2, <1>3 DEF AckInv
<1>4. CASE UNCHANGED vars
  BY <1>4 DEF vars, mailVars, loopVars, historyVars, faultVars
<1>5. CASE Routing(Filing)
  BY <1>5, RoutingFrame DEF Filing, mailVars, loopVars, historyVars, faultVars
<1>6. CASE MailWork
  <2>1. UNCHANGED <<pc, n, successCount, crashes>> /\ pc = "mail"
    BY <1>6, MailFrame DEF loopVars, faultVars
  <2>2. outcome' # "rehearsed" /\ (outcome' = "sent" => n \in acked')
    BY <1>6 DEF MailWork, Mail, TellMail, LoseReply, Acknowledge, Rehearse, GiveUp, Refuse,
       MailStep, D!LoseReply, D!Acknowledge, D!GiveUp, D!Refuse, D!Tell, historyVars
  <2>3. acked' = acked \/ acked' = acked \cup {n}
    BY <1>6, MailFrame
  <2>4. n \in 1..n
    BY <2>1
  <2> QED BY <2>1, <2>2, <2>3, <2>4
<1>7. CASE Loop
  <2>1. acked' = acked /\ crashes' = crashes
    BY <1>7, LoopStep
  <2>2. CASE NextMail
    BY <2>1, <2>2 DEF NextMail, BeginMail
  <2>3. CASE MailSent
    <3>1. n \in acked /\ successCount' = successCount + 1 /\ n = successCount + 1
      BY <2>3 DEF MailSent, Done, Count, MailSucceeded
    <3>2. 1..successCount' \subseteq acked
      BY <3>1
    <3> QED BY <2>1, <2>3, <3>2 DEF MailSent, Count, mailVars
  <2>4. CASE ~NextMail /\ ~MailSent
    BY <1>7, <2>1, <2>4 DEF Loop, Validate, ReadBody, EndRouteOne, MailFailed, EndRouteAll,
       EndErrorBody, AllSent, EndRouteBody, RouteThen, Return, Proceed, mailVars, loopVars
  <2> QED BY <2>2, <2>3, <2>4
<1>8. CASE Crash
  BY <1>8 DEF Crash, mailVars, loopVars, historyVars
<1>9. CASE Restart
  BY <1>9 DEF Restart, historyVars, faultVars, AttachInv, Tally
<1>10. CASE \E f \in Files : Vanish(f)
  BY <1>10 DEF Vanish, mailVars, loopVars, historyVars
<1> QED BY <1>4, <1>5, <1>6, <1>7, <1>8, <1>9, <1>10
        DEF Next, Work, Environment, Loop, Filing, MailWork

\* A copy more is paid for by a lost reply, or by the one credit of its mail; a kill
\* pays for the credit it takes away.
LEMMA TakenStep == AttachInv /\ [Next]_vars => TakenInv'
<1> SUFFICES ASSUME AttachInv, [Next]_vars, NEW k \in 1..Total
             PROVE  taken'[k] <= lost' + crashes' + Credit(k)'
  BY SameConfig DEF TakenInv, Total
<1>1. /\ crashes \in Nat /\ lost \in Nat /\ taken[k] \in Nat /\ taken \in [1..Total -> Nat]
      /\ n \in Nat /\ k \in Nat /\ taken[k] <= lost + crashes + Credit(k)
  BY InList, BatchAssumption DEF AttachInv, TypeOK, BatchTypeOK, TakenInv
<1> USE <1>1 DEF Credit
<1>2. CASE UNCHANGED vars
  BY <1>2 DEF vars, mailVars, loopVars, historyVars, faultVars
<1>3. CASE Routing(Filing)
  BY <1>3, RoutingFrame DEF mailVars, loopVars, historyVars, faultVars
<1>4. CASE MailWork
  <2>1. UNCHANGED <<pc, n, crashes>> /\ pc = "mail"
    BY <1>4, MailFrame DEF loopVars, faultVars
  <2>2. CASE UNCHANGED <<acked, taken, lost>>
    BY <1>4, <2>1, <2>2, MailFrame
  <2>3. CASE taken' = [taken EXCEPT ![n] = @ + 1]
    <3>1. taken'[k] = IF k = n THEN taken[k] + 1 ELSE taken[k]
      BY <2>3
    <3>2. lost' = lost \/ lost' = lost + 1
      BY <1>4, MailFrame
    <3>3. \/ UNCHANGED <<taken, lost>>
          \/ phase = "sending" /\ (lost' = lost + 1 \/ phase' = "filing")
      BY <1>4, MailFrame
    <3>4. CASE UNCHANGED <<taken, lost>>
      BY <1>4, <2>1, <3>4, MailFrame
    <3>5. CASE phase = "sending" /\ lost' = lost + 1
      BY <2>1, <3>1, <3>5
    <3>6. CASE phase = "sending" /\ phase' = "filing"
      BY <2>1, <3>1, <3>2, <3>6
    <3> QED BY <3>3, <3>4, <3>5, <3>6
  <2> QED BY <1>4, <2>2, <2>3, MailFrame
<1>5. CASE Loop
  <2>1. UNCHANGED <<taken, lost, crashes>>
    BY <1>5, LoopStep
  <2>2. CASE NextMail
    BY <2>1, <2>2 DEF NextMail, BeginMail
  <2>3. CASE ~NextMail
    BY <1>5, <2>1, <2>3 DEF Loop, Validate, ReadBody, MailSent, Count, EndRouteOne, MailFailed,
       EndRouteAll, EndErrorBody, AllSent, EndRouteBody, RouteThen, Return, Proceed, Done,
       Routed, mailVars, loopVars
  <2> QED BY <2>2, <2>3
<1>6. CASE Crash
  BY <1>6 DEF Crash, mailVars, loopVars, historyVars
<1>7. CASE Restart
  BY <1>7 DEF Restart, historyVars, faultVars
<1>8. CASE \E f \in Files : Vanish(f)
  BY <1>8 DEF Vanish, mailVars, loopVars, historyVars
<1> QED BY <1>2, <1>3, <1>4, <1>5, <1>6, <1>7, <1>8
        DEF Next, Work, Environment, Loop, Filing, MailWork

\* A routing label is reached with its own call, and left when the call has returned.
LEMMA JobStep == AttachInv /\ [Next]_vars => JobInv'
<1> SUFFICES ASSUME AttachInv, [Next]_vars PROVE JobInv'
  OBVIOUS
<1>1. cfg' = cfg /\ cfg \in Configs
  BY SameConfig, InList
<1>2. \A list : SuccessJob(list)' = SuccessJob(list)
  BY <1>1 DEF SuccessJob
<1>3. JobInv
  BY DEF AttachInv
<1> USE <1>1, <1>2, <1>3 DEF JobInv, Filing
<1>4. CASE UNCHANGED vars
  BY <1>4 DEF vars, routeVars, loopVars, DestDir
<1>5. CASE Routing(Filing)
  <2>1. rpc' # "dead"
    BY <1>5 DEF Routing, RouteStep, RouteReturn, SkipFile, DeleteFile, MakeDestDir, RenameFile,
       OpenSource, CreateDest, WriteDest, UnlinkSource, NextFile, StepTo, RouteFails
  <2> QED BY <1>5, <2>1, RoutingFrame DEF loopVars, DestDir
<1>6. CASE MailWork
  BY <1>6, MailFrame DEF loopVars, routeVars, DestDir
<1>7. CASE Loop
  <2>1. CASE NextMail
    BY <2>1 DEF NextMail, BeginMail, routeVars
  <2>2. CASE MailSent
    BY <2>2 DEF MailSent, Done, Count, RouteCall, routeVars
  <2>3. CASE MailFailed \/ EndRouteAll \/ AllSent
    <3>1. \A j : RouteCall(j) => job' = j /\ rpc' = "file" /\ DestDir(job)' = DestDir(j)
      BY DEF RouteCall, DestDir
    <3> QED BY <2>3, <3>1, OneFile, Jobs, ConfigFacts
            DEF MailFailed, EndRouteAll, AllSent, RouteThen, Return, Done, Routed, loopVars,
                routeVars
  <2>4. CASE Validate \/ ReadBody \/ EndRouteOne \/ EndErrorBody \/ EndRouteBody
    BY <2>4 DEF Validate, ReadBody, EndRouteOne, EndErrorBody, EndRouteBody, Return, Proceed,
       Routed, loopVars, routeVars
  <2> QED BY <1>7, <2>1, <2>2, <2>3, <2>4 DEF Loop
<1>8. CASE Crash
  BY <1>8 DEF Crash, Running, RouteDies, routeVars
<1>9. CASE Restart
  BY <1>9 DEF Restart, RouteRevives, routeVars
<1>10. CASE \E f \in Files : Vanish(f)
  BY <1>10 DEF Vanish, loopVars, DestDir
<1> QED BY <1>4, <1>5, <1>6, <1>7, <1>8, <1>9, <1>10
        DEF Next, Work, Environment, Loop, MailWork

-----------------------------------------------------------------------------

\* A file that becomes settled is the one under way, in a call that deletes or that
\* moves to the success directory.
LEMMA BecomesSettled ==
  ASSUME AttachInv, RouteStep, cfg' = cfg, NEW f \in Files, Settled(f)', ~Settled(f)
  PROVE  /\ f = File /\ at \in 1..Len(job.files)
         /\ \/ job.deleteAfter
            \/ DestDir(job) = cfg.successPath /\ cfg.successPath \in Dirs
<1>1. at \in Nat \ {0} /\ job \in Job /\ RouteInv /\ Base[f] \in Names
  BY PathAssumption DEF AttachInv, RouteInv, RouteTypeOK
<1>2. Len(job.files) \in Nat
  BY <1>1, JobFacts
<1>3. CASE f \in purged'
  <2>1. f = File /\ AtFile /\ job.deleteAfter
    BY <1>3, RouteStepPurges DEF Settled
  <2> QED BY <2>1, <1>1, <1>2 DEF AtFile
<1>4. CASE f \notin purged'
  <2>1. PICK d \in {cfg.successPath} \cap Dirs : out'[<<d, Base[f]>>] \in {Whole(f), Part(f)}
    BY <1>4 DEF Settled
  <2>2. out'[<<d, Base[f]>>] # out[<<d, Base[f]>>]
    BY <2>1 DEF Settled
  <2>3. /\ d = DestDir(job) /\ rpc \in Moving
        /\ out'[<<d, Base[f]>>] \in Copy /\ out'[<<d, Base[f]>>].of = File
    BY <1>1, <2>1, <2>2, RouteStepWrites
  <2>4. f = File
    BY <2>1, <2>3, CopyFacts
  <2> QED BY <1>1, <1>2, <2>1, <2>3, <2>4 DEF RouteInv, MoveInv
<1> QED BY <1>3, <1>4

LEMMA AckedGrows == AttachInv /\ [Next]_vars => acked \subseteq acked'
<1> SUFFICES ASSUME AttachInv, [Next]_vars PROVE acked \subseteq acked'
  OBVIOUS
<1>1. CASE Loop
  BY <1>1, LoopStep
<1>2. CASE MailWork
  BY <1>2, MailFrame
<1>3. CASE UNCHANGED vars \/ Routing(Filing) \/ Environment
  BY <1>3 DEF vars, historyVars, Routing, Environment, Vanish, Crash, Restart
<1> QED BY <1>1, <1>2, <1>3 DEF Next, Work, Loop, Filing, MailWork

LEMMA FiledStep == AttachInv /\ [Next]_vars => FiledInv'
<1> SUFFICES ASSUME AttachInv, [Next]_vars, ~cfg.dryRun, OwnSuccessDir,
                    NEW f \in Files, Settled(f)'
             PROVE  \/ MailsOf(f) \cap acked' # {}
                    \/ f = cfg.bodyFile /\ acked' = 1..Total
  BY SameConfig DEF FiledInv, OwnSuccessDir, MailsOf, Total
<1>1. cfg' = cfg /\ acked \subseteq acked' /\ acked' \subseteq 1..Total /\ acked \subseteq 1..Total
  BY SameConfig, AckedGrows, TypeStep DEF TypeOK, BatchTypeOK, Total, AttachInv
<1>2. CASE Settled(f)
  BY <1>1, <1>2 DEF AttachInv, FiledInv
<1>3. CASE ~Settled(f)
  <2>1. Routing(Filing)
    BY <1>1, <1>3, RoutePart DEF Settled
  <2>2. /\ f = File /\ at \in 1..Len(job.files) /\ pc \in Filing
        /\ \/ job.deleteAfter
           \/ DestDir(job) = cfg.successPath /\ cfg.successPath \in Dirs
    BY <1>1, <1>3, <2>1, BecomesSettled DEF Routing
  <2>3. 1..successCount \subseteq acked /\ n \in {successCount, successCount + 1}
        /\ (n = successCount + 1 <=> pc \in Uncounted \/ answer = "error")
        /\ pc # "returned" /\ answer = "none"
    BY <2>2 DEF AttachInv, AckInv, Tally, Filing
  <2>4. \A x : Len(<<x>>) = 1 /\ <<x>>[1] = x
    OBVIOUS
  <2>5. CASE pc = "routeOne"
    <3>1. n \in 1..Total /\ n = successCount
      BY <2>3, <2>5, InList DEF Uncounted
    <3>2. job.files = <<cfg.attachments[n]>>
      BY <2>5, <3>1, InList, OneFile, Jobs DEF AttachInv, JobInv
    <3>3. f = cfg.attachments[n]
      BY <2>2, <2>4, <3>2 DEF File
    <3> QED BY <1>1, <2>3, <3>1, <3>3 DEF MailsOf
  <2>6. CASE pc = "routeBody"
    <3>1. n = Total /\ n = successCount
      BY <2>3, <2>6, InList DEF Uncounted, AttachInv, Tally
    <3>2. job.files = <<cfg.bodyFile>>
      BY <2>6, InList, OneFile, Jobs DEF AttachInv, JobInv
    <3>3. f = cfg.bodyFile
      BY <2>2, <2>4, <3>2 DEF File
    <3> QED BY <1>1, <2>3, <3>1, <3>3
  <2>7. pc \notin {"routeAll", "errorBody"}
    BY <2>2 DEF AttachInv, JobInv, OwnSuccessDir
  <2> QED BY <2>2, <2>5, <2>6, <2>7 DEF Filing
<1> QED BY <1>2, <1>3

LEMMA AttachInitInv == Init => AttachInv
<1> SUFFICES ASSUME Init PROVE AttachInv
  OBVIOUS
<1>1. cfg \in Configs /\ RouteInit /\ RouteInv /\ RouteTypeOK
  BY InitInv DEF Init, BatchInit, RouteInv
<1>2. Total \in Nat /\ 0 \in 0..Total /\ Total > 1
  BY <1>1, ConfigFacts
<1>3. TypeOK
  BY <1>1, <1>2, BatchAssumption DEF Init, BatchInit, TypeOK, BatchTypeOK
<1>4. Tally /\ AckInv /\ TakenInv
  BY <1>2 DEF Init, BatchInit, Tally, Uncounted, AckInv, TakenInv, Credit
<1>5. JobInv
  BY DEF Init, BatchInit, RouteInit, JobInv, Filing
<1>6. \A f \in Files : ~Settled(f)
  <2> SUFFICES ASSUME NEW f \in Files, Settled(f) PROVE FALSE
    OBVIOUS
  <2>1. Base[f] \in Names
    BY PathAssumption
  <2>2. PICK d \in Dirs : out[<<d, Base[f]>>] \in {Whole(f), Part(f)}
    BY <1>1 DEF Settled, RouteInit
  <2>3. out[<<d, Base[f]>>] = NoCopy
    BY <1>1, <2>1, <2>2 DEF RouteInit
  <2> QED BY <2>2, <2>3, CopyFacts
<1> QED BY <1>1, <1>3, <1>4, <1>5, <1>6 DEF AttachInv, FiledInv

(* Every reachable state of the mode is well typed and satisfies the         *)
(* inductive invariant of this module.                                       *)
THEOREM AttachmentTypeCorrect == Spec => [](TypeOK /\ AttachInv)
<1>1. AttachInv /\ [Next]_vars => AttachInv'
  BY TypeStep, RouteInvStep, TallyStep, AckStep, TakenStep, JobStep, FiledStep DEF AttachInv
<1>2. AttachInv => TypeOK
  BY DEF AttachInv
<1> QED BY AttachInitInv, <1>1, <1>2, PTL DEF Spec

(* sendSingleAttachmentMode puts an attachment into the success directory or *)
(* deletes it only when the server has acknowledged a mail made for it, for  *)
(* lists of any length, over any number of kills and reruns.                 *)
THEOREM AttachmentFiledWhenAcknowledged == Spec => []FiledWhenAcknowledged
<1>1. AttachInv => FiledWhenAcknowledged
  <2> SUFFICES ASSUME AttachInv, ~cfg.dryRun, OwnSuccessDir,
                      NEW f \in Listed(cfg.attachments), Settled(f)
               PROVE  MailsOf(f) \cap acked # {}
    BY DEF FiledWhenAcknowledged
  <2>1. cfg.attachments \in Seq(Files \cup {NoPath}) /\ DOMAIN cfg.attachments = 1..Total
    BY InList, ConfigFacts
  <2>2. PICK k \in 1..Total : cfg.attachments[k] = f /\ f # NoPath
    BY <2>1 DEF Listed
  <2>3. cfg.attachments[k] \in Files \cup {NoPath}
    BY InList, OneFile
  <2>4. f \in Files /\ k \in MailsOf(f)
    BY <2>2, <2>3 DEF MailsOf
  <2> QED BY <2>2, <2>4 DEF AttachInv, FiledInv
<1> QED BY AttachmentTypeCorrect, <1>1, PTL

(* "Body file is NOT routed/deleted until all emails complete successfully"  *)
(* (the comment in sendSingleAttachmentMode), for every list.                *)
THEOREM AttachmentBodyFiledLast == Spec => []BodyFiledLast
<1>1. AttachInv => BodyFiledLast
  <2> SUFFICES ASSUME AttachInv, ~cfg.dryRun, OwnSuccessDir,
                      cfg.bodyFile # NoPath, cfg.bodyFile \notin Listed(cfg.attachments),
                      Settled(cfg.bodyFile)
               PROVE  acked = 1..Total
    BY DEF BodyFiledLast
  <2>1. cfg.bodyFile \in Files /\ DOMAIN cfg.attachments = 1..Total
    BY InList, ConfigFacts
  <2>2. MailsOf(cfg.bodyFile) = {}
    BY <2>1 DEF Listed, MailsOf
  <2> QED BY <2>1, <2>2 DEF AttachInv, FiledInv
<1> QED BY AttachmentTypeCorrect, <1>1, PTL

(* What the mode returns is what has happened: on "ok" every mail was        *)
(* acknowledged; on an error after successCount mails those were, and of     *)
(* this run at most the one after them.                                      *)
THEOREM AttachmentAnswerCounts == Spec => []AnswerCounts
<1>1. AttachInv => AnswerCounts
  <2> SUFFICES ASSUME AttachInv PROVE AnswerCounts
    OBVIOUS
  <2>1. /\ n \in Nat /\ successCount \in Nat /\ n <= successCount + 1 /\ acked \subseteq 1..Total
        /\ pc # "crashed" => (n = successCount + 1 <=> pc \in Uncounted \/ answer = "error")
        /\ pc # "returned" => answer = "none"
        /\ n \in {successCount, successCount + 1}
    BY InList DEF AttachInv, TypeOK, BatchTypeOK, Tally
  <2>2. answer = "ok" => successCount = Total
    BY <2>1 DEF AttachInv, Tally, Uncounted
  <2>3. ~cfg.dryRun => 1..successCount \subseteq acked
    BY DEF AttachInv, AckInv
  <2>4. answer = "error" => n = successCount + 1
    BY <2>1
  <2>5. ASSUME crashes = 0, ~cfg.dryRun PROVE Cardinality(acked) <= successCount + 1
    <3>1. acked \subseteq 1..(successCount + 1)
      BY <2>1, <2>5 DEF AttachInv, AckInv
    <3>2. IsFiniteSet(1..(successCount + 1)) /\ Cardinality(1..(successCount + 1)) = successCount + 1
      BY <2>1, FS_Interval
    <3> QED BY <3>1, <3>2, FS_Subset
  <2> QED BY <2>1, <2>2, <2>3, <2>4, <2>5 DEF AnswerCounts
<1> QED BY AttachmentTypeCorrect, <1>1, PTL

(* No attachment goes out more often than once and once more for each lost   *)
(* reply and each kill: neither the loop of sendSingleAttachmentMode nor a   *)
(* failure of its routing repeats a mail.                                    *)
THEOREM AttachmentOneCopyEach == Spec => []OneCopyEach
<1>1. AttachInv => OneCopyEach
  <2> SUFFICES ASSUME AttachInv, NEW k \in 1..Total PROVE taken[k] <= 1 + lost + crashes
    BY DEF OneCopyEach
  <2>1. taken[k] \in Nat /\ lost \in Nat /\ crashes \in Nat
    BY BatchAssumption DEF AttachInv, TypeOK, BatchTypeOK
  <2>2. taken[k] <= lost + crashes + Credit(k)
    BY DEF AttachInv, TakenInv
  <2> QED BY <2>1, <2>2 DEF Credit
<1> QED BY AttachmentTypeCorrect, <1>1, PTL

LEMMA VanishedStep ==
  ASSUME AttachInv, [Next]_vars PROVE vanished' = vanished \/ \E f \in Files : Vanish(f)
<1>1. CASE Loop
  BY <1>1, LoopStep
<1>2. CASE MailWork
  BY <1>2, MailFrame DEF faultVars
<1>3. CASE UNCHANGED vars \/ Routing(Filing) \/ Environment
  BY <1>3 DEF vars, faultVars, Routing, Environment, Crash, Restart
<1> QED BY <1>1, <1>2, <1>3 DEF Next, Work, Loop, Filing, MailWork

(* The mode routes an attachment after its mail and, when a later mail       *)
(* fails, once more with the whole list; whatever fails on the way, over     *)
(* kills and reruns, no file is lost if no two have the same base name.      *)
THEOREM AttachmentInputsSurvive == ASSUME DistinctNames PROVE Spec => []InputsSurvive
<1>1. Init => InputsSurvive
  BY DEF Init, BatchInit, RouteInit, InputsSurvive, Kept
<1>2. AttachInv /\ InputsSurvive /\ [Next]_vars => InputsSurvive'
  <2> SUFFICES ASSUME AttachInv, InputsSurvive, [Next]_vars PROVE InputsSurvive'
    OBVIOUS
  <2>1. ASSUME NEW f \in Files, Vanish(f) PROVE InputsSurvive'
    BY <2>1 DEF Vanish, InputsSurvive, Kept
  <2>2. CASE [RouteNext]_routeVars /\ vanished' = vanished
    BY <2>2, KeptStep, PurgedGrows, DistinctNames DEF AttachInv, InputsSurvive
  <2> QED BY <2>1, <2>2, RoutePart, VanishedStep
<1> QED BY AttachmentTypeCorrect, <1>1, <1>2, PTL DEF Spec

-----------------------------------------------------------------------------

\* The variant, as a function of the place, the mail, its phase, and the routing.
Rest(k, l) == MaxLost - l + EndSteps + 12 * (Total - k)

MailSteps(ph) == IF ph = "sending" THEN 11 ELSE IF ph = "filing" THEN 10 ELSE 9

LeftAt(p, k, l, ph, r) ==
  CASE p = "start"    -> Rest(k, l) + 2
    [] p = "body"     -> Rest(k, l) + 1
    [] p = "next"     -> Rest(k, l)
    [] p = "mail"     -> Rest(k, l) + MailSteps(ph)
    [] p = "routeOne" -> Rest(k, l) + 1 + r
    [] p = "routeAll" -> 9 + r
    [] p \in {"routeBody", "errorBody"} -> 1 + r
    [] OTHER          -> 0

LEMMA LeftAtIs ==
  ASSUME NEW k, NEW l, NEW ph, NEW r
  PROVE  /\ LeftAt("start", k, l, ph, r) = Rest(k, l) + 2
         /\ LeftAt("body", k, l, ph, r) = Rest(k, l) + 1
         /\ LeftAt("next", k, l, ph, r) = Rest(k, l)
         /\ LeftAt("mail", k, l, ph, r) = Rest(k, l) + MailSteps(ph)
         /\ LeftAt("routeOne", k, l, ph, r) = Rest(k, l) + 1 + r
         /\ LeftAt("routeAll", k, l, ph, r) = 9 + r
         /\ LeftAt("routeBody", k, l, ph, r) = 1 + r
         /\ LeftAt("errorBody", k, l, ph, r) = 1 + r
         /\ LeftAt("returned", k, l, ph, r) = 0
         /\ LeftAt("crashed", k, l, ph, r) = 0
BY DEF LeftAt

LEMMA RestFacts ==
  ASSUME NEW k \in Nat, NEW l \in 0..MaxLost, cfg \in Configs, k <= Total
  PROVE  /\ Rest(k, l) \in Nat /\ Rest(k, l) >= 11 + 6 * Total
         /\ k < Total => Rest(k + 1, l) + 12 = Rest(k, l)
         /\ l < MaxLost => Rest(k, l + 1) + 1 = Rest(k, l)
<1>1. Total \in Nat /\ MaxLost \in Nat
  BY ConfigFacts, BatchAssumption
<1> QED BY <1>1 DEF Rest, EndSteps

LEMMA MailStepsFacts ==
  /\ MailSteps("sending") = 11 /\ MailSteps("filing") = 10 /\ MailSteps("told") = 9
  /\ \A ph : MailSteps(ph) \in 9..11
BY DEF MailSteps

\* A call of routeAttachments, seen from the variant.
LEMMA CallLeft ==
  ASSUME NEW j, RouteCall(j), Len(j.files) \in Nat PROVE RoutingLeft' = 1 + 6 * Len(j.files)
<1>1. job' = j /\ at' = 1 /\ rpc' = "file"
  BY DEF RouteCall
<1>2. RoutingLeft' = 1 + 6 * (Len(j.files) + 1 - 1) - Behind["file"]
  BY <1>1, BehindIs DEF RoutingLeft, Behind
<1> QED BY <1>2, BehindIs

LEMMA OneFileLeft ==
  ASSUME NEW x, RouteCall(SuccessJob(<<x>>)) \/ RouteCall(ErrorJob(<<x>>))
  PROVE  RoutingLeft' = 7
<1>1. Len(<<x>>) = 1
  OBVIOUS
<1>2. SuccessJob(<<x>>).files = <<x>> /\ ErrorJob(<<x>>).files = <<x>>
  BY DEF SuccessJob, ErrorJob
<1>3. ASSUME NEW j, RouteCall(j), Len(j.files) = 1 PROVE RoutingLeft' = 7
  <2>1. Len(j.files) \in Nat
    BY <1>3
  <2>2. RoutingLeft' = 1 + 6 * Len(j.files)
    BY <1>3, <2>1, CallLeft
  <2> QED BY <1>3, <2>2
<1> QED BY <1>1, <1>2, <1>3

LEMMA AtInvHolds == AttachInv /\ AtInv /\ [Next]_vars => AtInv'
<1> SUFFICES ASSUME AttachInv, AtInv, [Next]_vars PROVE AtInv'
  OBVIOUS
<1>1. CASE [RouteNext]_routeVars
  BY <1>1, AtInvStep DEF AttachInv
<1>2. CASE \E f \in Files : Vanish(f)
  BY <1>2 DEF Vanish, AtInv
<1> QED BY <1>1, <1>2, RoutePart

LEMMA StateFacts ==
  ASSUME AttachInv, AtInv
  PROVE  /\ n \in Nat /\ Total \in Nat /\ n <= Total /\ lost \in 0..MaxLost
         /\ RoutingLeft \in Nat /\ cfg \in Configs
         /\ Rest(n, lost) \in Nat /\ Rest(n, lost) >= 11 + 6 * Total
         /\ n < Total => Rest(n + 1, lost) + 12 = Rest(n, lost)
         /\ lost < MaxLost => Rest(n, lost + 1) + 1 = Rest(n, lost)
         /\ StepsLeft = LeftAt(pc, n, lost, phase, RoutingLeft)
<1>1. /\ n \in Nat /\ Total \in Nat /\ n <= Total /\ lost \in 0..MaxLost
      /\ RoutingLeft \in Nat /\ cfg \in Configs
  BY InList, RoutingLeftNat DEF AttachInv, TypeOK, BatchTypeOK
<1>2. StepsLeft = LeftAt(pc, n, lost, phase, RoutingLeft)
  BY DEF StepsLeft, LeftAt, Rest, MailSteps
<1> QED BY <1>1, <1>2, RestFacts

LEMMA StepsLeftNat == AttachInv /\ AtInv => StepsLeft \in Nat
<1> SUFFICES ASSUME AttachInv, AtInv PROVE StepsLeft \in Nat
  OBVIOUS
<1>1. pc \in {"start", "body", "next", "mail", "routeOne", "routeAll", "routeBody",
              "errorBody", "returned", "crashed"}
  BY DEF AttachInv, TypeOK
<1>2. MailSteps(phase) \in Nat
  BY MailStepsFacts
<1> QED BY <1>1, <1>2, StateFacts, LeftAtIs

\* What a step of its own does to the variant.
LEMMA OwnStepAdvances ==
  ASSUME AttachInv, AtInv, [Next]_vars, Work PROVE StepsLeft' < StepsLeft
<1>1. cfg' = cfg /\ Total' = Total
  BY SameConfig DEF Total
<1>2. StepsLeft' = LeftAt(pc', n', lost', phase', RoutingLeft')
  BY <1>1 DEF StepsLeft, LeftAt, Rest, MailSteps, EndSteps
<1> USE StateFacts
<1>3. CASE Routing(Filing)
  <2>1. /\ pc \in Filing /\ pc' = pc /\ n' = n /\ lost' = lost /\ phase' = phase
        /\ RoutingLeft' \in 0 .. RoutingLeft - 1
    BY <1>3, RouteStepAdvances DEF Routing, AttachInv, mailVars, loopVars, historyVars
  <2>2. RoutingLeft' \in Nat /\ RoutingLeft' < RoutingLeft
    BY <2>1
  <2>3. \A x, y, z \in Nat : x < y => z + 1 + x < z + 1 + y /\ 9 + x < 9 + y /\ 1 + x < 1 + y
    OBVIOUS
  <2>4. /\ Rest(n, lost) + 1 + RoutingLeft' < Rest(n, lost) + 1 + RoutingLeft
        /\ 9 + RoutingLeft' < 9 + RoutingLeft /\ 1 + RoutingLeft' < 1 + RoutingLeft
    BY <2>2, <2>3
  <2> QED BY <1>2, <2>1, <2>4, LeftAtIs DEF Filing
<1>4. CASE MailWork
  <2>1. pc = "mail" /\ pc' = "mail" /\ n' = n
    BY <1>4, MailFrame DEF loopVars
  <2>2. \/ phase' = phase /\ lost' = lost + 1 /\ lost < MaxLost
        \/ phase = "sending" /\ phase' \in {"filing", "told"} /\ lost' = lost
        \/ phase = "filing" /\ phase' = "told" /\ lost' = lost
    BY <1>4 DEF MailWork, Mail, TellMail, LoseReply, Acknowledge, Rehearse, GiveUp, Refuse,
       D!LoseReply, D!Acknowledge, D!Rehearse, D!GiveUp, D!Refuse, D!Tell, historyVars
  <2>3. /\ StepsLeft = Rest(n, lost) + MailSteps(phase)
        /\ StepsLeft' = Rest(n, lost') + MailSteps(phase')
    BY <1>2, <2>1, LeftAtIs
  <2>4. CASE phase' = phase /\ lost' = lost + 1 /\ lost < MaxLost
    <3>1. MailSteps(phase) \in Nat
      BY MailStepsFacts
    <3>2. lost + 1 \in 0..MaxLost
      BY <2>4, BatchAssumption
    <3>3. Rest(n, lost + 1) \in Nat /\ Rest(n, lost + 1) + 1 = Rest(n, lost)
      BY <2>4, <3>2, RestFacts
    <3>4. \A x, y \in Nat : x + y < (x + 1) + y
      OBVIOUS
    <3>5. StepsLeft' = Rest(n, lost + 1) + MailSteps(phase)
      BY <2>3, <2>4
    <3>6. StepsLeft = (Rest(n, lost + 1) + 1) + MailSteps(phase)
      BY <2>3, <3>3
    <3> QED BY <3>1, <3>3, <3>4, <3>5, <3>6
  <2>5. CASE lost' = lost /\ phase # phase'
    BY <2>2, <2>3, <2>5, MailStepsFacts
  <2> QED BY <2>2, <2>4, <2>5
<1>5. CASE Loop
  <2>1. lost' = lost
    BY <1>5, LoopStep
  <2>2. Len(<<cfg.bodyFile>>) = 1
    OBVIOUS
  <2>3. CASE NextMail
    <3>1. n < Total /\ n' = n + 1 /\ pc = "next" /\ pc' = "mail"
      BY <2>3 DEF NextMail, BeginMail
    <3>2. StepsLeft = Rest(n, lost) /\ StepsLeft' = Rest(n + 1, lost) + MailSteps(phase')
      BY <1>2, <2>1, <3>1, LeftAtIs
    <3>3. Rest(n + 1, lost) \in Nat /\ MailSteps(phase') \in 9..11
      BY <3>1, RestFacts, MailStepsFacts
    <3> QED BY <3>1, <3>2, <3>3
  <2>4. CASE MailSent
    <3>1. pc = "mail" /\ n' = n /\ phase = "told"
      BY <2>4 DEF MailSent, Done, Count
    <3>2. StepsLeft = Rest(n, lost) + 9
      BY <3>1, LeftAtIs, MailStepsFacts
    <3>3. CASE pc' = "next"
      <4>1. StepsLeft' = Rest(n, lost)
        BY <1>2, <2>1, <3>1, <3>3, LeftAtIs
      <4> QED BY <3>2, <4>1
    <3>4. CASE pc' = "routeOne" /\ RouteCall(SuccessJob(<<cfg.attachments[n]>>))
      <4>1. RoutingLeft' = 7
        BY <3>4, OneFileLeft
      <4>2. StepsLeft' = Rest(n, lost) + 1 + 7
        BY <1>2, <2>1, <3>1, <3>4, <4>1, LeftAtIs
      <4> QED BY <3>2, <4>2
    <3> QED BY <2>4, <3>3, <3>4 DEF MailSent
  <2>5. CASE MailFailed
    <3>1. pc = "mail" /\ phase = "told" /\ StepsLeft = Rest(n, lost) + 9
      BY <2>5, LeftAtIs, MailStepsFacts DEF MailFailed, Done
    <3>2. CASE pc' = "returned"
      BY <1>2, <3>1, <3>2, LeftAtIs
    <3>3. CASE pc' = "routeAll" /\ RouteCall(ErrorJob(cfg.attachments))
      <4>1. ErrorJob(cfg.attachments).files = cfg.attachments
        BY DEF ErrorJob
      <4>2. RoutingLeft' = 1 + 6 * Total
        BY <3>3, <4>1, CallLeft DEF Total
      <4>3. StepsLeft' = 9 + (1 + 6 * Total)
        BY <1>2, <3>3, <4>2, LeftAtIs
      <4> QED BY <3>1, <4>3
    <3> QED BY <2>5, <3>2, <3>3 DEF MailFailed, RouteThen, Return
  <2>6. CASE EndRouteAll
    <3>1. pc = "routeAll" /\ StepsLeft = 9 + RoutingLeft
      BY <2>6, LeftAtIs DEF EndRouteAll, Routed
    <3>2. CASE pc' = "returned"
      BY <1>2, <3>1, <3>2, LeftAtIs
    <3>3. CASE pc' = "errorBody" /\ RouteCall(ErrorJob(<<cfg.bodyFile>>))
      <4>1. StepsLeft' = 1 + 7
        BY <1>2, <3>3, OneFileLeft, LeftAtIs
      <4> QED BY <3>1, <4>1
    <3> QED BY <2>6, <3>2, <3>3 DEF EndRouteAll, RouteThen, Return
  <2>7. CASE AllSent
    <3>1. pc = "next" /\ StepsLeft = Rest(n, lost)
      BY <2>7, LeftAtIs DEF AllSent
    <3>2. CASE pc' = "returned"
      BY <1>2, <3>1, <3>2, LeftAtIs
    <3>3. CASE pc' = "routeBody" /\ RouteCall(SuccessJob(<<cfg.bodyFile>>))
      <4>1. StepsLeft' = 1 + 7
        BY <1>2, <3>3, OneFileLeft, LeftAtIs
      <4> QED BY <3>1, <4>1
    <3> QED BY <2>7, <3>2, <3>3 DEF AllSent, RouteThen, Return
  <2>8. CASE Validate \/ ReadBody
    <3>1. /\ n' = n
          /\ \/ pc = "start" /\ pc' \in {"body", "returned"}
             \/ pc = "body" /\ pc' \in {"next", "returned"}
      BY <2>8 DEF Validate, ReadBody, Proceed, Return, loopVars
    <3> QED BY <1>2, <2>1, <3>1, LeftAtIs
  <2>9. CASE EndRouteOne
    <3>1. n' = n /\ pc = "routeOne" /\ pc' = "next"
      BY <2>9 DEF EndRouteOne, Routed, Proceed, loopVars
    <3> QED BY <1>2, <2>1, <3>1, LeftAtIs
  <2>10. CASE EndErrorBody \/ EndRouteBody
    <3>1. pc \in {"routeBody", "errorBody"} /\ pc' = "returned"
      BY <2>10 DEF EndErrorBody, EndRouteBody, Routed, Return
    <3> QED BY <1>2, <3>1, LeftAtIs
  <2> QED BY <1>5, <2>3, <2>4, <2>5, <2>6, <2>7, <2>8, <2>9, <2>10 DEF Loop
<1> QED BY <1>3, <1>4, <1>5 DEF Work, Loop, Filing, MailWork

\* The world does not prolong a batch.
LEMMA WorldStepKeeps ==
  ASSUME AttachInv, AtInv, pc # "crashed", Environment PROVE StepsLeft' \in 0..StepsLeft
<1>1. StepsLeft \in Nat
  BY StepsLeftNat
<1>2. CASE Crash
  <2>1. pc' = "crashed"
    BY <1>2 DEF Crash
  <2>2. StepsLeft' = 0
    BY <2>1 DEF StepsLeft
  <2> QED BY <1>1, <2>2
<1>3. CASE \E f \in Files : Vanish(f)
  <2>1. StepsLeft' = StepsLeft
    BY <1>3 DEF Vanish, StepsLeft, EndSteps, Total, RoutingLeft, Behind, mailVars, loopVars,
       historyVars
  <2> QED BY <1>1, <2>1
<1>4. ~Restart
  BY DEF Restart
<1> QED BY <1>2, <1>3, <1>4 DEF Environment

(* sendSingleAttachmentMode cannot run for ever: each step of its own leaves *)
(* it fewer, for lists of any length and whatever fails, in routing too.     *)
THEOREM AttachmentAdvances == Spec => Advances
<1>1. Init => AtInv
  BY DEF Init, BatchInit, RouteInit, AtInv
<1> DEFINE Counted == StepsLeft \in Nat
<1>2. AttachInv /\ AtInv => Counted
  BY StepsLeftNat
<1>3. AttachInv /\ AtInv /\ Counted /\ Counted' /\ [Next]_vars
        => [pc # "crashed" => /\ StepsLeft' \in 0..StepsLeft
                              /\ Work => StepsLeft' < StepsLeft]_vars
  <2> SUFFICES ASSUME AttachInv, AtInv, Counted, Counted', Next, pc # "crashed"
               PROVE  /\ StepsLeft' \in 0..StepsLeft
                      /\ Work => StepsLeft' < StepsLeft
    OBVIOUS
  <2>1. CASE Work
    BY <2>1, OwnStepAdvances
  <2>2. CASE ~Work
    BY <2>2, WorldStepKeeps DEF Next
  <2> QED BY <2>1, <2>2
<1> HIDE DEF Counted
<1> QED BY <1>1, <1>2, <1>3, AtInvHolds, AttachmentTypeCorrect, PTL DEF Spec, Advances

=============================================================================
