------------------------- MODULE SingleRecipientProofs -------------------------
(***************************************************************************)
(* Proofs about SingleRecipient, for lists of any length, any files and      *)
(* directories, and any number of lost replies and kills.  The invariant     *)
(* keeps the books of the loop: every mail begun is counted, noted as        *)
(* failed, or under way, and what is counted has been acknowledged.          *)
(***************************************************************************)
EXTENDS SingleRecipient, RouteFilesProofs, FiniteSetTheorems

Labels == {"start", "limit", "next", "mail", "routing", "returned", "crashed"}

Typed == BatchTypeOK(Total) /\ pc \in Labels

\* A mail is under way.
Busy == pc \in {"mail", "routing"}

Reported == answer \in {"ok", "partial"}

\* The books: how many mails were begun, sent and noted as failed.
Tally ==
  /\ pc \in {"start", "limit"} => n = 0
  /\ pc # "returned" => answer = "none"
  /\ Reported => n = Total /\ (answer = "ok" <=> failed = {})
  /\ failed \subseteq 1..n
  /\ Busy => n > 0 /\ n \notin failed /\ successCount + Cardinality(failed) = n - 1
  /\ pc \in {"start", "limit", "next"} \/ Reported => successCount + Cardinality(failed) = n
  /\ pc = "crashed" => crashes > 0

\* Mail k is over, and was not noted as failed.
Passed(k) == k \notin failed /\ (k < n \/ (k = n /\ pc \in {"next", "returned"}))

\* What the outcomes and the books say of the server.
AckInv ==
  /\ ~cfg.dryRun => outcome # "rehearsed" /\ \A k \in 1..Total : Passed(k) => k \in acked
  /\ phase = "sending" => outcome = "none"
  /\ Busy /\ outcome = "sent" => n \in acked
  /\ crashes = 0 => /\ acked \subseteq 1..n /\ failed \cap acked = {}
                    /\ Busy /\ outcome # "sent" => n \notin acked

\* The copy of mail k that needs no excuse.
Credit(k) == IF pc # "crashed" /\ (k < n \/ (k = n /\ phase # "sending")) THEN 1 ELSE 0

TakenInv == \A k \in 1..Total : taken[k] <= lost + crashes + Credit(k)

\* Routing is under way only in its own place.
RpcInv ==
  /\ pc \notin {"routing", "crashed"} => rpc = "idle"
  /\ pc = "crashed" => rpc \in {"idle", "dead"}
  /\ pc = "routing" => rpc # "dead"

RecipientInv == Typed /\ RouteInv /\ Tally /\ AckInv /\ TakenInv /\ RpcInv

-----------------------------------------------------------------------------

LEMMA ConfigFacts ==
  ASSUME cfg \in Configs
  PROVE  /\ Total \in Nat /\ Total > 1
         /\ cfg.attachments \in Seq(Files \cup {NoPath})
         /\ cfg.bodyFile \in Files \cup {NoPath}
         /\ cfg.successPath \in Dirs \cup {NoPath} /\ cfg.errorPath \in Dirs \cup {NoPath}
         /\ cfg.deleteAfter \in BOOLEAN /\ cfg.dryRun \in BOOLEAN
BY BatchAssumption, ManyRecipients DEF Config, Total

\* The body file, if any, and the attachments make a job.
LEMMA RouteJobType == ASSUME cfg \in Configs PROVE RouteJob \in Job
<1> DEFINE paths == Seq(Files \cup {NoPath})
           head  == IF cfg.bodyFile = NoPath THEN <<>> ELSE <<cfg.bodyFile>>
<1>1. head \in paths
  <2>1. CASE cfg.bodyFile = NoPath
    BY <2>1
  <2>2. CASE cfg.bodyFile # NoPath
    BY <2>2, ConfigFacts
  <2> QED BY <2>1, <2>2
<1>2. head \o cfg.attachments \in paths
  BY <1>1, ConfigFacts
<1> QED BY <1>2, ConfigFacts DEF RouteJob, Job

\* The arguments never change.
LEMMA SameConfig == [Next]_vars => cfg' = cfg /\ Total' = Total
<1>1. [Next]_vars => cfg' = cfg
  BY DEF vars, Next, Work, Environment, Validate, CheckLimit, NextMail, BeginMail, Mail,
     LoseReply, Acknowledge, Rehearse, GiveUp, Refuse, MailStep, FileMail, Routing, EndRouting,
     TellMail, MailSent, MailFailed, AllTried, RouteThen, Return, Proceed, Vanish, Crash, Restart
<1> QED BY <1>1 DEF Total

-----------------------------------------------------------------------------

\* The kinds of step: of the loop, of the mail, of routing, of the world.
Loop == Validate \/ CheckLimit \/ NextMail \/ MailSent \/ MailFailed \/ AllTried

MailWork == Mail \/ TellMail

Handover == FileMail \/ EndRouting

\* The loop writes its books and nothing else.
LEMMA LoopFrame ==
  ASSUME Loop
  PROVE  UNCHANGED <<routeVars, acked, taken, lost, vanished, crashes>>
BY DEF Loop, Validate, CheckLimit, NextMail, BeginMail, MailSent, MailFailed, AllTried, Return,
   Proceed, historyVars, faultVars

LEMMA MailFrame ==
  ASSUME MailWork
  PROVE  /\ pc = "mail" /\ UNCHANGED <<routeVars, cfg, pc, loopVars, faultVars>>
         /\ phase # "sending" => phase = "filing" /\ phase' = "told" /\ outcome' = outcome
         /\ \/ UNCHANGED <<acked, taken, lost>> /\ (outcome' = "sent" => outcome = "sent")
            \/ /\ phase = "sending" /\ taken' = [taken EXCEPT ![n] = @ + 1]
               /\ \/ acked' = acked /\ lost' = lost + 1 /\ lost < MaxLost /\ outcome' = outcome
                  \/ /\ lost' = lost /\ acked' = acked \cup {n} /\ phase' = "filing"
                     /\ outcome' = "sent"
BY DEF MailWork, Mail, TellMail, LoseReply, Acknowledge, Rehearse, GiveUp, Refuse, MailStep,
   D!LoseReply, D!Acknowledge, D!Rehearse, D!GiveUp, D!Refuse, D!Tell, historyVars

\* A call of routeAttachments begins and ends beside the books.
LEMMA HandoverFrame ==
  ASSUME Handover
  PROVE  /\ \/ pc = "mail" /\ pc' = "routing" /\ phase' = phase /\ RouteCall(RouteJob)
            \/ pc = "routing" /\ pc' = "mail" /\ phase = "filing" /\ phase' = "told"
               /\ rpc = "idle" /\ UNCHANGED routeVars
         /\ UNCHANGED <<cfg, outcome, copies, loopVars, historyVars, faultVars>>
BY DEF Handover, FileMail, EndRouting, RouteThen, Routed, D!Tell, mailVars

LEMMA RoutingFrame ==
  ASSUME Routing({"routing"})
  PROVE  /\ pc = "routing" /\ RouteStep
         /\ UNCHANGED <<cfg, pc, mailVars, loopVars, historyVars, faultVars>>
BY DEF Routing

LEMMA Steps ==
  ASSUME [Next]_vars
  PROVE  \/ Loop \/ MailWork \/ Handover \/ Routing({"routing"}) \/ Crash \/ Restart
         \/ (\E f \in Files : Vanish(f)) \/ UNCHANGED vars
BY DEF Next, Work, Environment, Loop, MailWork, Handover

\* Only a call of routeAttachments touches its variables, except that another program
\* may take a file away.
LEMMA RoutePart ==
  ASSUME RecipientInv, [Next]_vars
  PROVE  \/ [RouteNext]_routeVars /\ vanished' = vanished
         \/ rpc = "idle" /\ \E f \in Files : Vanish(f)
<1>1. CASE UNCHANGED vars
  BY <1>1 DEF vars, faultVars
<1>2. CASE Routing({"routing"})
  BY <1>2, RoutingFrame DEF RouteNext, faultVars
<1>3. CASE Loop \/ MailWork
  BY <1>3, LoopFrame, MailFrame DEF faultVars
<1>4. CASE Handover
  BY <1>4, HandoverFrame, RouteJobType
     DEF RouteNext, RecipientInv, Typed, BatchTypeOK, faultVars
<1>5. CASE Crash \/ Restart
  BY <1>5 DEF Crash, Restart, RouteNext, faultVars
<1>6. CASE \E f \in Files : Vanish(f)
  BY <1>6 DEF Vanish
<1> QED BY <1>1, <1>2, <1>3, <1>4, <1>5, <1>6, Steps

LEMMA RouteInvStep == RecipientInv /\ [Next]_vars => RouteInv'
<1> SUFFICES ASSUME RecipientInv, [Next]_vars PROVE RouteInv'
  OBVIOUS
<1>1. CASE [RouteNext]_routeVars
  BY <1>1, RouteStepInv DEF RecipientInv
<1>2. ASSUME NEW f \in Files, rpc = "idle", Vanish(f) PROVE RouteInv'
  <2>1. RouteTypeOK'
    BY <1>2 DEF RecipientInv, RouteInv, RouteTypeOK, Vanish
  <2>2. NamesInv'
    BY <1>2 DEF RecipientInv, RouteInv, NamesInv, Vanish
  <2>3. MoveInv' /\ CopyInv'
    BY <1>2 DEF MoveInv, CopyInv, Vanish, Moving
  <2> QED BY <2>1, <2>2, <2>3 DEF RouteInv
<1> QED BY <1>1, <1>2, RoutePart

LEMMA InList ==
  ASSUME RecipientInv
  PROVE  /\ n \in Nat /\ Total \in Nat /\ n <= Total /\ cfg \in Configs
         /\ crashes \in Nat /\ lost \in Nat /\ successCount \in Nat
         /\ Busy => n \in 1..Total
BY ConfigFacts, BatchAssumption DEF RecipientInv, Typed, BatchTypeOK, Tally, Busy

\* The set of failed mails is finite, and one more counts one more.
LEMMA FailedCount ==
  ASSUME RecipientInv
  PROVE  /\ IsFiniteSet(failed) /\ Cardinality(failed) \in Nat
         /\ n \notin failed => Cardinality(failed \cup {n}) = Cardinality(failed) + 1
         /\ Cardinality({}) = 0
<1>1. IsFiniteSet(1..n) /\ failed \subseteq 1..n
  BY InList, FS_Interval DEF RecipientInv, Tally
<1>2. IsFiniteSet(failed)
  BY <1>1, FS_Subset
<1> QED BY <1>2, FS_CardinalityType, FS_AddElement, FS_EmptySet

LEMMA TypeStep == RecipientInv /\ [Next]_vars => Typed'
<1> SUFFICES ASSUME RecipientInv, [Next]_vars PROVE Typed'
  OBVIOUS
<1>1. cfg' = cfg /\ Total' = Total /\ RouteTypeOK'
  BY SameConfig, RouteInvStep DEF RouteInv
<1>2. Typed /\ n \in Nat /\ Total \in Nat /\ MaxLost \in Nat /\ MaxCrashes \in Nat
  BY InList, BatchAssumption DEF RecipientInv
<1> USE <1>1, <1>2 DEF Typed, BatchTypeOK, Labels
<1>3. CASE UNCHANGED vars
  BY <1>3 DEF vars, mailVars, loopVars, historyVars, faultVars
<1>4. CASE Routing({"routing"})
  BY <1>4, RoutingFrame DEF mailVars, loopVars, historyVars, faultVars
<1>5. CASE Handover
  BY <1>5, HandoverFrame DEF mailVars, loopVars, historyVars, faultVars
<1>6. CASE MailWork
  <2>1. UNCHANGED <<cfg, pc, n, successCount, failed, answer, vanished, crashes>>
    BY <1>6, MailFrame DEF loopVars, faultVars
  <2>2. n \in 1..Total
    BY <1>6, MailFrame, InList DEF Busy
  <2>3. acked' = acked \/ acked' = acked \cup {n}
    BY <1>6, MailFrame
  <2>4. taken' = taken \/ taken' = [taken EXCEPT ![n] = @ + 1]
    BY <1>6, MailFrame
  <2>5. lost' = lost \/ (lost' = lost + 1 /\ lost < MaxLost)
    BY <1>6, MailFrame
  <2>6. acked' \subseteq 1..Total
    BY <2>2, <2>3
  <2>7. taken' \in [1..Total -> Nat]
    BY <2>4
  <2>8. lost' \in 0..MaxLost
    BY <2>5
  <2>9. /\ phase' \in {"sending", "filing", "told", "dead"} /\ copies' \in Nat
        /\ outcome' \in {"none", "sent", "failed", "rehearsed", "rejected"}
    BY <1>6 DEF MailWork, Mail, TellMail, LoseReply, Acknowledge, Rehearse, GiveUp, Refuse,
       D!LoseReply, D!Acknowledge, D!Rehearse, D!GiveUp, D!Refuse, D!Tell
  <2> QED BY <2>1, <2>6, <2>7, <2>8, <2>9
<1>7. CASE Loop
  <2>1. UNCHANGED <<acked, taken, lost, vanished, crashes>>
    BY <1>7, LoopFrame
  <2>2. CASE NextMail
    BY <2>1, <2>2 DEF NextMail, BeginMail
  <2>3. CASE MailSent \/ MailFailed
    <3>1. Busy /\ n \in 1..Total
      BY <2>3, InList DEF MailSent, MailFailed, Done, Busy
    <3>2. successCount + 1 \in 0..Total
      BY <3>1, FailedCount, InList DEF RecipientInv, Tally
    <3> QED BY <2>1, <2>3, <3>1, <3>2 DEF MailSent, MailFailed, mailVars
  <2>4. CASE Validate \/ CheckLimit \/ AllTried
    BY <2>1, <2>4 DEF Validate, CheckLimit, AllTried, Return, Proceed, mailVars, loopVars
  <2> QED BY <1>7, <2>2, <2>3, <2>4 DEF Loop
<1>8. CASE Crash
  BY <1>8 DEF Crash, mailVars, loopVars, historyVars
<1>9. CASE Restart
  BY <1>9 DEF Restart, historyVars, faultVars
<1>10. CASE \E f \in Files : Vanish(f)
  BY <1>10 DEF Vanish, mailVars, loopVars, historyVars
<1> QED BY <1>3, <1>4, <1>5, <1>6, <1>7, <1>8, <1>9, <1>10, Steps

\* Every mail begun is counted, noted as failed, or under way.
LEMMA TallyStep == RecipientInv /\ [Next]_vars => Tally'
<1> SUFFICES ASSUME RecipientInv, [Next]_vars PROVE Tally'
  OBVIOUS
<1>1. Total' = Total
  BY SameConfig
<1>2. Tally
  BY DEF RecipientInv
<1> USE <1>1, <1>2, InList, FailedCount DEF Tally, Busy, Reported
<1>3. CASE UNCHANGED vars
  BY <1>3 DEF vars, loopVars, faultVars
<1>4. CASE Routing({"routing"})
  BY <1>4, RoutingFrame DEF loopVars, faultVars
<1>5. CASE Handover
  BY <1>5, HandoverFrame DEF loopVars, faultVars
<1>6. CASE MailWork
  BY <1>6, MailFrame DEF loopVars, faultVars
<1>7. CASE Loop
  <2>1. CASE NextMail
    BY <2>1 DEF NextMail, BeginMail, faultVars
  <2>2. CASE MailSent
    BY <2>2 DEF MailSent, Done, faultVars
  <2>3. CASE MailFailed
    <3>1. /\ pc' = "next" /\ failed' = failed \cup {n} /\ UNCHANGED <<n, successCount, answer>>
          /\ pc = "mail"
      BY <2>3 DEF MailFailed, Done
    <3>2. failed' \subseteq 1..n
      <4>1. failed \subseteq 1..n /\ n \in 1..n
        BY <3>1
      <4> QED BY <3>1, <4>1
    <3>3. successCount + Cardinality(failed') = n
      BY <3>1
    <3> QED BY <3>1, <3>2, <3>3
  <2>4. CASE Validate \/ CheckLimit
    BY <2>4 DEF Validate, CheckLimit, Return, Proceed, loopVars, faultVars
  <2>5. CASE AllTried
    BY <2>5 DEF AllTried, Return, faultVars
  <2> QED BY <1>7, <2>1, <2>2, <2>3, <2>4, <2>5 DEF Loop
<1>8. CASE Crash
  BY <1>8 DEF Crash, Running, loopVars
<1>9. CASE Restart
  BY <1>9 DEF Restart, faultVars
<1>10. CASE \E f \in Files : Vanish(f)
  BY <1>10 DEF Vanish, loopVars
<1> QED BY <1>3, <1>4, <1>5, <1>6, <1>7, <1>8, <1>9, <1>10, Steps

\* What the books say is what the server said.
LEMMA AckStep == RecipientInv /\ [Next]_vars => AckInv'
<1> SUFFICES ASSUME RecipientInv, [Next]_vars PROVE AckInv'
  OBVIOUS
<1>1. cfg' = cfg /\ Total' = Total /\ cfg.dryRun \in BOOLEAN
  BY SameConfig, ConfigFacts, InList
<1>2. AckInv
  BY DEF RecipientInv
<1>3. n \in Nat /\ crashes \in Nat /\ (Busy => n > 0 /\ n \notin failed)
  BY InList DEF RecipientInv, Tally
<1> USE <1>1, <1>2, <1>3 DEF AckInv, Busy, Passed
<1>4. CASE UNCHANGED vars
  BY <1>4 DEF vars, mailVars, loopVars, historyVars, faultVars
<1>5. CASE Routing({"routing"})
  BY <1>5, RoutingFrame DEF mailVars, loopVars, historyVars, faultVars
<1>6. CASE Handover
  BY <1>6, HandoverFrame DEF loopVars, historyVars, faultVars
<1>7. CASE MailWork
  <2>1. UNCHANGED <<pc, n, failed, crashes>> /\ pc = "mail" /\ n \in 1..n
    BY <1>7, MailFrame DEF loopVars, faultVars
  <2>2. /\ ~cfg.dryRun /\ outcome # "rehearsed" => outcome' # "rehearsed"
        /\ phase' = "sending" => outcome' = "none"
    BY <1>7 DEF MailWork, Mail, TellMail, LoseReply, Acknowledge, Rehearse, GiveUp, Refuse,
       D!LoseReply, D!Acknowledge, D!Rehearse, D!GiveUp, D!Refuse, D!Tell
  <2>3. CASE acked' = acked \cup {n} /\ outcome' = "sent"
    <3>1. crashes = 0 => acked' \subseteq 1..n /\ failed \cap acked' = {}
      BY <2>1, <2>3
    <3> QED BY <2>1, <2>2, <2>3, <3>1
  <2>4. CASE acked' = acked /\ (outcome' = "sent" => outcome = "sent")
    <3>1. outcome = "sent" => outcome' = "sent"
      BY <1>7 DEF MailWork, Mail, TellMail, LoseReply, Acknowledge, Rehearse, GiveUp, Refuse,
         D!LoseReply, D!Acknowledge, D!Rehearse, D!GiveUp, D!Refuse, D!Tell
    <3> QED BY <2>1, <2>2, <2>4, <3>1
  <2> QED BY <1>7, <2>3, <2>4, MailFrame
<1>8. CASE Loop
  <2>1. UNCHANGED <<acked, crashes>>
    BY <1>8, LoopFrame
  <2>2. CASE NextMail
    <3>1. n' = n + 1 /\ pc = "next" /\ pc' = "mail" /\ outcome' \in {"none", "rejected"}
          /\ failed' = failed /\ (phase' = "sending" => outcome' = "none")
      BY <2>2 DEF NextMail, BeginMail
    <3>2. 1..n \subseteq 1..n' /\ n' \notin 1..n
      BY <3>1
    <3> QED BY <2>1, <3>1, <3>2
  <2>3. CASE MailSent
    <3>1. pc = "mail" /\ pc' = "next" /\ UNCHANGED <<n, failed, phase, outcome>>
          /\ outcome \in {"sent", "rehearsed"}
      BY <2>3 DEF MailSent, Done, MailSucceeded, mailVars
    <3> QED BY <2>1, <3>1
  <2>4. CASE MailFailed
    <3>1. pc = "mail" /\ pc' = "next" /\ UNCHANGED <<n, phase, outcome>> /\ failed' = failed \cup {n}
          /\ outcome # "sent"
      BY <2>4 DEF MailFailed, Done, MailSucceeded, mailVars
    <3> QED BY <2>1, <3>1
  <2>5. CASE Validate \/ CheckLimit \/ AllTried
    <3>1. UNCHANGED <<n, failed, phase, outcome>> /\ pc' \notin {"mail", "routing"}
          /\ (pc' \in {"next", "returned"} => n = 0 \/ pc = "next")
      BY <2>5 DEF Validate, CheckLimit, AllTried, Return, Proceed, loopVars, mailVars,
         RecipientInv, Tally
    <3> QED BY <2>1, <3>1, InList DEF Passed
  <2> QED BY <1>8, <2>2, <2>3, <2>4, <2>5 DEF Loop
<1>9. CASE Crash
  BY <1>9 DEF Crash, mailVars, loopVars, historyVars
<1>10. CASE Restart
  BY <1>10 DEF Restart, historyVars, faultVars, RecipientInv, Tally
<1>11. CASE \E f \in Files : Vanish(f)
  BY <1>11 DEF Vanish, mailVars, loopVars, historyVars
<1> QED BY <1>4, <1>5, <1>6, <1>7, <1>8, <1>9, <1>10, <1>11, Steps

\* A copy more is paid for by a lost reply, or by the one credit of its mail; a kill
\* pays for the credit it takes away.
LEMMA TakenStep == RecipientInv /\ [Next]_vars => TakenInv'
<1> SUFFICES ASSUME RecipientInv, [Next]_vars, NEW k \in 1..Total
             PROVE  taken'[k] <= lost' + crashes' + Credit(k)'
  BY SameConfig DEF TakenInv
<1>1. /\ crashes \in Nat /\ lost \in Nat /\ taken[k] \in Nat /\ taken \in [1..Total -> Nat]
      /\ n \in Nat /\ k \in Nat /\ k > 0 /\ taken[k] <= lost + crashes + Credit(k)
  BY InList DEF RecipientInv, Typed, BatchTypeOK, TakenInv
<1> USE <1>1 DEF Credit
<1>2. CASE UNCHANGED vars
  BY <1>2 DEF vars, mailVars, loopVars, historyVars, faultVars
<1>3. CASE Routing({"routing"})
  BY <1>3, RoutingFrame DEF mailVars, loopVars, historyVars, faultVars
<1>4. CASE Handover
  BY <1>4, HandoverFrame DEF loopVars, historyVars, faultVars
<1>5. CASE MailWork
  <2>1. UNCHANGED <<pc, n, crashes>> /\ pc = "mail"
    BY <1>5, MailFrame DEF loopVars, faultVars
  <2>2. CASE UNCHANGED <<taken, lost>>
    BY <1>5, <2>1, <2>2, MailFrame
  <2>3. CASE taken' = [taken EXCEPT ![n] = @ + 1]
    <3>1. taken'[k] = IF k = n THEN taken[k] + 1 ELSE taken[k]
      BY <2>3
    <3>2. \/ UNCHANGED <<taken, lost>>
          \/ phase = "sending" /\ lost' = lost + 1
          \/ phase = "sending" /\ lost' = lost /\ phase' = "filing"
      BY <1>5, MailFrame
    <3>3. CASE phase = "sending" /\ lost' = lost + 1
      BY <2>1, <3>1, <3>3
    <3>4. CASE phase = "sending" /\ lost' = lost /\ phase' = "filing"
      BY <2>1, <3>1, <3>4
    <3> QED BY <2>2, <3>2, <3>3, <3>4
  <2> QED BY <1>5, <2>2, <2>3, MailFrame
<1>6. CASE Loop
  <2>1. UNCHANGED <<taken, lost, crashes>>
    BY <1>6, LoopFrame
  <2>2. CASE NextMail
    BY <2>1, <2>2 DEF NextMail, BeginMail
  <2>3. CASE ~NextMail
    BY <1>6, <2>1, <2>3 DEF Loop, Validate, CheckLimit, MailSent, MailFailed, AllTried, Return,
       Proceed, Done, mailVars, loopVars
  <2> QED BY <2>2, <2>3
<1>7. CASE Crash
  BY <1>7 DEF Crash, mailVars, loopVars, historyVars
<1>8. CASE Restart
  BY <1>8 DEF Restart, historyVars, faultVars
<1>9. CASE \E f \in Files : Vanish(f)
  BY <1>9 DEF Vanish, mailVars, loopVars, historyVars
<1> QED BY <1>2, <1>3, <1>4, <1>5, <1>6, <1>7, <1>8, <1>9, Steps

LEMMA RpcStep == RecipientInv /\ [Next]_vars => RpcInv'
<1> SUFFICES ASSUME RecipientInv, [Next]_vars PROVE RpcInv'
  OBVIOUS
<1>1. RpcInv
  BY DEF RecipientInv
<1> USE <1>1 DEF RpcInv
<1>2. CASE UNCHANGED vars
  BY <1>2 DEF vars, routeVars
<1>3. CASE Routing({"routing"})
  <2>1. rpc' # "dead"
    BY <1>3 DEF Routing, RouteStep, RouteReturn, SkipFile, DeleteFile, MakeDestDir, RenameFile,
       OpenSource, CreateDest, WriteDest, UnlinkSource, NextFile, StepTo, RouteFails
  <2> QED BY <1>3, <2>1, RoutingFrame
<1>4. CASE Handover
  BY <1>4, HandoverFrame DEF RouteCall, routeVars
<1>5. CASE MailWork
  BY <1>5, MailFrame DEF routeVars
<1>6. CASE Loop
  <2>1. pc \notin {"routing", "crashed"} /\ pc' \notin {"routing", "crashed"} /\ rpc' = rpc
    BY <1>6, LoopFrame DEF Loop, Validate, CheckLimit, NextMail, BeginMail, MailSent, MailFailed,
       AllTried, Return, Proceed, Done, routeVars
  <2> QED BY <2>1
<1>7. CASE Crash
  BY <1>7 DEF Crash, Running, RouteDies, routeVars
<1>8. CASE Restart
  BY <1>8 DEF Restart, RouteRevives, routeVars
<1>9. CASE \E f \in Files : Vanish(f)
  BY <1>9 DEF Vanish
<1> QED BY <1>2, <1>3, <1>4, <1>5, <1>6, <1>7, <1>8, <1>9, Steps

LEMMA RecipientInitInv == Init => RecipientInv
<1> SUFFICES ASSUME Init PROVE RecipientInv
  OBVIOUS
<1>1. cfg \in Configs /\ RouteInv /\ RouteTypeOK
  BY InitInv DEF Init, BatchInit, RouteInv
<1>2. Total \in Nat /\ Total > 1 /\ 0 \in 0..Total /\ Cardinality({}) = 0
  BY <1>1, ConfigFacts, FS_EmptySet
<1>3. Typed
  BY <1>1, <1>2, BatchAssumption DEF Init, BatchInit, Typed, BatchTypeOK, Labels
<1>4. Tally /\ AckInv /\ TakenInv /\ RpcInv
  BY <1>2 DEF Init, BatchInit, RouteInit, Tally, Busy, Reported, AckInv, Passed, TakenInv, Credit,
              RpcInv
<1> QED BY <1>1, <1>3, <1>4 DEF RecipientInv

(* Every reachable state of the mode is well typed and keeps the books.      *)
THEOREM RecipientInvariant == Spec => []RecipientInv
<1>1. RecipientInv /\ [Next]_vars => RecipientInv'
  BY TypeStep, RouteInvStep, TallyStep, AckStep, TakenStep, RpcStep DEF RecipientInv
<1> QED BY RecipientInitInv, <1>1, PTL DEF Spec

-----------------------------------------------------------------------------

(* The report of sendSingleRecipientMode is true of the server, for any      *)
(* number of recipients: whoever is not listed as failed was acknowledged,   *)
(* and in a run without a kill before it nobody listed was.                  *)
THEOREM RecipientReportTruth == Spec => []ReportTruth
<1>1. RecipientInv => ReportTruth
  <2> SUFFICES ASSUME RecipientInv, pc = "returned", Reported PROVE
                 /\ answer = "ok" => failed = {} /\ n = Total
                 /\ answer = "partial" => failed # {}
                 /\ successCount + Cardinality(failed) = n
                 /\ ~cfg.dryRun => 1..n \ failed \subseteq acked
                 /\ crashes = 0 => failed \cap acked = {}
    BY DEF ReportTruth, Reported
  <2>1. n = Total /\ successCount + Cardinality(failed) = Total /\ (answer = "ok" <=> failed = {})
    BY DEF RecipientInv, Tally
  <2>2. \A k \in 1..Total : k \notin failed => Passed(k)
    BY <2>1, InList DEF Passed
  <2> QED BY <2>1, <2>2 DEF RecipientInv, AckInv
<1> QED BY RecipientInvariant, <1>1, PTL

(* The loop over the recipients repeats no mail, whatever its routing does:  *)
(* a second copy is a lost reply, or a rerun after a kill.                   *)
THEOREM RecipientOneCopyEach == Spec => []OneCopyEach
<1>1. RecipientInv => OneCopyEach
  <2> SUFFICES ASSUME RecipientInv, NEW k \in 1..Total PROVE taken[k] <= 1 + lost + crashes
    BY DEF OneCopyEach
  <2>1. taken[k] \in Nat /\ lost \in Nat /\ crashes \in Nat
    BY InList DEF RecipientInv, Typed, BatchTypeOK
  <2>2. taken[k] <= lost + crashes + Credit(k)
    BY DEF RecipientInv, TakenInv
  <2> QED BY <2>1, <2>2 DEF Credit
<1> QED BY RecipientInvariant, <1>1, PTL

(* No matter how many recipients route them, over kills and reruns, no input *)
(* file is lost, if no two have the same base name.                          *)
THEOREM RecipientInputsSurvive == ASSUME DistinctNames PROVE Spec => []InputsSurvive
<1>1. Init => InputsSurvive
  BY DEF Init, BatchInit, RouteInit, InputsSurvive, Kept
<1>2. RecipientInv /\ InputsSurvive /\ [Next]_vars => InputsSurvive'
  <2> SUFFICES ASSUME RecipientInv, InputsSurvive, [Next]_vars PROVE InputsSurvive'
    OBVIOUS
  <2>1. ASSUME NEW f \in Files, Vanish(f) PROVE InputsSurvive'
    BY <2>1 DEF Vanish, InputsSurvive, Kept
  <2>2. CASE [RouteNext]_routeVars /\ vanished' = vanished
    BY <2>2, KeptStep, PurgedGrows, DistinctNames DEF RecipientInv, InputsSurvive
  <2> QED BY <2>1, <2>2, RoutePart
<1> QED BY RecipientInvariant, <1>1, <1>2, PTL DEF Spec

-----------------------------------------------------------------------------

\* The variant, as a function of the place, the mail, its phase, and the routing.
Rest(k, l) == MaxLost - l + 1 + (5 + RoutingSteps) * (Total - k)

MailSteps(ph) ==
  CASE ph = "sending" -> 4 + RoutingSteps [] ph = "filing" -> 3 + RoutingSteps [] OTHER -> 1

LeftAt(p, k, l, ph, r) ==
  CASE p = "start"   -> Rest(k, l) + 2
    [] p = "limit"   -> Rest(k, l) + 1
    [] p = "next"    -> Rest(k, l)
    [] p = "mail"    -> Rest(k, l) + MailSteps(ph)
    [] p = "routing" -> Rest(k, l) + 2 + r
    [] OTHER         -> 0

LEMMA LeftAtIs ==
  ASSUME NEW k, NEW l, NEW ph, NEW r
  PROVE  /\ LeftAt("start", k, l, ph, r) = Rest(k, l) + 2
         /\ LeftAt("limit", k, l, ph, r) = Rest(k, l) + 1
         /\ LeftAt("next", k, l, ph, r) = Rest(k, l)
         /\ LeftAt("mail", k, l, ph, r) = Rest(k, l) + MailSteps(ph)
         /\ LeftAt("routing", k, l, ph, r) = Rest(k, l) + 2 + r
         /\ LeftAt("returned", k, l, ph, r) = 0
         /\ LeftAt("crashed", k, l, ph, r) = 0
BY DEF LeftAt

LEMMA RoutingStepsFacts ==
  ASSUME cfg \in Configs
  PROVE  RoutingSteps \in Nat \ {0} /\ Len(RouteJob.files) \in Nat
<1>1. RouteJob.files \in Seq(Files \cup {NoPath})
  BY RouteJobType DEF Job
<1> QED BY <1>1 DEF RoutingSteps

LEMMA MailStepsFacts ==
  /\ MailSteps("sending") = 4 + RoutingSteps /\ MailSteps("filing") = 3 + RoutingSteps
  /\ MailSteps("told") = 1 /\ MailSteps("dead") = 1
BY DEF MailSteps

\* One mail fewer is one row of the product fewer.
LEMMA OneMailLess ==
  ASSUME NEW x \in Nat, NEW y \in Nat
  PROVE  x * y \in Nat /\ (y > 0 => x * (y - 1) + x = x * y)
OBVIOUS

LEMMA RestFacts ==
  ASSUME NEW k \in Nat, NEW l \in 0..MaxLost, cfg \in Configs, k <= Total
  PROVE  /\ Rest(k, l) \in Nat \ {0}
         /\ k < Total => Rest(k + 1, l) + 5 + RoutingSteps = Rest(k, l)
         /\ l < MaxLost => Rest(k, l + 1) + 1 = Rest(k, l)
<1>1. Total \in Nat /\ MaxLost \in Nat /\ RoutingSteps \in Nat
  BY ConfigFacts, RoutingStepsFacts, BatchAssumption
<1> DEFINE x == 5 + RoutingSteps
           y == Total - k
<1>2. x \in Nat /\ y \in Nat
  BY <1>1
<1>3. Rest(k, l) = MaxLost - l + 1 + x * y /\ Rest(k, l + 1) = MaxLost - (l + 1) + 1 + x * y
  BY DEF Rest
<1>4. Rest(k + 1, l) = MaxLost - l + 1 + x * (y - 1)
  <2>1. Total - (k + 1) = y - 1
    BY <1>1
  <2> QED BY <2>1 DEF Rest
<1>5. k < Total => y > 0
  BY <1>1
<1>6. x = 5 + RoutingSteps
  OBVIOUS
<1> HIDE DEF x, y
<1>7. x * y \in Nat /\ (y > 0 => x * (y - 1) + x = x * y /\ x * (y - 1) \in Nat)
  <2>1. y > 0 => y - 1 \in Nat
    BY <1>2
  <2> QED BY <1>2, <2>1, OneMailLess
<1> DEFINE whole == x * y
           less  == x * (y - 1)
<1>8. /\ Rest(k, l) = MaxLost - l + 1 + whole /\ Rest(k, l + 1) = MaxLost - (l + 1) + 1 + whole
      /\ Rest(k + 1, l) = MaxLost - l + 1 + less /\ whole \in Nat
      /\ k < Total => less + x = whole /\ less \in Nat
  BY <1>3, <1>4, <1>5, <1>7
<1> HIDE DEF whole, less
<1> QED BY <1>1, <1>2, <1>6, <1>8

LEMMA AtInvHolds == RecipientInv /\ AtInv /\ [Next]_vars => AtInv'
<1> SUFFICES ASSUME RecipientInv, AtInv, [Next]_vars PROVE AtInv'
  OBVIOUS
<1>1. CASE [RouteNext]_routeVars
  BY <1>1, AtInvStep DEF RecipientInv
<1>2. CASE \E f \in Files : Vanish(f)
  BY <1>2 DEF Vanish, AtInv
<1> QED BY <1>1, <1>2, RoutePart

LEMMA StateFacts ==
  ASSUME RecipientInv, AtInv
  PROVE  /\ n \in Nat /\ Total \in Nat /\ n <= Total /\ lost \in 0..MaxLost
         /\ RoutingLeft \in Nat /\ RoutingSteps \in Nat \ {0} /\ cfg \in Configs
         /\ Rest(n, lost) \in Nat \ {0}
         /\ n < Total => Rest(n + 1, lost) + 5 + RoutingSteps = Rest(n, lost)
         /\ lost < MaxLost => Rest(n, lost + 1) + 1 = Rest(n, lost)
         /\ phase \in {"sending", "filing", "told", "dead"}
         /\ StepsLeft = LeftAt(pc, n, lost, phase, RoutingLeft)
<1>1. /\ n \in Nat /\ Total \in Nat /\ n <= Total /\ lost \in 0..MaxLost
      /\ RoutingLeft \in Nat /\ cfg \in Configs
      /\ phase \in {"sending", "filing", "told", "dead"}
  BY InList, RoutingLeftNat DEF RecipientInv, Typed, BatchTypeOK
<1>2. StepsLeft = LeftAt(pc, n, lost, phase, RoutingLeft)
  BY DEF StepsLeft, LeftAt, Rest, MailSteps
<1> QED BY <1>1, <1>2, RestFacts, RoutingStepsFacts

LEMMA StepsLeftNat == RecipientInv /\ AtInv => StepsLeft \in Nat
<1> SUFFICES ASSUME RecipientInv, AtInv PROVE StepsLeft \in Nat
  OBVIOUS
<1>1. pc \in Labels
  BY DEF RecipientInv, Typed
<1>2. MailSteps(phase) \in Nat
  BY MailStepsFacts, StateFacts
<1> QED BY <1>1, <1>2, StateFacts, LeftAtIs DEF Labels

\* What a step of its own does to the variant.
LEMMA OwnStepAdvances ==
  ASSUME RecipientInv, AtInv, [Next]_vars, Work PROVE StepsLeft' < StepsLeft
<1>1. cfg' = cfg /\ Total' = Total /\ RoutingSteps' = RoutingSteps
  BY SameConfig DEF RoutingSteps, RouteJob
<1>2. StepsLeft' = LeftAt(pc', n', lost', phase', RoutingLeft')
  BY <1>1 DEF StepsLeft, LeftAt, Rest, MailSteps
<1> USE StateFacts
<1>3. CASE Routing({"routing"})
  <2>1. pc = "routing" /\ pc' = pc /\ n' = n /\ lost' = lost /\ RouteStep
    BY <1>3, RoutingFrame DEF loopVars, historyVars
  <2>2. RoutingLeft' \in Nat /\ RoutingLeft' < RoutingLeft
    BY <2>1, RouteStepAdvances DEF RecipientInv
  <2>3. \A x, y, z \in Nat : x < y => z + 2 + x < z + 2 + y
    OBVIOUS
  <2>4. Rest(n, lost) + 2 + RoutingLeft' < Rest(n, lost) + 2 + RoutingLeft
    BY <2>2, <2>3
  <2> QED BY <1>2, <2>1, <2>4, LeftAtIs
<1>4. CASE MailWork
  <2>1. pc = "mail" /\ pc' = "mail" /\ n' = n
    BY <1>4, MailFrame DEF loopVars
  <2>2. \/ phase' = phase /\ lost' = lost + 1 /\ lost < MaxLost
        \/ phase = "sending" /\ phase' \in {"filing", "told"} /\ lost' = lost
        \/ phase = "filing" /\ phase' = "told" /\ lost' = lost
    BY <1>4 DEF MailWork, Mail, TellMail, LoseReply, Acknowledge, Rehearse, GiveUp, Refuse,
       D!LoseReply, D!Acknowledge, D!Rehearse, D!GiveUp, D!Refuse, D!Tell, historyVars
  <2>3. /\ StepsLeft = Rest(n, lost) + MailSteps(phase)
        /\ StepsLeft' = Rest(n, lost') + MailSteps(phase')
    BY <1>2, <2>1, LeftAtIs
  <2>4. CASE phase' = phase /\ lost' = lost + 1 /\ lost < MaxLost
    <3>1. MailSteps(phase) \in Nat
      BY MailStepsFacts
    <3>2. lost + 1 \in 0..MaxLost
      BY <2>4, BatchAssumption
    <3>3. Rest(n, lost + 1) \in Nat /\ Rest(n, lost + 1) + 1 = Rest(n, lost)
      BY <2>4, <3>2, RestFacts
    <3>4. \A x, y \in Nat : x + y < (x + 1) + y
      OBVIOUS
    <3>5. StepsLeft' = Rest(n, lost + 1) + MailSteps(phase)
      BY <2>3, <2>4
    <3>6. StepsLeft = (Rest(n, lost + 1) + 1) + MailSteps(phase)
      BY <2>3, <3>3
    <3> QED BY <3>1, <3>3, <3>4, <3>5, <3>6
  <2>5. CASE lost' = lost /\ phase # phase'
    BY <2>2, <2>3, <2>5, MailStepsFacts
  <2> QED BY <2>2, <2>4, <2>5
<1>5. CASE Handover
  <2>1. n' = n /\ lost' = lost
    BY <1>5, HandoverFrame DEF loopVars, historyVars
  <2>2. CASE FileMail
    <3>1. pc = "mail" /\ phase = "filing" /\ pc' = "routing" /\ RouteCall(RouteJob)
      BY <2>2 DEF FileMail, RouteThen
    <3>2. job' = RouteJob /\ at' = 1 /\ rpc' = "file"
      BY <3>1 DEF RouteCall
    <3>3. RoutingLeft' = 1 + 6 * (Len(RouteJob.files) + 1 - 1) - Behind["file"]
      BY <3>2, BehindIs DEF RoutingLeft, Behind
    <3>4. RoutingLeft' = RoutingSteps
      BY <3>3, BehindIs, RoutingStepsFacts DEF RoutingSteps
    <3>5. /\ StepsLeft = Rest(n, lost) + (3 + RoutingSteps)
          /\ StepsLeft' = Rest(n, lost) + 2 + RoutingSteps
      BY <1>2, <2>1, <3>1, <3>4, LeftAtIs, MailStepsFacts
    <3> QED BY <3>5
  <2>3. CASE EndRouting
    <3>1. pc = "routing" /\ pc' = "mail" /\ phase' = "told"
      BY <2>3 DEF EndRouting, Routed, D!Tell
    <3>2. /\ StepsLeft = Rest(n, lost) + 2 + RoutingLeft
          /\ StepsLeft' = Rest(n, lost) + MailSteps("told")
      BY <1>2, <2>1, <3>1, LeftAtIs
    <3>3. MailSteps("told") = 1
      BY MailStepsFacts
    <3> QED BY <3>2, <3>3
  <2> QED BY <1>5, <2>2, <2>3 DEF Handover
<1>6. CASE Loop
  <2>1. lost' = lost
    BY <1>6, LoopFrame
  <2>2. CASE NextMail
    <3>1. n < Total /\ n' = n + 1 /\ pc = "next" /\ pc' = "mail" /\ phase' \in {"sending", "told"}
      BY <2>2 DEF NextMail, BeginMail
    <3>2. StepsLeft = Rest(n, lost) /\ StepsLeft' = Rest(n + 1, lost) + MailSteps(phase')
      BY <1>2, <2>1, <3>1, LeftAtIs
    <3>3. Rest(n + 1, lost) \in Nat
      BY <3>1, RestFacts
    <3>4. MailSteps(phase') \in {4 + RoutingSteps, 1}
      BY <3>1, MailStepsFacts
    <3> QED BY <3>1, <3>2, <3>3, <3>4
  <2>3. CASE MailSent \/ MailFailed
    <3>1. n' = n /\ pc = "mail" /\ pc' = "next" /\ phase = "told"
      BY <2>3 DEF MailSent, MailFailed, Done
    <3>2. StepsLeft = Rest(n, lost) + MailSteps("told") /\ StepsLeft' = Rest(n, lost)
      BY <1>2, <2>1, <3>1, LeftAtIs
    <3> QED BY <3>2, MailStepsFacts
  <2>4. CASE Validate \/ CheckLimit \/ AllTried
    <3>1. /\ n' = n
          /\ \/ pc = "start" /\ pc' \in {"limit", "returned"}
             \/ pc = "limit" /\ pc' \in {"next", "returned"}
             \/ pc = "next" /\ pc' = "returned"
      BY <2>4 DEF Validate, CheckLimit, AllTried, Proceed, Return, loopVars
    <3> QED BY <1>2, <2>1, <3>1, LeftAtIs
  <2> QED BY <1>6, <2>2, <2>3, <2>4 DEF Loop
<1> QED BY <1>3, <1>4, <1>5, <1>6 DEF Work, Loop, Handover, MailWork

\* The world does not prolong a batch.
LEMMA WorldStepKeeps ==
  ASSUME RecipientInv, AtInv, pc # "crashed", Environment PROVE StepsLeft' \in 0..StepsLeft
<1>1. StepsLeft \in Nat
  BY StepsLeftNat
<1>2. CASE Crash
  <2>1. pc' = "crashed"
    BY <1>2 DEF Crash
  <2>2. StepsLeft' = 0
    BY <2>1 DEF StepsLeft
  <2> QED BY <1>1, <2>2
<1>3. CASE \E f \in Files : Vanish(f)
  <2>1. StepsLeft' = StepsLeft
    BY <1>3 DEF Vanish, StepsLeft, RoutingSteps, RouteJob, Total, RoutingLeft, Behind, mailVars,
       loopVars, historyVars
  <2> QED BY <1>1, <2>1
<1>4. ~Restart
  BY DEF Restart
<1> QED BY <1>2, <1>3, <1>4 DEF Environment

(* sendSingleRecipientMode cannot run for ever: each step of its own leaves  *)
(* it fewer, for any number of recipients and files, whoever fails.          *)
THEOREM RecipientAdvances == Spec => Advances
<1>1. Init => AtInv
  BY DEF Init, BatchInit, RouteInit, AtInv
<1> DEFINE Counted == StepsLeft \in Nat
<1>2. RecipientInv /\ AtInv => Counted
  BY StepsLeftNat
<1>3. RecipientInv /\ AtInv /\ Counted /\ Counted' /\ [Next]_vars
        => [pc # "crashed" => /\ StepsLeft' \in 0..StepsLeft
                              /\ Work => StepsLeft' < StepsLeft]_vars
  <2> SUFFICES ASSUME RecipientInv, AtInv, Counted, Counted', Next, pc # "crashed"
               PROVE  /\ StepsLeft' \in 0..StepsLeft
                      /\ Work => StepsLeft' < StepsLeft
    OBVIOUS
  <2>1. CASE Work
    BY <2>1, OwnStepAdvances
  <2>2. CASE ~Work
    BY <2>2, WorldStepKeeps DEF Next
  <2> QED BY <2>1, <2>2
<1> HIDE DEF Counted
<1> QED BY <1>1, <1>2, <1>3, AtInvHolds, RecipientInvariant, PTL DEF Spec, Advances

=============================================================================
