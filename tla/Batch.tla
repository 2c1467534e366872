--------------------------------- MODULE Batch ---------------------------------
(***************************************************************************)
(* What the two batch modes of mailer.go share: a loop that makes one mail   *)
(* after the other with a call of SendEmail each.  A mail is known by the    *)
(* contract of Delivery, which SendEmail implements; its routing is done     *)
(* step by step by RouteFiles.  The process may be killed and run again.     *)
(*                                                                          *)
(* The wait for the rate limiter between two mails is in RateLimit.          *)
(***************************************************************************)
EXTENDS RouteFiles, FiniteSets

CONSTANTS Configs,     \* the EmailParams of interest
          Recipients,
          DefaultMaxRecipients,
          MaxLost,     \* bound: how many replies of the server are lost
          MaxVanished, \* bound: how many files other programs take away
          MaxCrashes   \* bound: how often the process is killed

\* The fields of EmailParams that decide the control flow of a batch.
Config == [to            : Seq(Recipients),
           others        : Nat,      \* len(CC) + len(BCC)
           maxRecipients : Nat,
           attachments   : Seq(Files \cup {NoPath}),
           bodyFile      : Files \cup {NoPath},
           successPath   : Dirs \cup {NoPath},
           errorPath     : Dirs \cup {NoPath},
           deleteAfter   : BOOLEAN,
           dryRun        : BOOLEAN]

ASSUME BatchAssumption ==
  /\ Configs \subseteq Config
  /\ DefaultMaxRecipients \in Nat /\ MaxLost \in Nat /\ MaxVanished \in Nat
  /\ MaxCrashes \in Nat

VARIABLES cfg,      \* the arguments
          pc,       \* where the loop stands
          n,        \* the number of the mail under way, 1 for the first
          phase, outcome, copies,  \* the mail under way, as in Delivery
          successCount,            \* as in the code
          failed,   \* the numbers of the mails that failed in this run
          answer,   \* what the caller was given
          acked,    \* history: the numbers of the mails the server acknowledged
          taken,    \* history: how many copies of each mail the server took
          lost,     \* history: acceptances whose reply was lost
          vanished, \* input files another program has taken away
          crashes

mailVars    == <<phase, outcome, copies>>
loopVars    == <<n, successCount, failed, answer>>
historyVars == <<acked, taken, lost>>
faultVars   == <<vanished, crashes>>

vars == <<routeVars, cfg, pc, mailVars, loopVars, historyVars, faultVars>>

D == INSTANCE Delivery WITH moved <- {}

Listed(list) == {list[k] : k \in DOMAIN list} \ {NoPath}

InputFiles == Listed(cfg.attachments) \cup ({cfg.bodyFile} \ {NoPath})

Running == pc \notin {"returned", "crashed"}

\* Type correctness and initial state for a batch of total mails.
BatchTypeOK(total) ==
  /\ RouteTypeOK
  /\ cfg \in Configs
  /\ n \in 0..total /\ successCount \in 0..total /\ failed \subseteq 1..total
  /\ phase \in {"sending", "filing", "told", "dead"}
  /\ outcome \in {"none", "sent", "failed", "rehearsed", "rejected"}
  /\ answer \in {"none", "ok", "error", "partial", "rejected"}
  /\ acked \subseteq 1..total /\ taken \in [1..total -> Nat]
  /\ copies \in Nat /\ lost \in 0..MaxLost
  /\ vanished \subseteq Files /\ crashes \in 0..MaxCrashes

BatchInit(total) ==
  /\ RouteInit
  /\ pc = "start" /\ n = 0 /\ successCount = 0 /\ failed = {} /\ answer = "none"
  /\ phase = "told" /\ outcome = "none" /\ copies = 0
  /\ acked = {} /\ taken = [k \in 1..total |-> 0] /\ lost = 0
  /\ vanished = {} /\ crashes = 0

-----------------------------------------------------------------------------

\* Steps of the loop that change nothing but where it stands.
Proceed(label) ==
  /\ pc' = label
  /\ UNCHANGED <<routeVars, cfg, mailVars, loopVars, historyVars, faultVars>>

Return(a) ==
  /\ pc' = "returned" /\ answer' = a
  /\ UNCHANGED <<routeVars, cfg, mailVars, n, successCount, failed, historyVars, faultVars>>

\* Calls routeAttachments and goes on to the label, where its steps are taken.
RouteThen(label, j) ==
  /\ pc' = label /\ RouteCall(j)
  /\ UNCHANGED <<cfg, mailVars, loopVars, historyVars, faultVars>>

Routing(labels) ==
  /\ pc \in labels /\ RouteStep
  /\ UNCHANGED <<cfg, pc, mailVars, loopVars, historyVars, faultVars>>

\* The last call of routeAttachments, made under the label, has returned.
Routed(label) == pc = label /\ rpc = "idle"

-----------------------------------------------------------------------------

\* One call of SendEmail.

\* The next round of the loop; a mail whose files are gone is rejected.
BeginMail(files) ==
  /\ pc = "next"
  /\ n' = n + 1 /\ pc' = "mail" /\ copies' = 0
  /\ IF files \subseteq present
       THEN phase' = "sending" /\ outcome' = "none"
       ELSE phase' = "told" /\ outcome' = "rejected"
  /\ UNCHANGED <<routeVars, cfg, successCount, failed, answer, historyVars, faultVars>>

MailStep == pc = "mail" /\ UNCHANGED <<routeVars, cfg, pc, loopVars, faultVars>>

LoseReply ==
  /\ MailStep /\ ~cfg.dryRun /\ lost < MaxLost
  /\ D!LoseReply
  /\ taken' = [taken EXCEPT ![n] = @ + 1] /\ lost' = lost + 1
  /\ UNCHANGED acked

Acknowledge ==
  /\ MailStep /\ ~cfg.dryRun
  /\ D!Acknowledge
  /\ taken' = [taken EXCEPT ![n] = @ + 1] /\ acked' = acked \cup {n}
  /\ UNCHANGED lost

Rehearse == MailStep /\ cfg.dryRun /\ D!Rehearse /\ UNCHANGED historyVars

GiveUp == MailStep /\ D!GiveUp /\ UNCHANGED historyVars

Refuse == MailStep /\ D!Refuse /\ UNCHANGED historyVars

Mail == LoseReply \/ Acknowledge \/ Rehearse \/ GiveUp \/ Refuse

MailSucceeded == outcome \in {"sent", "rehearsed"}

-----------------------------------------------------------------------------

\* Another program removes an input file.
Vanish(f) ==
  /\ Running /\ rpc = "idle" /\ f \in present /\ Cardinality(vanished) < MaxVanished
  /\ present' = present \ {f} /\ vanished' = vanished \cup {f}
  /\ UNCHANGED <<out, job, at, rpc, routeRet, purged, cfg, pc, mailVars, loopVars,
                 historyVars, crashes>>

Crash ==
  /\ Running /\ crashes < MaxCrashes
  /\ pc' = "crashed" /\ crashes' = crashes + 1
  /\ IF rpc = "idle" THEN UNCHANGED routeVars ELSE RouteDies
  /\ UNCHANGED <<cfg, mailVars, loopVars, historyVars, vanished>>

\* The same command again.
Restart ==
  /\ pc = "crashed"
  /\ pc' = "start" /\ n' = 0 /\ successCount' = 0 /\ failed' = {}
  /\ phase' = "told" /\ outcome' = "none" /\ copies' = 0
  /\ IF rpc = "dead" THEN RouteRevives ELSE UNCHANGED routeVars
  /\ UNCHANGED <<cfg, answer, historyVars, faultVars>>

Environment == (\E f \in Files : Vanish(f)) \/ Crash \/ Restart

-----------------------------------------------------------------------------

\* Steps in which the machine and its disk are sound: nothing is killed, nothing
\* vanishes, and routing fails only where a file to be moved is not there.
SoundDisk ==
  /\ UNCHANGED faultVars
  /\ routeRet' = "error" => routeRet = "error" \/ (File \notin present /\ ~job.deleteAfter)
  /\ rpc = "rename" /\ File \in present => rpc' = "file"

\* Steps in which the server takes every mail it is offered, and says so.
WillingServer ==
  phase = "sending" => outcome' \in {"sent", "rehearsed"}

-----------------------------------------------------------------------------

(* No matter how often a batch routes a file (once for each recipient; for   *)
(* its own mail and again with the whole list), over kills and reruns, no    *)
(* input file is lost that neither --delete nor another program took.        *)
InputsSurvive == \A f \in Files \ (purged \cup vanished) : Kept(f)

=============================================================================
