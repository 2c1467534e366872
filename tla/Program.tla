--------------------------------- MODULE Program ---------------------------------
(***************************************************************************)
(* One run of mailxgo: RunCLI (Cli) with the recipients and attachments it   *)
(* collects (Lists), and the mail it sends or the diagnosis it makes         *)
(* (Transport).  Where Cli leaves open what its callees answer, here they    *)
(* are called.  Of a batch only the outcome is known, and of the attempts at *)
(* one mail the last.                                                        *)
(***************************************************************************)
EXTENDS Cli, Transport

CONSTANTS Files,       \* the names of files
          Sweeps       \* sets of command lines with their inputs and the gateway they meet

\* A name is none of the kinds of item.
ASSUME FilesAssumption ==
  /\ Files \cap ({"blank", "bad", "comment"} \cup Hashed) = {}
  /\ Hashed \subseteq Addresses

\* A list that a flag names, or none.
ListOf(S) ==
  {list \in [format : Formats, shape : Shapes,
             lines : Seq(Seq(S \cup {"blank", "comment", "bad"}) \ {<<>>})] :
     /\ list.format = "none" => list = NoList
     /\ list.format = "text" => list.shape \in {"lines", "missing"}}

\* What names recipients and attachments, and whether they are sent one by one.  The
\* directory is LoadError if it cannot be read.
Input == [to : [{"flag", "ToEmail", "To"} -> Seq(Addresses \cup {"blank", "bad"})],
          list : ListOf(Addresses),
          files : Seq(Files \cup {"blank", "bad"}), fileList : ListOf(Files),
          dir : Seq(Files) \cup {LoadError},
          batch : BOOLEAN]

ASSUME SweepAssumption ==
  \A sweep \in Sweeps : \A s \in sweep :
    /\ s.cmd \in Commands /\ s.call \in Call /\ s.gateway \in Gateway
    /\ s.input \in Input

VARIABLES input,
          toEmails, attachmentPaths  \* as RunCLI collects them

inputVars == <<input, toEmails, attachmentPaths>>

programVars == <<vars, transportVars, inputVars>>

ProgramTypeOK ==
  /\ TypeOK /\ TransportTypeOK
  /\ input \in Input
  /\ toEmails \in Seq(Addresses \cup {"blank", "bad"})
  /\ attachmentPaths \in Seq(Files \cup {"blank", "bad"})

ProgramInit ==
  \E sweep \in Sweeps : \E s \in sweep :
    /\ cmd = s.cmd /\ call = s.call /\ gateway = s.gateway /\ input = s.input
    /\ toEmails = <<>> /\ attachmentPaths = <<>>
    /\ Init /\ TransportInit

-----------------------------------------------------------------------------

\* RunCLI up to the use of its parameters.
CliStep ==
  /\ \/ ParseFlags \/ PrintVersion \/ FindConfig \/ LoadConfig \/ Resolve
     \/ CheckFingerprint \/ SkipDiag \/ DiagNeedsServer
  /\ UNCHANGED <<transportVars, inputVars>>

\* Both keys of the configuration file, unless a flag is given.
ToItems ==
  IF input.to["flag"] # <<>> THEN input.to["flag"]
  ELSE IF file = "none" THEN <<>> ELSE input.to["ToEmail"] \o input.to["To"]

CheckArguments ==
  /\ CheckRequired
  /\ pc' = "lists" <=> /\ cmd.complete /\ eff["server"] # "none"
                       /\ ToItems # <<>> \/ input.list.format # "none"
  /\ UNCHANGED <<transportVars, inputVars>>

\* The first of the three that cannot be read ends the run.
CollectLists ==
  LET files  == LoadList(input.fileList, FALSE)
      listed == LoadList(input.list, TRUE)
  IN  /\ LoadLists
      /\ pc' = "exited" <=> LoadError \in {files, input.dir, listed}
      /\ IF pc' = "exited"
           THEN UNCHANGED <<toEmails, attachmentPaths>>
           ELSE /\ attachmentPaths' = input.files \o files \o input.dir
                /\ toEmails' = ToItems \o listed
      /\ UNCHANGED <<transportVars, input>>

CallRunDiagnostics ==
  /\ pc = "diag" /\ DiagAsked /\ eff["server"] # "none"
  /\ Begin([call EXCEPT !.kind = "diag", !.to = <<>>])
  /\ UNCHANGED <<vars, inputVars>>

CallSendEmail ==
  /\ pc = "send" /\ ~input.batch
  /\ Begin([call EXCEPT !.kind = "send", !.to = toEmails])
  /\ UNCHANGED <<vars, inputVars>>

\* SendEmail and RunDiagnostics at work.
Work == TransportStep /\ UNCHANGED <<vars, inputVars>>

DiagReturns ==
  /\ stage = "idle" /\ result # "none"
  /\ RunDiag /\ (code' = 0 <=> result = "passed")
  /\ UNCHANGED <<transportVars, inputVars>>

\* Variant: what was refused before it was sent has no class, and is no failure.
OnlyFailuresCount ==
  /\ pc = "send" /\ stage = "idle" /\ result # "none"
  /\ IF result = "failed" THEN Failed ELSE Sent
  /\ UNCHANGED <<transportVars, inputVars>>

MailReturns ==
  /\ pc = "send" /\ stage = "idle" /\ result # "none"
  /\ CASE result \in {"sent", "rehearsed"}  -> Sent
       [] result \in {"rejected", "tooBig"} -> NotClassified /\ mail' = "rejected"
       [] result = "failed"                 -> Failed
  /\ UNCHANGED <<transportVars, inputVars>>

BatchReturns ==
  /\ input.batch /\ (Sent \/ NotClassified \/ Failed)
  /\ UNCHANGED <<transportVars, inputVars>>

ProgramStep ==
  \/ CliStep \/ CheckArguments \/ CollectLists \/ CallRunDiagnostics \/ CallSendEmail
  \/ Work \/ DiagReturns \/ MailReturns \/ BatchReturns

ProgramSpec ==
  ProgramInit /\ [][ProgramStep]_programVars /\ WF_programVars(ProgramStep)

-----------------------------------------------------------------------------

\* How often an item stands among some.
Times(x, items) == Cardinality({k \in DOMAIN items : items[k] = x})

\* The places of a list file that name x: in a text file not those commented out, alone
\* or with their line.
NamedIn(x, list) ==
  {place \in UNION {{l} \X DOMAIN list.lines[l] : l \in DOMAIN list.lines} :
     LET line == list.lines[place[1]]
     IN  line[place[2]] = x /\ (list.format = "text" => Comments \cap {line[1], x} = {})}

(* Who is named gets the mail, once for each time he is named on the command *)
(* line (or, without one, in either key of the configuration file) and in    *)
(* the list, and nobody else does; and each file is attached once for each   *)
(* time it is named: who is commented out is not, and a text list takes an   *)
(* address that begins with # for a comment.  A list that cannot be read, or *)
(* a wrong address among the right ones, is never passed over: the run does  *)
(* not send.                                                                 *)
EveryoneNamed ==
  who = "mail" =>
    /\ "bad" \notin Among(call.to)
    /\ \A a \in Addresses :
         Times(a, call.to) =
           Cardinality(NamedIn(a, input.list)) +
           IF input.to["flag"] # <<>> THEN Times(a, input.to["flag"])
           ELSE IF file = "none" THEN 0
           ELSE Times(a, input.to["ToEmail"]) + Times(a, input.to["To"])
    /\ \A f \in Files :
         Times(f, attachmentPaths) =
           Times(f, input.files) + Cardinality(NamedIn(f, input.fileList)) + Times(f, input.dir)

(* The exit code against what was done on the network, for one mail or a     *)
(* diagnosis: zero means that the gateway was given the message, or that a   *)
(* rehearsal or a diagnosis was asked for and went well; 2 to 4 that nobody  *)
(* was connected to; a class, that it was the mail itself that failed and    *)
(* not the probe before it (or, of a rehearsal, the making of its client);   *)
(* and a message that may have arrived is never reported as a wrong command  *)
(* line, file or host.                                                       *)
CodeOfRun ==
  pc = "exited" /\ ~input.batch =>
    /\ code = 0 => \/ cmd.version \/ result = "passed"
                   \/ offered # "no" \/ (call.dryRun /\ who # "mail")
    /\ code \in {2, 3, 4} => who = "nobody"
    /\ code \in {6, 7, 9} => who = "mail" \/ call.dryRun
    /\ offered # "no" => code \notin {2, 3, 4, 5}

(* Every run ends, unless a gateway falls silent on a size probe or a        *)
(* diagnosis, which alone wait without a time limit.                         *)
RunEnds == <>(pc = "exited" \/ (who \in {"probe", "diag"} /\ Silence))

=============================================================================
