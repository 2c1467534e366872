# mailxgo in TLA+

`mailxgo` sends one mail, or a batch of mails, from a command line, and is mostly run
by job schedulers. What such a caller depends on is not the layout of a message but the
order of a few irreversible things: a server takes a copy of the mail, files are moved or
deleted, a line is written to an audit log, an exit code is returned. Any of them may
fail, the process may be cancelled or killed between any two, and is then run again with
the same arguments. These modules model that order, step by step, together with the parts
of the program that several goroutines share.

Line numbers refer to the repository's files. The mapping from each definition to its
lines is in `PROJECT.json`, under `map`.

- [Inventory](#inventory)
- [Modules](#modules)
- [Runs](#runs)
- [Fairness](#fairness)
- [Proofs](#proofs)
- [What the code does that its documents do not say](#what-the-code-does-that-its-documents-do-not-say)
- [Not modelled](#not-modelled)
- [Plan](#plan)

## Inventory

| component | code | state it keeps | operations | modules |
| :--- | :--- | :--- | :--- | :--- |
| send orchestration | `mailer.go` `SendEmail` | `attempts`, `lastErr`, the loop variable | validate, delay, attempt, retry, archive, route, audit | `SendEmail`, `Delivery` |
| file routing | `mailer.go` `routeAttachments`, `copyFile`, `copyBuffer` | the files themselves | delete; rename; copy and remove | `RouteFiles` |
| single-attachment mode | `mailer.go` `sendSingleAttachmentMode` | `successCount`, position in the list | one `SendEmail` per attachment, routing after each | `Batch`, `SingleAttachment` |
| single-recipient mode | `mailer.go` `sendSingleRecipientMode` | success and failure lists | one `SendEmail` per recipient | `Batch`, `SingleRecipient` |
| rate limiter | both batch modes | a `time.Ticker` | wait for a tick before every mail but the first | `RateLimit` |
| state shared by callers | `mailer.go`, `smime.go` | `pkcs7Mutex` and a variable of the pkcs7 library, `logMutex` and the log file, a `sync.Pool` of encoders | encrypt, compress, append a line | `SharedState` |
| command line, precedence, exit codes | `cli.go`, `config.go`, `exitcodes.go` | the effective settings | parse, load, merge, collect, dispatch | `Cli`, `Program` |
| error classification | `mailer.go` `ClassifyError` | none | text of an error to a class | `Cli` |
| S/MIME setup and certificates | `mailer.go`, `smime.go` | none | load keys, index certificates by address, check them | `Certificates`, `Transport` |
| ESMTP SIZE probe | `smime.go` `ProbeESMTPSize` | a connection | one connection before a large message | `Transport` |
| TLS policy, fingerprints, CA pools | `crypto.go`, `mailer.go`, `diag.go` | a connection | build a `tls.Config`, connect, shake hands, upgrade | `Transport` |
| secret decryption | `crypto.go` | none | one value | refusal in `Transport` |
| diagnostics | `diag.go` | a connection | DNS, TCP, TLS and EHLO probes | `Transport`, `Program` |
| lists, paths, addresses | `util.go` | none | load and validate | `Lists`, `Program` |
| message building, templates, archive format | `mailer.go` | none | text | read points in `SendEmail` |
| OAuth2 mock server | `test/oauth2-mock` | a fixture | - | - |

**Interactions.** `main` calls `RunCLI`, which merges the settings and calls either
`RunDiagnostics` or `SendEmail` and turns the answer into an exit code. `SendEmail` hands
a batch to one of the two batch modes, and these call `SendEmail` again for each mail.
`SendEmail` calls `routeAttachments` after its retry loop, for either outcome;
single-attachment mode clears the routing options of each mail and calls
`routeAttachments` itself; single-recipient mode leaves them set, so that every mail
routes. As a library, `SendEmail` may be called from many goroutines and be given a
`Context`; these callers meet in the pkcs7 variable, the log file and the encoder pool. Up to three
connections go to one gateway in one run (the size probe, then the mail; or the diagnosis),
each with a TLS policy of its own.

**What is hard here**, and the property that makes each part correct:

- *Retries* (`mailer.go:751`). A server may take a message and the reply may be lost. No
  copy beyond those, no "sent" without a copy, the whole budget and never more than it:
  `AnswerTruth`, `CopiesAccounted`, `WholeBudget`.
- *Cancellation* (`mailer.go:738`, `:755`, `:799`). Go picks any ready branch of a select.
  No attempt after cancellation, no waiting for a timer: `NoAttemptAfterCancel`,
  `CancelPrompt`.
- *Moving files* (`mailer.go:1076`). Rename or copy and remove, with a failure or a kill at
  each system call, lists that name a file twice, and reruns: `NoFileLost`,
  `MovedIsStable`, `NilMeansDone`, `InputsSurvive`.
- *Late readers.* go-mail keeps the path of an attachment and opens it at each attempt and
  again for the archive, so routing has to come last; and it passes over a file that is gone
  since its validation, so what is missing must be another program's doing: `ReadsBeforeRouting`.
- *Kills and reruns.* `SuccessDirMeansSent`, `FiledWhenAcknowledged`, `BodyFiledLast`,
  `OneCopyEach`.
- *Batches that fail half way.* The counts told must be right, the files of the rest must
  be dealt with: `AnswerCounts`, `ReportTruth`, `FailureMovesRest`.
- *Concurrent callers.* Each call is as if it were alone (`AsIfAlone`): its own cipher, its own
  archive, whole lines in the log. All return (`AllReturn`).
- *Loops whose steps fail* (`mailer.go:757`, `:1075`, `:1206`, `:1320`). Each step leaves fewer to
  take, whatever fails and whatever it is retried for: `Advances`.
- *The exit code* is all that a scheduler sees: `CodeTells`, and `CodeOfRun` against what
  was done on the network. *Layers of settings* are merged by one list literal per setting:
  `GivenIsHeard`.
- *Recipients* come from two keys of a file or a flag, and from a list in two formats
  (`util.go:211`): `EveryoneNamed`.
- *Certificates* are chosen by address, and a later file replaces an earlier one
  (`smime.go:202`): `SealedForAll`.
- *Three connections, three policies* (`mailer.go:675`, `smime.go:400`, `diag.go:236`):
  `ChannelAsAsked`, `PassedMeansReachable`.
- *The size probe* may fail, hang, or learn nothing, before a mail that would go through:
  `SizeRefusalTrue`, `RunEnds`.
- *A wait that does not listen* (`mailer.go:1237`): `CancelCost`; *a tick that waited*:
  `TwoApart`, `MinuteBound`.

## Modules

```
         Certificates   Lists                Calls           RateLimit
                  \     /                 (as if alone)     (the ticker)
   Cli           Transport                      |
 (RunCLI)       (one call)                implemented by
       \         /                              |
         Program                           SharedState
      (a whole run)                    (what calls share)

    each joined to what it EXTENDS above it

              Delivery  <-- implemented by --  SendEmail
             (contract)                            | EXTENDS
                 | INSTANCE                        v
               Batch  ------- EXTENDS ------>  RouteFiles
              /     \
 SingleAttachment   SingleRecipient
```

A proof module `XProofs` extends `X`; a module `MCX` extends `X` with the values TLC
needs. Operators whose comment begins with *Variant* are plausible mistakes in the code;
`PROJECT.json` names the definition each replaces and the property which then fails.

**RouteFiles** is `routeAttachments` and `copyFile`, one action per system call
(`os.Remove`, `os.MkdirAll`, `os.Rename`, open, create, write and close, the final
remove), each with its failure. `present` is the set of inputs still at their own path;
`out` is what each path in a routing directory holds: nothing, a whole copy of an input, or
part of one. Keeping the two apart states the one assumption about paths: no input lies in a
routing directory. `rpc` is where the call stands. `RouteDies` and `RouteRevives` are the
kill and the rerun. Its `RouteStep` is used as it is by all callers of `routeAttachments`.

**SendEmail** is the function of that name for one message. `pc` follows its course:
`start`, `outputs` and `numbers` are the validations in their order, `build` everything up
to the delay that can only fail, `delay`, then the loop (`loop`, `dial`, `again`, `wait`),
`archive`, `route` and `routing`, `audit`. `i`, `attempts` and `lastErr` are the code's
variables; `lastErr` keeps the kinds of error the code tells apart. A call of `DialAndSend`
has three outcomes: `Accepted`, `Refused`, `ReplyLost`. `MaxAttempts` has the overflow of
`1 + Retries` and the guard on it. What is read when: the body file in `BuildMessage`,
where go-mail also looks which attachments and inline attachments are there (`parts`) and leaves off
the others without an error; the files in `parts` at each `Dial` and in `SaveEML`, unless the message
was encrypted in memory. `dials` counts the calls of `DialAndSend`; the connection of the size probe is
in `Transport`.
The environment cancels the context, takes an input away, kills the process, runs it again.

**Delivery** is the contract of one run, in four variables a caller can understand: phase,
outcome, copies taken by the server, files moved. Copies first, then the outcome, then the
files, then the answer. `SendEmail` implements it (`Implements`).

**Batch** is what the batch modes share: the loop, one mail at a time, each known by the
actions of `Delivery` instead of by those of `SendEmail`, and the faults. Where the code
looks at an outcome the model does; `acked` and `taken` are history. Its `copies` is reset
by each mail. It uses `Delivery` with no file moved: in single-attachment mode the mails have no
routing options, and `SendRefinesMail` proves that such a `SendEmail` implements just that;
in single-recipient mode the files of a mail are moved by `RouteFiles`, while it is `filing`.

**SingleAttachment** reads the body file once, sends one mail per list entry, and routes by
itself: the attachment after its mail, the whole list and the body file after a failure,
the body file after the last success. As in the code, the routing at `mailer.go:1273`
does not look at `DryRun`. **SingleRecipient** checks the limit on the whole batch, lets every mail
route, and goes on after a failure.

**RateLimit** has a clock. A `Ticker` fires every `Minute / RateLimit`; its channel holds
one tick and further ones are dropped. Time passes while mails are sent and while the loop
waits. An interval that rounds to zero makes `NewTicker` panic. The caller may cancel the
`Context` at any moment; the loop does not look at it, a mail that starts afterwards fails
(`mailer.go:760`), and that ends a batch of attachments and not one of recipients.

**SharedState** has any number of callers. `EncryptForRecipients` assigns
`pkcs7.ContentEncryptionAlgorithm` under `pkcs7Mutex` and the library reads it twice; the
log is written under `logMutex`; an encoder is taken from the pool, reset to the caller's
buffer, written, closed and put back. Each of these is its own step, and each may fail
(`EncodeFails`, `WriteFails`). **Calls** is what a caller sees of this: it encrypts, archives and
logs, each in one step and as if it were alone. `SharedState` implements it (`AsIfAlone`).

**Cli** is `RunCLI`. The value of a setting is the layer it comes from, and there is one
setting for each way in which the code combines layers: `use` (file and flag), `server` and
`port` (preset, and a built-in value for the port), `password` (environment), `retryDelay`
(a flag that always has a value), `cert` and `algorithm` (S/MIME, with and without
`smime_default_...`). After that every exit in its order, and the mapping of an error to a
code by `ClassifyError` over the kinds of word its text has. What `SendEmail` and
`RunDiagnostics` answer is left open here.

**Certificates** has what `setupSMIMEConfig` chooses and refuses, as operators: the index
by address, in which a later certificate takes the place of an earlier one; the
certificates of the recipients; the tests of a certificate for signing and for encryption.
A certificate is its subjects, whether it is in date, and its key usage. The recipients'
own index is looked up as the code does, in the list of all certificates chosen.

**Transport** is one call of `SendEmail` up to the end of one attempt, or of
`RunDiagnostics`. `stage` follows the building of the message (`message`, `smime`,
`encrypt`, `size`, `options`) and a connection (`dial`, `implicit`, `hello`, `upgrade`,
`talk`); `who` is whose connection it is. `Implicit`, `Upgrades` and `TLSConfig` are the
three policies side by side. The gateway is a record chosen at the start: how it speaks TLS,
whose certificate it has, who signed it, where it falls silent, which size it states. It may
also refuse at any step. `offered` remembers on which channel it was given the message. Deferred
calls count: a connection ends with `QUIT` and waits for its reply.

**Lists** are the list loaders of `util.go` on sequences of lines of items, and the cleaning and
validation of a list of addresses, which `SendEmail` does to what it is given. An item is what it
names or one of `blank`, `comment`, `bad`. `Hashed` are the addresses that begin with `#`:
`emailRegex` allows them, so a JSON list takes them, while a text list takes them for comments.

**Program** is a whole run: the steps of `Cli`; `CheckArguments` and `CollectLists`, which
decide what `Cli` leaves open from the command line, the configuration file and the lists;
and the call of `Transport`, whose answer becomes the exit code. It makes one call; of a
batch it knows the outcome only, and of the attempts at a mail the last (what the others
leave behind is in `SendEmail`). Every step is a step of `Cli` or of `Transport`, so that it
implements both.

## Runs

Passing runs check invariants and temporal properties over all reachable states; each
property also has a variant of the code that it rejects. Deadlock is not checked: all of
these programs end.

| run | what it shows | bounds |
| :--- | :--- | :--- |
| `route_files` | No file is lost, nil means done, a moved file is never touched again. | 2 files, 2 directories, lists of up to 2 entries (empty and repeated ones too), 2 calls with any arguments |
| `send_email` | The answer is true of the server, copies and attempts are accounted for, no file is lost or moved too early, cancellation is prompt, each step brings it nearer to its return, and it implements `Delivery`. | body file and attachment, which may also be inline; budgets of 1, 2, 3 and one that overflows; 1 kill |
| `single_attachment` | Files are filed only for acknowledged mails, the body file last, the count is right, no unexplained copy, no file lost, each step brings the batch nearer to its end, and it returns. | lists of 2 and 3 entries, empty and repeated ones too; 1 lost reply, 1 vanished file, 1 kill |
| `single_recipient` | The report is true, no unexplained copy, no file lost, each step brings the batch nearer to its end. | up to 3 recipients, one twice; the same faults |
| `rate_limit` | Two mails may follow each other at once, three never do; no minute sees more mails than its intervals allow (one above a limit that divides it, two above one that does not); a cancelled batch waits for one tick, or for one per recipient left. | a minute of 8 units, 14 units of time, 6 mails, limits 0, 1, 2, 3, 4 and 9 |
| `shared_state` | Each caller gets its own cipher and archive, whole lines in the log, and returns, all as if it were alone. | 2 callers, 2 algorithms (equal or not), 3 encoders |
| `cli` | Whole runs (`Program`): the exit code is true of the run and of what was done on the network; a given flag wins and no preset or built-in port is used where something is given; everyone named gets the mail once and nobody else; the mail is sealed for all and goes over the channel asked for; a size refusal is true; a passed diagnosis means a mail gets through; every run ends unless a probe or a diagnosis meets a silent gateway. | six sweeps, each varying one part in full: layers and requests; lists of two lines; modes, ports, pins, authorities and gateways; sizes and silences; signers and secrets; certificates of two people in files and directory |

Five more runs each check one sentence of the repository that the code does not keep
(`route_base_clash`, `delete_on_failure`, `attachment_rest`, `recipient_all`,
`smime_layers`); see below.

**Why these bounds are enough to be interesting.** Two list entries and two calls give a
repeated entry, an entry moved by an earlier call, and a call after an error. Three attempts
give a first, a middle and a last; `MaxInt` is 5, so that the overflow is at 5 and not at
2^63 - 1. One kill is enough for a rerun with everything the first run left behind;
`CopiesAccounted`, `SuccessDirMeansSent` and `InputsSurvive` of `SendEmail` are proved for
any number. A limit of 3 does not divide 8, and 9 makes the interval zero. With two callers each critical
section has someone in it and someone waiting; the encoder pool gets one encoder more than
callers, because the pool may always make a new one. `MaxLost` and `MaxVanished` limit the
environment, not the program, in the batch modes.

In `Cli` a run takes one setting off its default at a time (and `use` with it), because no list
literal mentions two settings. The sweeps of `Program` vary one part at a time for the same
reason: the parts meet only where one stage hands over to the next, and `ProgramProofs` has
no such restriction. `ProbeAbove` and `Overhead` stand for 1 MB and 2 KB; with 4 and 2, sizes
4 to 6 lie at and on both sides of the threshold of the probe and of a limit of 7.
The certificates are two good ones, an expired one, one for signing only and one for both
people.

## Fairness

Safety needs none. For `Returns`, `AllReturn` and the fair part of `Implements`:

- `SendEmail`: weak fairness of the program's own steps (`Work`) and of the two timers. Each
  wait of the code has a limit: `DialAndSend` has a timeout (`mailer.go:625`, or the default
  of go-mail), the delay and the retry wait are timers. The exception is
  `ProbeESMTPSize`, which reads without any limit (`smime.go:396`); its server is
  taken to answer here, and not in `Program`. Nothing obliges the environment: no cancellation, kill or rerun is fair.
- `SingleAttachment`: weak fairness of its steps; each `SendEmail` returns by the above.
- `Program`: weak fairness of the program's steps, `Fail` included, which is what the end of
  a time limit is. Where there is no limit (`Limited`) a silent gateway disables it, and
  `RunEnds` names just these states. That go-mail keeps the timeout it is given is assumed.
- `SharedState`: weak fairness of each caller. The Go runtime schedules each goroutine that can
  run, and a caller takes each mutex once, so that nobody waits behind an endless row.

## Proofs

All theorems hold for every value of the constants: any files, directories and lists, any
argument records, any word size, any number of crashes, callers, encoders or mails.

| module | theorems | inductive invariant |
| :--- | :--- | :--- |
| `RouteFilesProofs` | type, `NoFileLost`, `MovedIsStable`, `NilMeansDone`, `RouteAdvances` | `RouteInv`, `DoneInv`, `AtInv` |
| `SendEmailProofs` | type, seven invariants, two action properties (below); `SendRefines`, `SendRefinesMail` | `SendInv`, `DiskInv`, `BarInv` |
| `SingleAttachmentProofs` | type, `FiledWhenAcknowledged`, `BodyFiledLast`, `AnswerCounts`, `OneCopyEach`, `InputsSurvive`, `Advances` | `AttachInv` |
| `SingleRecipientProofs` | `ReportTruth`, `OneCopyEach`, `InputsSurvive`, `Advances` | `RecipientInv` |
| `RateLimitProofs` | type, `TwoApart`, `CancelCost`, `MinuteBound` and its corollary `OneAboveLimit` | `RateInv`, `SpacedInv` |
| `SharedStateProofs` | type, `CipherIsOwn`, `LinesWhole`, `ArchiveIsOwn`; `SharedRefines` | `SharedInv`, `OwnInv` |
| `TransportProofs` | `SealedForAll`, `ChannelAsAsked`, `SizeRefusalTrue`, `PassedMeansReachable` | `TransportInv` |
| `ProgramProofs` | `Cli`: type, `CodeTells`, `GivenIsHeard`; `Program` implements `Cli` and `Transport`; type, `CodeOfRun`, `EveryoneNamed`, and what is proved of the two | `CliInv`, `EffInv`, `ProgramInv`, `MailInv` |

*Routing.* `NoFileLost` alone is not inductive: a copy could be cut short by a later open.
`RouteInv` says what the code's order of calls buys: from `create` to `write` the source is
still there (`copyFile` opens it before it touches the destination), at `unlink` the
destination is whole, and a copy lies under its own base name. With **distinct base names**
(`DistinctNames`, the only assumption of these theorems, and a necessary one, see
`route_base_clash`) a step writes only to the place of the file it moves, and `KeptStep`
follows. For `NilMeansDone`, `DoneInv` adds that while no error has been met the entries behind
the current one are finished. What makes it more than a loop invariant are lists with repetitions:
a file whose removal failed (the result is discarded, `mailer.go:1108`) is copied once more, and
is unfinished between the truncation of its copy and the end of the write; if that write
fails the call no longer returns nil.

*SendEmail.* `SendInv` ties `i`, `attempts` and `lastErr` together at each label (`LoopInv`),
keeps the account of copies against lost replies and crashes (`CopiesInv`), and says what
`lastErr` means once the loop is over (`OutcomeInv`). From it: `AnswerTruth`,
`CopiesAccounted`, `WholeBudget`, `NoAttemptAfterCancel`. That the state is a routing state
carries `RouteInv` over, and with it `InputsSurvive`. `DiskInv` adds what is on disk while routing has
not begun, which gives `ReadsBeforeRouting`, `Inert` and `SuccessDirMeansSent`.
`SendRefines` proves the safety part of `Implements`: initial states map to initial states
and every step to a step of `Delivery` or a stutter. `SendRefinesMail` does so for the mails of a
batch (`Unrouted`: no routing options), where the files stay where they are.

*Ends.* Liveness is out of the prover's reach, but the half of it that depends on the code is
a safety property. `RoutingLeft` and `StepsLeft` are numbers which every step of the code (and
each timer) makes smaller, and which nothing the world does makes larger; only a rerun begins
anew. What is left to fairness is that the code goes on taking steps. For a routing call the
number falls with the label and the place in the list (`AtInv`: the place is at most one past its
end; `RouteAdvances`, which no run checks, is the form the others use); for `SendEmail` with
label and attempt, which needs the loop variable to be within the budget (`LoopInv`) and the
budget to be at least 1, overflow or not; for a batch with the number of the mail and its phase,
each mail being worth more than all the steps it can take. The number of steps of
single-recipient mode is a product, since every mail routes all the files (`OneMailLess`).

*Single-attachment mode.* The properties speak of the end of the batch or of what was filed, so
`AttachInv` says how each place of the loop is reached: the count against the number of the
mail (`Tally`), the acknowledgements the count stands for (`AckInv`), the one copy of a mail
that needs no lost reply and no kill to explain it (`TakenInv`: a kill takes that credit away and
adds one of its own), and whose files the routing call under way was given (`JobInv`).
`FiledInv` follows from `JobInv` and from what one step of routing can write (`RouteStepWrites`):
a call for a success names the attachment just acknowledged or, after the last, the body file. A
success directory, where there is one, has to differ from the error directory (`OwnSuccessDir`), as
the properties themselves say; for deletion nothing is assumed.

*Single-recipient mode.* `RecipientInv` keeps the books of the loop: every mail begun is counted,
noted as failed or under way (`Tally`); those not noted have been acknowledged, and without a
kill those noted have not (`AckInv`); copies are accounted for as above (`TakenInv`). It keeps the
routing of a mail apart from the rest (`RpcInv`), so that the step lemma of routing carries
`RouteInv` over, and with it `InputsSurvive`, under `DistinctNames`.

*Rate limiter.* The tick in the channel has a time it fell due; `RateInv` places it relative
to the starts already made, and the last start relative to the next tick. `TwoApart` follows by comparing the
last two starts and the tick between them, `CancelCost` by counting what is still due.
`MinuteBound` needs all the starts: `SpacedInv` says how many intervals lie at least between each
start and each later one, the next tick, and the tick in the channel. The first interval may
be empty, as the tick waiting for the second mail can be as old as the mail was slow: this is the
one above the limit. `FewInAMinute` then counts the starts in a minute from the least of them. With
n starts in it, n - 2 whole intervals lie between them. `OneAboveLimit` is what this means for a
limit that divides the minute.

*Command line.* `CliInv` says that nothing was done before the exit. For `GivenIsHeard`, `EffInv`
says that from `Resolve` on the settings are those of `Effective`, and `EffectiveHeard` finds the
layer that is heard for each form of list literal.

*Transport.* What holds at the end of a connection was decided at its beginning, so
`TransportInv` says for each stage how it was reached: at `talk` a channel is encrypted and
checked because the policy was `Implicit`, or because it `Upgrades`, or is clear because
neither holds (`ConnInv`); from `encrypt` on every recipient has a certificate, from the stage
after it the message is sealed for them (`SealInv`); who was answered, and how (`AnswerInv`).
`IndexCovers` is the lemma about certificates: who is in the index is a subject of one of them.
The assumptions are those on the constants (`CertAssumption`, `TransportAssumption`).

*Program.* `StepIsCliStep` and `StepIsTransportStep` are the two simulations, by which the
theorems of both carry over. `CodeOfRun` relates the two: `PhaseInv` says that there is no
call before the diagnosis or the dispatch and none under way at the exit.

*Lists and recipients.* `EveryoneNamed` counts how often a name stands in a file and in the mail.
The provers cannot instantiate an induction theorem that takes an operator, so the lemmas about
lists use induction over a *set* of numbers (`SetInduction`, from the least element of its
complement, `LeastNatural`). The recursive function inside `FlattenSeq` is shown to exist (`IsFlat` and what
follows), then `FlattenTimes` adds up the places of a name over the lines and `WithoutFacts` says what
dropping blanks and comments keeps. `MailInv` says that the mail sent is the one collected, and
that all through the call its recipients are those named, cleaned (`Addressed`). It rests on
`FilesAssumption` and `TransportAssumption`, by which a name is no kind of item.

*Shared state.* Three mutual-exclusion arguments: who is at a label of a critical section
owns its mutex; an idle encoder is held by nobody and a held one has its holder as target.
`SharedRefines` asks more: that the steps of a caller, taken together, are one. Each of the
three things takes effect at one of them - the unlock, the return of the encoder to the pool,
the last write - and all other steps stutter. `OwnInv` says what has been made by then: which mode
and key were read, and that the archive is empty until it is written and never begun twice. A line begun
is not in the log yet (`logBar`); that it is the last of the file comes from `SharedInv`. `CipherIsOwn`,
`LinesWhole` and `ArchiveIsOwn` say parts of this state by state; they are proved on their own,
and the run leaves them to `AsIfAlone`.

*Only model-checked:* liveness (`Returns`, `AllReturn`, the fair part of `Implements`,
`RunEnds`) and `CancelPrompt`, which speaks of `ENABLED`. Every
other property of a passing run is proved. The other way round, some theorems state what no run
checks, because the proof leaves a run little to add: the type invariants of single-attachment
mode and of `Program`, `RouteAdvances`, and the three invariants of shared state.

## What the code does that its documents do not say

Shown by a run:

1. **Two inputs with one base name** (`route_base_clash`). The destination is directory plus
   base name and `os.Rename` replaces: of `/x/report.pdf` and `/y/report.pdf` one survives
   (`mailer.go:1101`, against `mailer.go:185`).
2. **`--delete` after a failure** (`delete_on_failure`). `README.md:140` says "after successful
   send"; `mailer.go:1081` does not look at the outcome.
3. **The rest of a failed batch** (`attachment_rest`). "Failed - route all attachments to
   error path" (`mailer.go:1244`), but the routing is given the whole list and stops at
   the first file already moved, so the failed one and those after it stay.
4. **Only the first recipient is served** (`recipient_all`). With routing or `--delete` the
   first mail takes the files from all others.
5. **The order of S/MIME settings** (`smime_layers`). "CLI > config > default fallback"
   (`cli.go:668`); the list literals have the reverse order.

Seen while modelling, and modelled as the code has them:

- A dry run in single-attachment mode moves or deletes the attachments (`mailer.go:1273`).
- A dry run makes no attempt: it leaves the loop once the client object exists (`mailer.go:773`),
  against "connect and authenticate" (`mailer.go:772`; also `mailer.go:166` and "connectivity",
  `README.md:174`), and still writes a SUCCESS line. The one connection it may make is the size
  probe of a large encrypted message (`mailer.go:609`). `Inert` says only that it leaves nothing
  behind, which holds on either reading.
- An attachment that is gone between its validation (`mailer.go:271`) and the building of the
  message (`mailer.go:519`) is left off, and the mail goes out without it as a success;
  `AttachFile` returns no error.
- A minute may see one mail more than `--rate-limit` (`README.md:171`), and two more where the limit
  does not divide it: see `MinuteBound`.
- The retry loop repeats after any error, not only "dial failure" (`README.md:167`), and
  waits a constant time, not exponentially longer (`ARCHITECTURE.md:84`).
- `--max-recipients` counts the whole batch in single-recipient mode ("per email",
  `README.md:172`).
- `retry_delay`, `timeout` and `auth_type` of the configuration file never win, as their
  flags have defaults that are not empty and so always come last (`cli.go:395`). `Effective` has it so
  for `retryDelay`; `GivenIsHeard` says nothing of a default against a file.
- `ARCHITECTURE.md:34` places the file above the environment; the code (`Effective`) does the
  reverse. `GivenIsHeard` does not rank the two.
- A missing attachment exits with 8, not 4 (`docs/DESIGN.md:74`). A single-recipient batch
  that failed in part exits with 8 whatever its mails failed of, a single-attachment batch
  with the class of the mail it failed at.
- `--template` alone does not satisfy the check of required arguments (`cli.go:524`).
- "On failure: stops immediately" (`mailer.go:1302`): single-recipient mode goes on with the
  next recipient (`mailer.go:1347`). The model does, too; `ReportTruth` speaks of those tried and
  holds on either reading.
- On port 465 in the modes `none` and `ignore-trust` a diagnosis and the probe speak TLS at once and a mail
  does not (`diag.go:236`, `mailer.go:675`). A diagnosis passes where a gateway offers no
  STARTTLS, at which a mail fails, and loads no authority in mode `none`, which a mail does.
  These are the exceptions in `PassedMeansReachable`.
- "All network dials inherit context timeouts" (`docs/DESIGN.md:92`): the probe has none, and
  a diagnosis none after its dial (`smime.go:406`, `diag.go:253`).
- The probe ignores pin and private authority, and does not use STARTTLS (`smime.go:401`); its
  failure is passed over (`mailer.go:609`).
- The size estimate leaves out that base64 is a third longer (`mailer.go:611`), so that
  some messages above the limit are sent nevertheless (against `docs/SMIME.md:192`).
- `--diag` gets none of the S/MIME flags from the command line (`cli.go:504`, against
  `docs/SMIME.md:163`).
- BCC recipients get an encrypted message without a certificate of theirs (`mailer.go:1456`).
- An encrypted message has no Reply-To, custom headers, importance or receipt (`mailer.go:586`).
- A pinned fingerprint takes the place of the chain, a private authority given or not
  (`crypto.go:225`).
- Text lists are split at commas, JSON lists are not; a wrong address ends the run with 4 in a
  JSON list and with 8 in a text list; the variables of a JSON list are dropped (`cli.go:575`).
- `3des-cbc` selects DES-CBC (`smime.go:317`).
- A log line whose write failed has no end, and the next caller's line goes on where it stopped: the
  error is discarded (`mailer.go:912`). `LinesWhole` and `Calls` allow it.
- A message refused before the loop prints nothing under `--json-output`, and is not logged.

## Not modelled

- **Text**: MIME layout, templates, syntax of addresses, paths and fingerprints, wording of
  log lines and of usage. Such a step succeeds or fails, and an item is what it names or `bad`.
- **Decoding and cryptography**: PEM, PKCS#12, AES-GCM, signatures. A file can be loaded or
  not, a secret decrypted or not. The *use* of the cipher variable is in `SharedState`.
- **The name in a certificate.** A certificate of a trusted issuer is taken to be made out to the
  host that was dialled, so that `Accepts` lets through more than the chain check does.
- **Authentication**: part of the conversation with the gateway, which may refuse.
- **The content of a diagnosis**: DNS, capabilities, certificates and S/MIME warnings decide
  nothing.
- **The retries of a mail in `Transport`**, and the mails of a batch in `Program`: they are in
  `SendEmail` and the batch modules.
- **Context in the routing of a batch**: `RateLimit` has the cancelled batch, without files.
- **Both batch modes together.** Single-recipient mode then calls single-attachment mode for
  each recipient.
- **Headers and lists** among the settings; other settings are merged like one of the seven.
- **go-mail, pkcs7 and the Go runtime** are known by what the code relies on: outcomes of
  `DialAndSend`, two reads of a variable, a ticker with one place, a pool that may make anew.

## Plan

Done, in the order of importance: routing, `SendEmail` and its contract, the batch modes, the
rate limiter with cancellation, shared state, the command line, and the whole run with lists,
certificates, TLS, probe and diagnosis; proofs of every safety property but `CancelPrompt`; four
refinements (`SendEmail` and the mails of a batch of `Delivery`, `SharedState` of `Calls`,
`Program` of `Cli` and `Transport`) and the variants by which calls and batches end.

Next:

1. Both batch modes together, and a batch in `Program` as a sequence of calls of `Transport`.
2. Loading of CA files and directories, and of PKCS#12 bundles with their intermediates.
