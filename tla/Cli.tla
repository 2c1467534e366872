---------------------------------- MODULE Cli ----------------------------------
(***************************************************************************)
(* RunCLI of cli.go: flags, configuration file, environment and provider     *)
(* preset become one set of parameters, and what SendEmail or RunDiagnostics *)
(* answers becomes the exit code.                                            *)
(*                                                                          *)
(* There is one setting for each way the code combines the layers; the value *)
(* of a setting is the layer it comes from.                                  *)
(***************************************************************************)
EXTENDS Naturals, Sequences

CONSTANT Commands   \* the command lines, files and environments of interest

Settings == {"use", "server", "port", "password", "retryDelay", "cert", "algorithm"}

\* "fallback" is the smime_default_... of the file.
Layers == {"fallback", "config", "env", "flag"}

Sources == Layers \cup {"none", "preset", "builtin"}

\* The layers that can hold a setting.
LayersOf(s) ==
  CASE s = "password" -> {"config", "env", "flag"}
    [] s = "cert"     -> {"fallback", "config", "flag"}
    [] OTHER          -> {"config", "flag"}

Command == [given    : {g \in [Settings -> SUBSET Layers] : \A s \in Settings : g[s] \subseteq LayersOf(s)},
            known    : SUBSET Layers,   \* the layers that name a known preset
            files    : SUBSET {"named", "default", "fallback"},  \* config files there are
            named    : BOOLEAN,         \* --config
            version  : BOOLEAN,
            diag     : SUBSET {"config", "flag"},  \* who asks for diagnostics
            complete : BOOLEAN]         \* sender, subject and body are given

ASSUME CommandAssumption == Commands \subseteq Command

VARIABLES cmd,
          pc,
          file,    \* the configuration file, if any
          eff,     \* the layer each setting was taken from
          report,  \* what RunDiagnostics found
          mail,    \* what SendEmail answered
          words,   \* the kinds of word in the text of its error
          code     \* the exit code

vars == <<cmd, pc, file, eff, report, mail, words, code>>

NoCode == 99

Words == {"tls", "auth", "connection"}

TypeOK ==
  /\ cmd \in Commands
  /\ pc \in {"parse", "version", "config", "load", "resolve", "fingerprint", "diag",
             "required", "lists", "send", "exited"}
  /\ file \in {"none", "named", "default", "fallback"}
  /\ eff \in [Settings -> Sources]
  /\ report \in {"none", "passed", "failed"}
  /\ mail \in {"none", "sent", "rejected", "failed", "partial"}
  /\ words \in SUBSET Words
  /\ code \in {0, 2, 3, 4, 5, 6, 7, 8, 9, NoCode}

Init ==
  /\ cmd \in Commands
  /\ pc = "parse" /\ file = "none" /\ eff = [s \in Settings |-> "none"]
  /\ report = "none" /\ mail = "none" /\ words = {} /\ code = NoCode

-----------------------------------------------------------------------------

Proceed(label) ==
  /\ pc' = label
  /\ UNCHANGED <<cmd, file, eff, report, mail, words, code>>

Exit(c) ==
  /\ pc' = "exited" /\ code' = c
  /\ UNCHANGED <<cmd, file, eff, report, mail, words>>

ParseFlags == pc = "parse" /\ (Proceed("version") \/ Exit(2))

PrintVersion == pc = "version" /\ IF cmd.version THEN Exit(0) ELSE Proceed("config")

\* The named file, or the first of the two others that is there.
FindConfig ==
  /\ pc = "config" /\ pc' = "load"
  /\ file' = IF cmd.named THEN "named"
             ELSE IF "default" \in cmd.files THEN "default"
             ELSE IF "fallback" \in cmd.files THEN "fallback" ELSE "none"
  /\ UNCHANGED <<cmd, eff, report, mail, words, code>>

\* A file that is not there, or cannot be read or decoded, ends the run.
LoadConfig ==
  /\ pc = "load"
  /\ \/ file \in cmd.files \cup {"none"} /\ Proceed("resolve")
     \/ file # "none" /\ Exit(3)

-----------------------------------------------------------------------------

\* Resolution of the layers.

\* What a layer holds for a setting.
From(layer, s) ==
  IF layer \in cmd.given[s] /\ (layer \in {"config", "fallback"} => file # "none")
    THEN layer ELSE "none"

\* Flags whose default is not empty have a value whether given or not.
Flag(s) ==
  IF s \in {"retryDelay", "algorithm"} /\ "flag" \notin cmd.given[s]
    THEN "builtin" ELSE From("flag", s)

\* priorityString and priorityInt: the last element that is not empty.
Priority(list) ==
  LET set == {k \in DOMAIN list : list[k] # "none"}
  IN  IF set = {} THEN "none" ELSE list[CHOOSE k \in set : \A other \in set : other <= k]

Use == Priority(<<From("config", "use"), From("flag", "use")>>)

\* Variant: the preset asks for the flag alone.
PresetOverConfig(s) ==
  IF Use \in cmd.known /\ Flag(s) = "none" THEN "preset" ELSE Flag(s)

\* A preset stands in for a flag if neither flag nor file gives the setting.
FlagOrPreset(s) ==
  IF Use \in cmd.known /\ Flag(s) = "none" /\ From("config", s) = "none"
    THEN "preset" ELSE Flag(s)

OrBuiltin(source) == IF source = "none" THEN "builtin" ELSE source

Effective ==
  [s \in Settings |->
    CASE s = "use"        -> Use
      [] s = "server"     -> Priority(<<From("config", s), FlagOrPreset(s)>>)
      [] s = "port"       -> OrBuiltin(Priority(<<From("config", s), FlagOrPreset(s)>>))
      [] s = "password"   -> Priority(<<From("config", s), From("env", s), Flag(s)>>)
      [] s = "retryDelay" -> Priority(<<From("config", s), Flag(s)>>)
      [] s = "cert"       -> Priority(<<Flag(s), From("config", s), From("fallback", s)>>)
      [] OTHER            -> Priority(<<Flag(s), From("config", s)>>)]

Resolve ==
  /\ pc = "resolve" /\ pc' = "fingerprint"
  /\ eff' = Effective
  /\ UNCHANGED <<cmd, file, report, mail, words, code>>

\* A malformed --tls-fingerprint.
CheckFingerprint == pc = "fingerprint" /\ (Proceed("diag") \/ Exit(2))

-----------------------------------------------------------------------------

DiagAsked == "flag" \in cmd.diag \/ ("config" \in cmd.diag /\ file # "none")

SkipDiag == pc = "diag" /\ ~DiagAsked /\ Proceed("required")

DiagNeedsServer == pc = "diag" /\ DiagAsked /\ eff["server"] = "none" /\ Exit(2)

\* Every error of RunDiagnostics is reported as one of DNS.
RunDiag ==
  /\ pc = "diag" /\ DiagAsked /\ eff["server"] # "none"
  /\ pc' = "exited"
  /\ \/ report' = "passed" /\ code' = 0
     \/ report' = "failed" /\ code' = 5
  /\ UNCHANGED <<cmd, file, eff, mail, words>>

\* The recipients may be missing, too.
CheckRequired ==
  /\ pc = "required"
  /\ \/ cmd.complete /\ eff["server"] # "none" /\ Proceed("lists")
     \/ Exit(2)

\* The attachment list, the attachment directory and the recipient list.
LoadLists == pc = "lists" /\ (Proceed("send") \/ Exit(4))

\* The first class whose words are in the text of the error.
ClassifyError(text) ==
  IF "tls" \in text THEN "tls"
  ELSE IF "auth" \in text THEN "auth"
  ELSE IF "connection" \in text THEN "connection" ELSE "send"

ErrorCode(type) ==
  CASE type = "tls" -> 6 [] type = "auth" -> 7 [] type = "connection" -> 9 [] OTHER -> 8

Dispatch == pc = "send" /\ pc' = "exited" /\ UNCHANGED <<cmd, file, eff, report>>

Sent == Dispatch /\ mail' = "sent" /\ words' = {} /\ code' = 0

\* Variant: a batch that returns a result counts as done.
PartialIsDone ==
  /\ Dispatch /\ words' = {}
  /\ \/ mail' = "rejected" /\ code' = 8
     \/ mail' = "partial" /\ code' = 0

\* An error without a result, or with the result of a batch, which has no type.
NotClassified == Dispatch /\ mail' \in {"rejected", "partial"} /\ words' = {} /\ code' = 8

Failed ==
  /\ Dispatch /\ mail' = "failed" /\ words' \in SUBSET Words
  /\ code' = ErrorCode(ClassifyError(words'))

Next == \/ ParseFlags \/ PrintVersion \/ FindConfig \/ LoadConfig \/ Resolve
        \/ CheckFingerprint \/ SkipDiag \/ DiagNeedsServer \/ RunDiag
        \/ CheckRequired \/ LoadLists \/ Sent \/ NotClassified \/ Failed

Spec == Init /\ [][Next]_vars

-----------------------------------------------------------------------------

(* The exit code is true of the run, as a scheduler that acts on it needs:   *)
(* zero means that what was asked for was done, 2 to 4 that neither server   *)
(* nor gateway was touched, a code of TLS, authentication or connection that *)
(* a mail failed on its last attempt, not that it was refused before.        *)
CodeTells ==
  pc = "exited" =>
    /\ code = 0 => report = "passed" \/ mail = "sent" \/ cmd.version
    /\ report = "passed" \/ mail = "sent" => code = 0
    /\ code \in {2, 3, 4} => report = "none" /\ mail = "none"
    /\ code = 5 <=> report = "failed"
    /\ code \in {6, 7, 9} => mail = "failed"

\* Setting s is taken from what the layers say.
Heard(s) ==
  /\ "flag" \in cmd.given[s] => eff[s] = "flag"
  /\ eff[s] \in Layers => From(eff[s], s) # "none"
  /\ eff[s] \in {"none", "preset"} \/ (s = "port" /\ eff[s] = "builtin") =>
       \A layer \in cmd.given[s] : From(layer, s) = "none"

(* For what is not S/MIME, a flag that is given wins, whatever else is given;  *)
(* a preset, or the built-in port, is used only where nothing gives the        *)
(* setting, though the preset goes into the list in the place of the flag; and *)
(* nothing that is given goes unheard for want of anything better.             *)
GivenIsHeard ==
  pc \notin {"parse", "version", "config", "load", "resolve", "exited"} =>
    \A s \in Settings \ {"cert", "algorithm"} : Heard(s)

-----------------------------------------------------------------------------

Rank(layer) ==
  CASE layer = "fallback" -> 1 [] layer = "config" -> 2 [] layer = "flag" -> 3 [] OTHER -> 0

\* No layer above the one in effect gives the setting.
Topmost(s) == \A layer \in cmd.given[s] : From(layer, s) # "none" => Rank(layer) <= Rank(eff[s])

(* The comment on the S/MIME parameters: "CLI > config > default fallback".  *)
SMIMELayers == pc = "send" => Topmost("cert")

=============================================================================
