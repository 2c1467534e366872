------------------------------ MODULE ProgramProofs ------------------------------
(***************************************************************************)
(* RunCLI by itself; then the lists, whose facts need induction; then whole  *)
(* runs.  A run of the program is a run of Cli and a run of Transport, so    *)
(* that what is proved of either holds of it; its exit code is true of what  *)
(* was done on the network, and its mail goes to those it was to go to.      *)
(***************************************************************************)
EXTENDS Program, TransportProofs, FiniteSetTheorems, SequenceTheorems

\* Until it exits the program has neither sent nor probed, and has no code yet;
\* once it has exited the code tells.
CliInv ==
  /\ pc # "exited" => report = "none" /\ mail = "none" /\ code = NoCode
  /\ CodeTells

LEMMA CliInitInv == Init => CliInv
BY DEF Init, CliInv, CodeTells

(* Leaving early: nothing was done, and the code is none of those of a mail  *)
(* or of a probe.                                                            *)
LEMMA EarlyExit ==
  ASSUME CliInv, pc # "exited", NEW c \in {0, 2, 3, 4}, Exit(c), c = 0 => cmd.version
  PROVE  CliInv'
BY DEF CliInv, CodeTells, Exit

LEMMA GoesOn ==
  ASSUME CliInv, pc # "exited", NEW label, label # "exited", Proceed(label)
  PROVE  CliInv'
BY DEF CliInv, CodeTells, Proceed

LEMMA CliStepInv == CliInv /\ [Next]_vars => CliInv'
<1> SUFFICES ASSUME CliInv, [Next]_vars PROVE CliInv'
  OBVIOUS
<1>1. CASE ParseFlags
  BY <1>1, EarlyExit, GoesOn DEF ParseFlags
<1>2. CASE PrintVersion
  BY <1>2, EarlyExit, GoesOn DEF PrintVersion
<1>3. CASE FindConfig
  BY <1>3 DEF FindConfig, CliInv, CodeTells
<1>4. CASE LoadConfig
  BY <1>4, EarlyExit, GoesOn DEF LoadConfig
<1>5. CASE Resolve
  BY <1>5 DEF Resolve, CliInv, CodeTells
<1>6. CASE CheckFingerprint
  BY <1>6, EarlyExit, GoesOn DEF CheckFingerprint
<1>7. CASE SkipDiag
  BY <1>7, GoesOn DEF SkipDiag
<1>8. CASE DiagNeedsServer
  BY <1>8, EarlyExit DEF DiagNeedsServer
<1>9. CASE RunDiag
  BY <1>9 DEF RunDiag, CliInv, CodeTells
<1>10. CASE CheckRequired
  BY <1>10, EarlyExit, GoesOn DEF CheckRequired
<1>11. CASE LoadLists
  BY <1>11, EarlyExit, GoesOn DEF LoadLists
<1>12. CASE Sent
  BY <1>12 DEF Sent, Dispatch, CliInv, CodeTells
<1>13. CASE NotClassified
  BY <1>13 DEF NotClassified, Dispatch, CliInv, CodeTells
<1>14. CASE Failed
  <2>1. ErrorCode(ClassifyError(words')) \in {6, 7, 8, 9}
    BY DEF ErrorCode
  <2> QED BY <1>14, <2>1 DEF Failed, Dispatch, CliInv, CodeTells
<1>15. CASE UNCHANGED vars
  BY <1>15 DEF vars, CliInv, CodeTells
<1> QED BY <1>1, <1>2, <1>3, <1>4, <1>5, <1>6, <1>7, <1>8, <1>9, <1>10, <1>11, <1>12, <1>13,
           <1>14, <1>15 DEF Next

(* Whatever the command line and the files, the exit code is true of the run. *)
THEOREM CliCodeTells == Spec => []CodeTells
<1>1. CliInv => CodeTells
  BY DEF CliInv
<1> QED BY <1>1, CliInitInv, CliStepInv, PTL DEF Spec

-----------------------------------------------------------------------------

\* priorityString on the two and three elements RunCLI gives it.
LEMMA PriorityOfTwo ==
  \A u, v : Priority(<<u, v>>) = IF v # "none" THEN v ELSE u
<1> TAKE u, v
<1> DEFINE list == <<u, v>>
           set == {k \in DOMAIN list : list[k] # "none"}
           last == CHOOSE k \in set : \A other \in set : other <= k
<1>1. DOMAIN list = 1..2 /\ list[1] = u /\ list[2] = v
  OBVIOUS
<1>2. Priority(list) = IF set = {} THEN "none" ELSE list[last]
  BY Zenon DEF Priority
<1>3. CASE v # "none"
  <2>1. 2 \in set /\ \A other \in set : other <= 2
    BY <1>1, <1>3
  <2>2. last \in set /\ \A other \in set : other <= last
    BY <2>1
  <2>3. last = 2
    BY <1>1, <2>1, <2>2
  <2> QED BY <1>1, <1>2, <1>3, <2>1, <2>3
<1>4. CASE v = "none" /\ u # "none"
  <2>1. set = {1}
    BY <1>1, <1>4
  <2>2. last = 1
    BY <2>1
  <2> QED BY <1>1, <1>2, <1>4, <2>1, <2>2
<1>5. CASE v = "none" /\ u = "none"
  <2>1. set = {}
    BY <1>1, <1>5
  <2> QED BY <1>2, <1>5, <2>1
<1> QED BY <1>3, <1>4, <1>5

LEMMA PriorityOfThree ==
  \A u, v, w : Priority(<<u, v, w>>) = IF w # "none" THEN w ELSE IF v # "none" THEN v ELSE u
<1> TAKE u, v, w
<1> DEFINE list == <<u, v, w>>
           set == {k \in DOMAIN list : list[k] # "none"}
           last == CHOOSE k \in set : \A other \in set : other <= k
<1>1. DOMAIN list = 1..3 /\ list[1] = u /\ list[2] = v /\ list[3] = w
  OBVIOUS
<1>2. Priority(list) = IF set = {} THEN "none" ELSE list[last]
  BY Zenon DEF Priority
<1>3. ASSUME NEW k \in 1..3, list[k] # "none", \A other \in 1..3 : other > k => list[other] = "none"
      PROVE  Priority(list) = list[k]
  <2>1. k \in set /\ \A other \in set : other <= k
    BY <1>1, <1>3
  <2>2. last \in set /\ \A other \in set : other <= last
    BY <2>1
  <2>3. last = k
    BY <1>1, <2>1, <2>2
  <2> QED BY <1>2, <2>1, <2>3
<1>4. CASE w # "none"
  BY <1>1, <1>3, <1>4
<1>5. CASE w = "none" /\ v # "none"
  BY <1>1, <1>3, <1>5
<1>6. CASE w = "none" /\ v = "none" /\ u # "none"
  BY <1>1, <1>3, <1>6
<1>7. CASE w = "none" /\ v = "none" /\ u = "none"
  <2>1. set = {}
    BY <1>1, <1>7
  <2> QED BY <1>2, <1>7, <2>1
<1> QED BY <1>4, <1>5, <1>6, <1>7

\* Each setting of Effective by itself.
LEMMA EffectiveOf ==
  /\ Effective["use"] = Use
  /\ Effective["server"] = Priority(<<From("config", "server"), FlagOrPreset("server")>>)
  /\ Effective["port"] = OrBuiltin(Priority(<<From("config", "port"), FlagOrPreset("port")>>))
  /\ Effective["password"] = Priority(<<From("config", "password"), From("env", "password"), Flag("password")>>)
  /\ Effective["retryDelay"] = Priority(<<From("config", "retryDelay"), Flag("retryDelay")>>)
  /\ Effective["cert"] = Priority(<<Flag("cert"), From("config", "cert"), From("fallback", "cert")>>)
  /\ Effective["algorithm"] = Priority(<<Flag("algorithm"), From("config", "algorithm")>>)
BY DEF Effective, Settings

\* What a layer can hold.
LEMMA FromFacts ==
  \A l, s : /\ From(l, s) \in {l, "none"}
            /\ From(l, s) # "none" => l \in cmd.given[s]
BY DEF From

LEMMA FlagFacts ==
  \A s : /\ Flag(s) \in {"flag", "none", "builtin"}
         /\ Flag(s) = "builtin" => s \in {"retryDelay", "algorithm"} /\ "flag" \notin cmd.given[s]
         /\ Flag(s) # "builtin" => Flag(s) = From("flag", s)
BY DEF From, Flag

LEMMA PresetFacts ==
  \A s : /\ FlagOrPreset(s) \in {Flag(s), "preset"}
         /\ FlagOrPreset(s) # Flag(s) => Flag(s) = "none" /\ From("config", s) = "none"
BY DEF FlagOrPreset

\* From Resolve to the end the settings are those of the layers.
EffInv ==
  /\ cmd \in Commands
  /\ pc \in {"fingerprint", "diag", "required", "lists", "send"} => eff = Effective

\* Which layer Effective takes each setting from.
LEMMA EffectiveHeard ==
  ASSUME cmd \in Command, eff = Effective, NEW s \in Settings \ {"cert", "algorithm"}
  PROVE  Heard(s)
<1>1. cmd.given[s] \subseteq LayersOf(s)
  BY DEF Command
<1>2. /\ From("config", s) \in {"config", "none"} /\ From("env", s) \in {"env", "none"}
      /\ From("flag", s) \in {"flag", "none"}
      /\ "flag" \in cmd.given[s] => From("flag", s) = "flag"
  BY FromFacts DEF From
<1>3. \A layer \in cmd.given[s] : From(layer, s) # "none" => From(layer, s) = layer
  BY FromFacts
<1> USE DEF Layers
<1>4. CASE s = "use"
  <2>1. cmd.given[s] \subseteq {"config", "flag"} /\ eff[s] = Use
    BY <1>1, <1>4, EffectiveOf DEF LayersOf
  <2>2. Use = IF From("flag", "use") # "none" THEN From("flag", "use") ELSE From("config", "use")
    BY PriorityOfTwo DEF Use
  <2> QED BY <1>2, <1>3, <1>4, <2>1, <2>2 DEF Heard
<1>5. CASE s \in {"server", "port"}
  <2> DEFINE p == Priority(<<From("config", s), FlagOrPreset(s)>>)
  <2>1. cmd.given[s] \subseteq {"config", "flag"} /\ Flag(s) = From("flag", s)
    BY <1>1, <1>5 DEF LayersOf, Flag
  <2>2. p = IF FlagOrPreset(s) # "none" THEN FlagOrPreset(s) ELSE From("config", s)
    BY PriorityOfTwo
  <2>3. /\ p \in {"flag", "config", "preset", "none"}
        /\ "flag" \in cmd.given[s] => p = "flag"
        /\ p \in {"flag", "config"} => From(p, s) # "none"
        /\ p \in {"none", "preset"} => From("flag", s) = "none" /\ From("config", s) = "none"
    BY <1>2, <2>1, <2>2, PresetFacts
  <2>4. eff[s] = p \/ (s = "port" /\ p = "none" /\ eff[s] = "builtin")
    BY <1>5, EffectiveOf DEF OrBuiltin
  <2>5. eff[s] = "builtin" => p = "none"
    BY <2>3, <2>4
  <2> HIDE DEF p
  <2> QED BY <1>3, <2>1, <2>3, <2>4, <2>5 DEF Heard
<1>6. CASE s = "password"
  <2>1. cmd.given[s] \subseteq {"config", "env", "flag"} /\ Flag(s) = From("flag", s)
    BY <1>1, <1>6 DEF LayersOf, Flag
  <2>2. eff[s] = IF From("flag", s) # "none" THEN From("flag", s)
                 ELSE IF From("env", s) # "none" THEN From("env", s) ELSE From("config", s)
    BY <1>6, <2>1, EffectiveOf, PriorityOfThree
  <2> QED BY <1>2, <1>3, <1>6, <2>1, <2>2 DEF Heard
<1>7. CASE s = "retryDelay"
  <2>1. eff[s] = IF Flag(s) # "none" THEN Flag(s) ELSE From("config", s)
    BY <1>7, EffectiveOf, PriorityOfTwo
  <2>2. Flag(s) = IF "flag" \notin cmd.given[s] THEN "builtin" ELSE From("flag", s)
    BY <1>7 DEF Flag
  <2> QED BY <1>2, <1>7, <2>1, <2>2 DEF Heard
<1> QED BY <1>4, <1>5, <1>6, <1>7 DEF Settings

LEMMA EffInitInv == Init => EffInv
BY DEF Init, EffInv

LEMMA EffStepInv == EffInv /\ [Next]_vars => EffInv'
<1> SUFFICES ASSUME EffInv, [Next]_vars PROVE EffInv'
  OBVIOUS
<1> USE DEF EffInv
<1>1. ASSUME UNCHANGED <<cmd, file>> PROVE Effective' = Effective
  BY <1>1 DEF Effective, Use, FlagOrPreset, Flag, From
<1>2. ASSUME UNCHANGED <<cmd, eff>>, pc' \in {"version", "config", "load", "resolve", "exited"}
      PROVE  EffInv'
  BY <1>2
<1>3. ASSUME UNCHANGED <<cmd, file, eff>>,
             pc' \in {"fingerprint", "diag", "required", "lists", "send"} =>
               pc \in {"fingerprint", "diag", "required", "lists", "send"}
      PROVE  EffInv'
  BY <1>1, <1>3
<1>4. CASE ParseFlags \/ PrintVersion \/ FindConfig \/ LoadConfig
  BY <1>2, <1>4 DEF ParseFlags, PrintVersion, FindConfig, LoadConfig, Proceed, Exit
<1>5. CASE Resolve
  BY <1>1, <1>5 DEF Resolve
<1>6. CASE CheckFingerprint \/ SkipDiag \/ DiagNeedsServer \/ CheckRequired \/ LoadLists
  BY <1>3, <1>6 DEF CheckFingerprint, SkipDiag, DiagNeedsServer, CheckRequired, LoadLists, Proceed, Exit
<1>7. CASE RunDiag \/ Sent \/ NotClassified \/ Failed
  BY <1>2, <1>7 DEF RunDiag, Sent, NotClassified, Failed, Dispatch
<1>8. CASE UNCHANGED vars
  BY <1>3, <1>8 DEF vars
<1> QED BY <1>4, <1>5, <1>6, <1>7, <1>8 DEF Next

\* A setting comes from one of the sources there are.
LEMMA EffectiveType == Effective \in [Settings -> Sources]
<1>1. \A s : /\ From("config", s) \in Sources /\ From("env", s) \in Sources
             /\ From("flag", s) \in Sources /\ From("fallback", s) \in Sources
  BY FromFacts DEF Sources, Layers
<1>2. \A s : Flag(s) \in Sources /\ FlagOrPreset(s) \in Sources
  BY FlagFacts, PresetFacts DEF Sources, Layers
<1>3. \A u, v \in Sources : Priority(<<u, v>>) \in Sources
  BY PriorityOfTwo
<1>4. \A u, v, w \in Sources : Priority(<<u, v, w>>) \in Sources
  BY PriorityOfThree
<1>5. \A s \in Settings : Effective[s] \in Sources
  <2>1. Use \in Sources
    BY <1>1, <1>3 DEF Use
  <2>2. \A s : Priority(<<From("config", s), FlagOrPreset(s)>>) \in Sources
    BY <1>1, <1>2, <1>3, Zenon
  <2>3. \A s : OrBuiltin(Priority(<<From("config", s), FlagOrPreset(s)>>)) \in Sources
    BY <2>2 DEF OrBuiltin, Sources
  <2>4. \A s : /\ Priority(<<From("config", s), Flag(s)>>) \in Sources
               /\ Priority(<<Flag(s), From("config", s)>>) \in Sources
    BY <1>1, <1>2, <1>3, Zenon
  <2>5. \A s : /\ Priority(<<From("config", s), From("env", s), Flag(s)>>) \in Sources
               /\ Priority(<<Flag(s), From("config", s), From("fallback", s)>>) \in Sources
    BY <1>1, <1>2, <1>4, Zenon
  <2> QED BY <2>1, <2>2, <2>3, <2>4, <2>5, EffectiveOf DEF Settings
<1> QED BY <1>5 DEF Effective

LEMMA CliTypeInit == Init => TypeOK
BY DEF Init, TypeOK, Sources

LEMMA CliTypeStep == TypeOK /\ [Next]_vars => TypeOK'
<1> SUFFICES ASSUME TypeOK, [Next]_vars PROVE TypeOK'
  OBVIOUS
<1> USE DEF TypeOK
<1>1. CASE ParseFlags \/ PrintVersion \/ LoadConfig \/ CheckFingerprint \/ SkipDiag
           \/ DiagNeedsServer \/ CheckRequired \/ LoadLists
  BY <1>1 DEF ParseFlags, PrintVersion, LoadConfig, CheckFingerprint, SkipDiag, DiagNeedsServer,
              CheckRequired, LoadLists, Proceed, Exit
<1>2. CASE FindConfig
  BY <1>2 DEF FindConfig
<1>3. CASE Resolve
  BY <1>3, EffectiveType DEF Resolve
<1>4. CASE RunDiag
  BY <1>4 DEF RunDiag
<1>5. CASE Sent \/ NotClassified
  BY <1>5 DEF Sent, NotClassified, Dispatch
<1>6. CASE Failed
  <2>1. ErrorCode(ClassifyError(words')) \in {6, 7, 8, 9}
    BY DEF ErrorCode
  <2> QED BY <1>6, <2>1 DEF Failed, Dispatch
<1>7. CASE UNCHANGED vars
  BY <1>7 DEF vars
<1> QED BY <1>1, <1>2, <1>3, <1>4, <1>5, <1>6, <1>7 DEF Next

(* Every reachable state of RunCLI is well typed: a setting is taken from    *)
(* one of the layers, an exit code is one of exitcodes.go.                   *)
THEOREM CliTypeCorrect == Spec => []TypeOK
BY CliTypeInit, CliTypeStep, PTL DEF Spec

(* For every combination of preset, file, environment and flag, and every    *)
(* file that there is, a given flag is in effect, and a preset or an empty   *)
(* value only where nothing was given, the settings of S/MIME excepted.      *)
THEOREM CliGivenIsHeard == Spec => []GivenIsHeard
<1>1. TypeOK /\ EffInv => GivenIsHeard
  BY CommandAssumption, EffectiveHeard DEF TypeOK, EffInv, GivenIsHeard
<1> QED BY <1>1, CliTypeCorrect, EffInitInv, EffStepInv, PTL DEF Spec

-----------------------------------------------------------------------------

\* Lists.  Induction over a set of numbers: it needs no operator as a parameter.

(* A set of natural numbers has a least one.                                 *)
LEMMA LeastNatural ==
  ASSUME NEW T, T \subseteq Nat, T # {}
  PROVE  \E m \in T : \A k \in T : m <= k
<1> DEFINE R == OpToRel(<, Nat)
<1>1. IsWellFoundedOn(R, Nat)
  BY NatLessThanWellFounded
<1>2. \A y, x \in Nat : <<y, x>> \in R <=> y < x
  BY DEF OpToRel
<1> HIDE DEF R
<1>3. PICK m \in T : \A y \in T : ~ (<<y, m>> \in R)
  BY <1>1, WFMin
<1>4. \A k \in T : k \in Nat /\ ~ (k < m)
  BY <1>2, <1>3
<1>5. \A k \in T : m <= k
  BY <1>4
<1> QED BY <1>5

(* A set with 0 and the successors of its elements has all numbers.          *)
LEMMA SetInduction ==
  ASSUME NEW T, 0 \in T, \A n \in Nat : n \in T => n + 1 \in T
  PROVE  \A n \in Nat : n \in T
<1> SUFFICES ASSUME {n \in Nat : n \notin T} # {} PROVE FALSE
  OBVIOUS
<1>1. PICK m \in {n \in Nat : n \notin T} : \A k \in {n \in Nat : n \notin T} : m <= k
  BY LeastNatural
<1>2. m # 0 /\ m - 1 \in Nat
  BY <1>1
<1> QED BY <1>1, <1>2

\* The recursive function in the body of FlattenSeq, up to m.
IsFlat(g, seqs, m) == g = [i \in 1..m |-> IF i = 1 THEN seqs[i] ELSE g[i - 1] \o seqs[i]]

LEMMA FlatFacts ==
  ASSUME NEW seqs, NEW m \in Nat \ {0}, NEW g, IsFlat(g, seqs, m)
  PROVE  /\ g[1] = seqs[1]
         /\ \A i \in 2..m : g[i] = g[i - 1] \o seqs[i]
<1>1. \A i \in 1..m : g[i] = IF i = 1 THEN seqs[i] ELSE g[i - 1] \o seqs[i]
  BY DEF IsFlat
<1>2. 1 \in 1..m /\ \A i \in 2..m : i \in 1..m /\ i # 1
  OBVIOUS
<1> QED BY <1>1, <1>2

(* One more element.                                                         *)
LEMMA FlatNext ==
  ASSUME NEW seqs, NEW m \in Nat, NEW g, m = 0 \/ IsFlat(g, seqs, m)
  PROVE  \E h : IsFlat(h, seqs, m + 1)
<1> DEFINE body(i) == IF i = 1 THEN seqs[i] ELSE g[m] \o seqs[i]
           h == [i \in 1..(m + 1) |-> IF i = m + 1 THEN body(i) ELSE g[i]]
<1>1. \A i \in 1..m : g[i] = IF i = 1 THEN seqs[i] ELSE g[i - 1] \o seqs[i]
  <2>1. CASE m = 0
    BY <2>1
  <2>2. CASE IsFlat(g, seqs, m)
    BY <2>2 DEF IsFlat
  <2> QED BY <2>1, <2>2
<1>2. (\A i \in 1..m : i # m + 1 /\ i \in 1..(m + 1)) /\ m + 1 \in 1..(m + 1)
  OBVIOUS
<1> HIDE DEF body
<1>3. (\A i \in 1..m : h[i] = g[i]) /\ h[m + 1] = body(m + 1)
  BY <1>2
<1>4. h = [i \in 1..(m + 1) |-> h[i]]
  OBVIOUS
<1> HIDE DEF h
<1>5. ASSUME NEW i \in 1..(m + 1)
      PROVE  h[i] = IF i = 1 THEN seqs[i] ELSE h[i - 1] \o seqs[i]
  <2>1. CASE i = m + 1
    <3>1. i # 1 => m \in 1..m /\ i - 1 = m
      BY <2>1
    <3>2. h[i] = IF i = 1 THEN seqs[i] ELSE g[m] \o seqs[i]
      BY <1>3, <2>1 DEF body
    <3> QED BY <1>3, <3>1, <3>2
  <2>2. CASE i # m + 1
    <3>1. i \in 1..m /\ (i # 1 => i - 1 \in 1..m)
      BY <2>2
    <3> QED BY <1>1, <1>3, <3>1
  <2> QED BY <2>1, <2>2
<1>6. IsFlat(h, seqs, m + 1)
  BY <1>4, <1>5 DEF IsFlat
<1> QED BY <1>6

(* By induction it exists for every length.                                  *)
LEMMA FlatExists ==
  ASSUME NEW seqs, NEW n \in Nat \ {0}
  PROVE  \E g : IsFlat(g, seqs, n)
<1> DEFINE T == {m \in Nat : m = 0 \/ \E g : IsFlat(g, seqs, m)}
<1>1. 0 \in T
  OBVIOUS
<1>2. ASSUME NEW m \in Nat, m \in T PROVE m + 1 \in T
  BY <1>2, FlatNext
<1> HIDE DEF T
<1>3. n \in T
  BY <1>1, <1>2, SetInduction
<1> QED BY <1>3 DEF T

(* FlattenSeq by its prefixes.                                               *)
LEMMA FlattenPrefixes ==
  ASSUME NEW seqs, Len(seqs) \in Nat \ {0}
  PROVE  \E g : /\ FlattenSeq(seqs) = g[Len(seqs)]
                /\ g[1] = seqs[1]
                /\ \A i \in 2..Len(seqs) : g[i] = g[i - 1] \o seqs[i]
<1> DEFINE flat == CHOOSE g : IsFlat(g, seqs, Len(seqs))
<1>1. FlattenSeq(seqs) = flat[Len(seqs)]
  BY Zenon DEF FlattenSeq, IsFlat
<1>2. IsFlat(flat, seqs, Len(seqs))
  BY FlatExists, Zenon
<1> HIDE DEF flat
<1>3. /\ flat[1] = seqs[1]
      /\ \A i \in 2..Len(seqs) : flat[i] = flat[i - 1] \o seqs[i]
  BY <1>2, FlatFacts
<1> QED BY <1>1, <1>3

(* What is flattened is of the same elements.                                *)
LEMMA FlattenType ==
  ASSUME NEW S, NEW seqs \in Seq(Seq(S))
  PROVE  FlattenSeq(seqs) \in Seq(S)
<1>l. Len(seqs) \in Nat /\ \A i \in 1..Len(seqs) : seqs[i] \in Seq(S)
  BY LenProperties, ElementOfSeq
<1>1. CASE Len(seqs) = 0
  BY <1>1 DEF FlattenSeq
<1>2. CASE Len(seqs) # 0
  <2>1. PICK g : /\ FlattenSeq(seqs) = g[Len(seqs)]
                 /\ g[1] = seqs[1]
                 /\ \A i \in 2..Len(seqs) : g[i] = g[i - 1] \o seqs[i]
    BY <1>l, <1>2, FlattenPrefixes
  <2> DEFINE T == {i \in Nat : i + 1 <= Len(seqs) => g[i + 1] \in Seq(S)}
  <2>2. 0 \in T
    BY <1>l, <1>2, <2>1
  <2>3. ASSUME NEW i \in Nat, i \in T PROVE i + 1 \in T
    <3> SUFFICES ASSUME i + 2 <= Len(seqs) PROVE g[i + 2] \in Seq(S)
      OBVIOUS
    <3>1. g[i + 1] \in Seq(S)
      BY <2>3
    <3>2. i + 2 \in 2..Len(seqs) /\ (i + 2) - 1 = i + 1 /\ i + 2 \in 1..Len(seqs)
      BY <1>l
    <3>3. g[i + 2] = g[i + 1] \o seqs[i + 2] /\ seqs[i + 2] \in Seq(S)
      BY <1>l, <2>1, <3>2
    <3> QED BY <3>1, <3>3
  <2> HIDE DEF T
  <2>4. Len(seqs) - 1 \in T
    <3>1. \A i \in Nat : i \in T
      BY <2>2, <2>3, SetInduction
    <3> QED BY <1>l, <1>2, <3>1
  <2> QED BY <1>l, <1>2, <2>1, <2>4 DEF T
<1> QED BY <1>1, <1>2

-----------------------------------------------------------------------------

(* Counting along a bijection.                                               *)
LEMMA Renamed ==
  ASSUME NEW S, NEW T, IsFiniteSet(S), NEW f \in [S -> T],
         \A a, b \in S : f[a] = f[b] => a = b, \A t \in T : \E a \in S : f[a] = t
  PROVE  IsFiniteSet(T) /\ Cardinality(T) = Cardinality(S)
<1>1. ExistsBijection(S, T)
  BY DEF ExistsBijection, Bijection, Injection, Surjection, IsInjective
<1> QED BY <1>1, FS_Bijection

\* The places where x stands in a sequence.
Standing(x, items) == {k \in DOMAIN items : items[k] = x}

LEMMA StandingFinite ==
  ASSUME NEW S, NEW items \in Seq(S), NEW x
  PROVE  /\ IsFiniteSet(Standing(x, items)) /\ Times(x, items) = Cardinality(Standing(x, items))
         /\ Times(x, items) \in Nat
<1>1. Standing(x, items) \subseteq 1..Len(items) /\ IsFiniteSet(1..Len(items))
  BY FS_Interval DEF Standing
<1>2. IsFiniteSet(Standing(x, items))
  BY <1>1, FS_Subset
<1> QED BY <1>2, FS_CardinalityType DEF Times, Standing

(* Times adds up over a concatenation ...                                    *)
LEMMA TimesConcat ==
  ASSUME NEW S, NEW s \in Seq(S), NEW t \in Seq(S), NEW x
  PROVE  Times(x, s \o t) = Times(x, s) + Times(x, t)
<1> DEFINE A == Standing(x, s)
           B == Standing(x, t)
           C == {k \in (Len(s) + 1)..(Len(s) + Len(t)) : (s \o t)[k] = x}
           f == [k \in B |-> Len(s) + k]
<1>1. /\ s \o t \in Seq(S) /\ Len(s \o t) = Len(s) + Len(t)
      /\ \A i \in 1..(Len(s) + Len(t)) : (s \o t)[i] = IF i <= Len(s) THEN s[i] ELSE t[i - Len(s)]
  BY ConcatProperties
<1>2. Standing(x, s \o t) = A \cup C /\ A \cap C = {}
  BY <1>1 DEF Standing
<1>3. f \in [B -> C]
  <2>1. ASSUME NEW k \in B PROVE Len(s) + k \in C
    <3>1. k \in 1..Len(t) /\ t[k] = x
      BY DEF Standing
    <3>2. Len(s) + k \in 1..(Len(s) + Len(t)) /\ ~(Len(s) + k <= Len(s)) /\ (Len(s) + k) - Len(s) = k
      BY <3>1
    <3> QED BY <1>1, <3>1, <3>2
  <2> QED BY <2>1
<1>4. \A a, b \in B : f[a] = f[b] => a = b
  BY DEF Standing
<1>5. \A c \in C : \E a \in B : f[a] = c
  <2> TAKE c \in C
  <2>1. c - Len(s) \in 1..Len(t) /\ t[c - Len(s)] = x /\ Len(s) + (c - Len(s)) = c
    BY <1>1
  <2>2. c - Len(s) \in B
    BY <2>1 DEF Standing
  <2> QED BY <2>1, <2>2
<1> HIDE DEF C, f
<1>6. IsFiniteSet(A) /\ IsFiniteSet(B) /\ Cardinality(A) = Times(x, s) /\ Cardinality(B) = Times(x, t)
  BY StandingFinite
<1>7. IsFiniteSet(C) /\ Cardinality(C) = Cardinality(B)
  BY <1>3, <1>4, <1>5, <1>6, Renamed
<1>8. Cardinality(A \cup C) = Cardinality(A) + Cardinality(C)
  <2>1. Cardinality(A \cup C) = Cardinality(A) + Cardinality(C) - Cardinality(A \cap C)
    BY <1>6, <1>7, FS_Union
  <2>2. Cardinality(A \cap C) = 0
    BY <1>2, FS_EmptySet
  <2> QED BY <1>6, <1>7, <2>1, <2>2, FS_CardinalityType
<1> QED BY <1>1, <1>2, <1>6, <1>7, <1>8, StandingFinite

\* The places of x in a sequence of sequences.
Spots(x, seqs) ==
  {p \in UNION {{l} \X DOMAIN seqs[l] : l \in DOMAIN seqs} : seqs[p[1]][p[2]] = x}

LEMMA SpotsFacts ==
  ASSUME NEW S, NEW seqs \in Seq(Seq(S)), NEW x
  PROVE  \A p : p \in Spots(x, seqs) <=>
                  \E l \in 1..Len(seqs) : \E k \in Standing(x, seqs[l]) : p = <<l, k>>
<1>1. DOMAIN seqs = 1..Len(seqs)
  BY LenProperties
<1>2. ASSUME NEW p, p \in Spots(x, seqs)
      PROVE  \E l \in 1..Len(seqs) : \E k \in Standing(x, seqs[l]) : p = <<l, k>>
  <2>1. PICK l \in DOMAIN seqs : p \in {l} \X DOMAIN seqs[l]
    BY <1>2 DEF Spots
  <2>2. PICK k \in DOMAIN seqs[l] : p = <<l, k>>
    BY <2>1
  <2>3. k \in Standing(x, seqs[l])
    BY <1>2, <2>2 DEF Spots, Standing
  <2> QED BY <1>1, <2>2, <2>3
<1>3. ASSUME NEW l \in 1..Len(seqs), NEW k \in Standing(x, seqs[l])
      PROVE  <<l, k>> \in Spots(x, seqs)
  BY <1>1 DEF Spots, Standing
<1> QED BY <1>2, <1>3

(* ... and over a sequence of sequences: it counts the places.               *)
LEMMA FlattenTimes ==
  ASSUME NEW S, NEW seqs \in Seq(Seq(S)), NEW x
  PROVE  Times(x, FlattenSeq(seqs)) = Cardinality(Spots(x, seqs))
<1>l. Len(seqs) \in Nat /\ \A i \in 1..Len(seqs) : seqs[i] \in Seq(S)
  BY LenProperties, ElementOfSeq
<1> DEFINE In(i) == {p \in Spots(x, seqs) : p[1] = i}
           UpTo(i) == {p \in Spots(x, seqs) : p[1] <= i}
<1>s. \A p \in Spots(x, seqs) : p[1] \in 1..Len(seqs)
  BY SpotsFacts
<1>1. ASSUME NEW i \in 1..Len(seqs)
      PROVE  /\ IsFiniteSet(In(i)) /\ Cardinality(In(i)) = Times(x, seqs[i])
             /\ Times(x, seqs[i]) \in Nat
  <2> DEFINE f == [k \in Standing(x, seqs[i]) |-> <<i, k>>]
  <2>1. f \in [Standing(x, seqs[i]) -> In(i)]
    BY SpotsFacts
  <2>2. \A a, b \in Standing(x, seqs[i]) : f[a] = f[b] => a = b
    OBVIOUS
  <2>3. \A p \in In(i) : \E a \in Standing(x, seqs[i]) : f[a] = p
    <3> TAKE p \in In(i)
    <3>1. PICK l \in 1..Len(seqs) : \E k \in Standing(x, seqs[l]) : p = <<l, k>>
      BY SpotsFacts
    <3>2. PICK k \in Standing(x, seqs[l]) : p = <<l, k>>
      BY <3>1
    <3>3. l = i
      BY <3>2
    <3> QED BY <3>2, <3>3
  <2>4. /\ IsFiniteSet(Standing(x, seqs[i])) /\ Cardinality(Standing(x, seqs[i])) = Times(x, seqs[i])
        /\ Times(x, seqs[i]) \in Nat
    BY <1>l, StandingFinite
  <2> HIDE DEF f, In
  <2> QED BY <2>1, <2>2, <2>3, <2>4, Renamed
<1>2. CASE Len(seqs) = 0
  <2>1. FlattenSeq(seqs) = <<>> /\ Spots(x, seqs) = {}
    BY <1>s, <1>2 DEF FlattenSeq
  <2>2. Standing(x, <<>>) = {}
    BY DEF Standing
  <2> QED BY <2>1, <2>2, FS_EmptySet DEF Times, Standing
<1>3. CASE Len(seqs) # 0
  <2>1. PICK g : /\ FlattenSeq(seqs) = g[Len(seqs)]
                 /\ g[1] = seqs[1]
                 /\ \A i \in 2..Len(seqs) : g[i] = g[i - 1] \o seqs[i]
    BY <1>l, <1>3, FlattenPrefixes
  <2> DEFINE Good(i) == /\ g[i] \in Seq(S) /\ IsFiniteSet(UpTo(i))
                        /\ Times(x, g[i]) = Cardinality(UpTo(i))
             T == {i \in Nat : i + 1 <= Len(seqs) => Good(i + 1)}
  <2>2. 0 \in T
    <3>1. UpTo(1) = In(1)
      BY <1>s
    <3> HIDE DEF In, UpTo
    <3> QED BY <1>l, <1>1, <1>3, <2>1, <3>1
  <2>3. ASSUME NEW i \in Nat, i \in T PROVE i + 1 \in T
    <3> SUFFICES ASSUME i + 2 <= Len(seqs) PROVE Good(i + 2)
      OBVIOUS
    <3>1. Good(i + 1)
      BY <1>l, <2>3
    <3>2. i + 2 \in 2..Len(seqs) /\ (i + 2) - 1 = i + 1 /\ i + 2 \in 1..Len(seqs)
      BY <1>l
    <3>3. g[i + 2] = g[i + 1] \o seqs[i + 2] /\ seqs[i + 2] \in Seq(S)
      BY <1>l, <2>1, <3>2
    <3>4. UpTo(i + 2) = UpTo(i + 1) \cup In(i + 2) /\ UpTo(i + 1) \cap In(i + 2) = {}
      BY <1>s
    <3> HIDE DEF In, UpTo
    <3>5. /\ IsFiniteSet(In(i + 2)) /\ Cardinality(In(i + 2)) = Times(x, seqs[i + 2])
          /\ Times(x, seqs[i + 2]) \in Nat
      BY <1>1, <3>2
    <3>6. Cardinality(UpTo(i + 1)) \in Nat
      BY <3>1, FS_CardinalityType
    <3>7. /\ IsFiniteSet(UpTo(i + 2))
          /\ Cardinality(UpTo(i + 2)) = Cardinality(UpTo(i + 1)) + Cardinality(In(i + 2))
      <4>1. /\ IsFiniteSet(UpTo(i + 2))
            /\ Cardinality(UpTo(i + 2)) = Cardinality(UpTo(i + 1)) + Cardinality(In(i + 2))
                                            - Cardinality(UpTo(i + 1) \cap In(i + 2))
        <5>1. IsFiniteSet(UpTo(i + 1))
          BY <3>1
        <5> QED BY <3>4, <3>5, <5>1, FS_Union, Zenon
      <4>2. Cardinality(UpTo(i + 1) \cap In(i + 2)) = 0
        BY <3>4, FS_EmptySet
      <4> QED BY <3>5, <3>6, <4>1, <4>2
    <3>8. g[i + 2] \in Seq(S)
      BY <3>1, <3>3, ConcatProperties
    <3>9. Times(x, g[i + 2]) = Times(x, g[i + 1]) + Times(x, seqs[i + 2])
      BY <3>1, <3>3, TimesConcat
    <3> QED BY <3>1, <3>5, <3>7, <3>8, <3>9
  <2> HIDE DEF T
  <2>4. \A i \in Nat : i \in T
    BY <2>2, <2>3, SetInduction
  <2>5. Good(Len(seqs))
    <3>1. Len(seqs) - 1 \in T
      BY <1>l, <1>3, <2>4
    <3> HIDE DEF Good
    <3> QED BY <1>l, <1>3, <3>1 DEF T
  <2>6. UpTo(Len(seqs)) = Spots(x, seqs)
    BY <1>l, <1>s
  <2> QED BY <2>1, <2>5, <2>6
<1> QED BY <1>2, <1>3

LEMMA FewItems ==
  \A x : /\ Standing(x, <<>>) = {} /\ Times(x, <<>>) = 0
         /\ \A y : Standing(x, <<y>>) = IF y = x THEN {1} ELSE {}
<1> TAKE x
<1>1. Standing(x, <<>>) = {}
  BY DEF Standing
<1>2. Times(x, <<>>) = 0
  BY <1>1, FS_EmptySet, Zenon DEF Times, Standing
<1>3. ASSUME NEW y PROVE Standing(x, <<y>>) = IF y = x THEN {1} ELSE {}
  <2>1. DOMAIN <<y>> = {1} /\ <<y>>[1] = y
    OBVIOUS
  <2> QED BY <2>1, Zenon DEF Standing
<1> QED BY <1>1, <1>2, <1>3

(* Leaving out some kinds leaves the others as often as they were.           *)
LEMMA WithoutFacts ==
  ASSUME NEW S, NEW kinds, NEW items \in Seq(S)
  PROVE  /\ Without(kinds, items) \in Seq(S \ kinds)
         /\ \A x : x \notin kinds => Times(x, Without(kinds, items)) = Times(x, items)
<1> DEFINE seqs == [k \in DOMAIN items |-> IF items[k] \in kinds THEN <<>> ELSE <<items[k]>>]
<1>1. DOMAIN items = 1..Len(items) /\ Len(items) \in Nat /\ \A k \in 1..Len(items) : items[k] \in S
  BY LenProperties, ElementOfSeq
<1>2. seqs \in Seq(Seq(S \ kinds)) /\ Len(seqs) = Len(items)
  <2>1. \A e \in S \ kinds : <<e>> \in Seq(S \ kinds)
    OBVIOUS
  <2>2. <<>> \in Seq(S \ kinds)
    OBVIOUS
  <2>3. \A k \in 1..Len(items) : (IF items[k] \in kinds THEN <<>> ELSE <<items[k]>>) \in Seq(S \ kinds)
    BY <1>1, <2>1, <2>2
  <2>4. seqs \in [1..Len(items) -> Seq(S \ kinds)]
    BY <1>1, <2>3
  <2> HIDE DEF seqs
  <2> QED BY <1>1, <2>4
<1>3. Without(kinds, items) = FlattenSeq(seqs)
  BY DEF Without
<1>4. \A k \in 1..Len(items) : seqs[k] = IF items[k] \in kinds THEN <<>> ELSE <<items[k]>>
  BY <1>1
<1> HIDE DEF seqs
<1>5. ASSUME NEW x, x \notin kinds PROVE Times(x, Without(kinds, items)) = Times(x, items)
  <2> DEFINE f == [k \in Standing(x, items) |-> <<k, 1>>]
  <2>1. \A k \in 1..Len(items) : Standing(x, seqs[k]) = IF items[k] = x THEN {1} ELSE {}
    BY <1>4, <1>5, FewItems
  <2>2. \A p : p \in Spots(x, seqs) <=> \E k \in Standing(x, items) : p = <<k, 1>>
    <3>1. \A p : p \in Spots(x, seqs) <=>
                   \E l \in 1..Len(items) : \E k \in Standing(x, seqs[l]) : p = <<l, k>>
      <4> DEFINE U == S \ kinds
      <4>2. seqs \in Seq(Seq(U))
        BY <1>2
      <4> HIDE DEF U
      <4>1. \A p : p \in Spots(x, seqs) <=>
                     \E l \in 1..Len(seqs) : \E k \in Standing(x, seqs[l]) : p = <<l, k>>
        BY <4>2, SpotsFacts
      <4> QED BY <1>2, <4>1
    <3>2. \A k : k \in Standing(x, items) <=> k \in 1..Len(items) /\ items[k] = x
      BY <1>1 DEF Standing
    <3> QED BY <2>1, <3>1, <3>2
  <2>3. f \in [Standing(x, items) -> Spots(x, seqs)]
    BY <2>2
  <2>4. \A a, b \in Standing(x, items) : f[a] = f[b] => a = b
    OBVIOUS
  <2>5. \A p \in Spots(x, seqs) : \E a \in Standing(x, items) : f[a] = p
    BY <2>2
  <2>6. IsFiniteSet(Standing(x, items)) /\ Times(x, items) = Cardinality(Standing(x, items))
    BY StandingFinite
  <2> HIDE DEF f
  <2>7. Cardinality(Spots(x, seqs)) = Cardinality(Standing(x, items))
    BY <2>3, <2>4, <2>5, <2>6, Renamed
  <2> QED BY <1>2, <1>3, <2>6, <2>7, FlattenTimes
<1> QED BY <1>2, <1>3, <1>5, FlattenType

(* What does not occur occurs no times.                                      *)
LEMMA TimesOutside ==
  ASSUME NEW S, NEW items \in Seq(S), NEW x, x \notin S
  PROVE  Times(x, items) = 0
<1>1. DOMAIN items = 1..Len(items) /\ \A k \in 1..Len(items) : items[k] \in S
  BY LenProperties, ElementOfSeq
<1>2. {k \in DOMAIN items : items[k] = x} = {}
  BY <1>1
<1> QED BY <1>2, FS_EmptySet, Zenon DEF Times

(* What is left without the lines that are comments.                         *)
LEMMA LiveItemsFacts ==
  ASSUME NEW S, NEW lines \in Seq(Seq(S))
  PROVE  /\ LiveItems(lines) \in Seq(S)
         /\ \A x : Times(x, LiveItems(lines)) =
                     Cardinality({p \in Spots(x, lines) : lines[p[1]][1] \notin Comments})
<1> DEFINE live == [l \in DOMAIN lines |-> IF lines[l][1] \in Comments THEN <<>> ELSE lines[l]]
<1>1. DOMAIN lines = 1..Len(lines) /\ Len(lines) \in Nat /\ \A l \in 1..Len(lines) : lines[l] \in Seq(S)
  BY LenProperties, ElementOfSeq
<1>2. live \in Seq(Seq(S)) /\ Len(live) = Len(lines)
  BY <1>1
<1>3. LiveItems(lines) = FlattenSeq(live)
  BY DEF LiveItems
<1>4. \A l \in 1..Len(lines) : live[l] = IF lines[l][1] \in Comments THEN <<>> ELSE lines[l]
  BY <1>1
<1> HIDE DEF live
<1>5. ASSUME NEW x PROVE Spots(x, live) = {p \in Spots(x, lines) : lines[p[1]][1] \notin Comments}
  <2>1. \A p : p \in Spots(x, live) <=>
                 \E l \in 1..Len(lines) : \E k \in Standing(x, live[l]) : p = <<l, k>>
    BY <1>2, SpotsFacts
  <2>2. \A p : p \in Spots(x, lines) <=>
                 \E l \in 1..Len(lines) : \E k \in Standing(x, lines[l]) : p = <<l, k>>
    BY SpotsFacts
  <2>3. \A l \in 1..Len(lines) :
          Standing(x, live[l]) = IF lines[l][1] \in Comments THEN {} ELSE Standing(x, lines[l])
    <3>1. Standing(x, <<>>) = {}
      BY DEF Standing
    <3> QED BY <1>4, <3>1
  <2> QED BY <2>1, <2>2, <2>3
<1> QED BY <1>2, <1>3, <1>5, FlattenType, FlattenTimes

\* What a list file holds.
Kinds == {"blank", "comment", "bad"}

(* A list that can be read names what stands in it.                          *)
LEMMA LoadListFacts ==
  ASSUME NEW S, S \cap Kinds = {}, NEW list \in ListOf(S), NEW isRecipients \in BOOLEAN,
         LoadList(list, isRecipients) # LoadError
  PROVE  /\ LoadList(list, isRecipients) \in Seq(S \cup {"bad"})
         /\ \A x \in S : Times(x, LoadList(list, isRecipients)) = Cardinality(NamedIn(x, list))
<1> DEFINE all == S \cup {"blank", "comment", "bad"}
<1>1. /\ list.format \in Formats /\ list.lines \in Seq(Seq(all))
      /\ list.format = "none" => list.lines = <<>>
  BY DEF ListOf, NoList
<1>2. \A x : NamedIn(x, list) =
               {p \in Spots(x, list.lines) :
                  list.format = "text" => Comments \cap {list.lines[p[1]][1], x} = {}}
  BY DEF NamedIn, Spots
<1>3. ASSUME NEW items \in Seq(all)
      PROVE  /\ Names(items) \in Seq(S \cup {"bad"})
             /\ \A x \in S : Times(x, Names(items)) = IF x \in Comments THEN 0 ELSE Times(x, items)
  <2> DEFINE kinds == {"blank"} \cup Comments
  <2>1. all \ kinds \subseteq S \cup {"bad"}
    BY DEF Kinds, Comments
  <2>2. \A x \in S : x \in kinds <=> x \in Comments
    BY DEF Kinds
  <2>3. Names(items) = Without(kinds, items)
    BY DEF Names
  <2> HIDE DEF all, kinds
  <2>4. /\ Names(items) \in Seq(all \ kinds)
        /\ \A x : x \notin kinds => Times(x, Names(items)) = Times(x, items)
    BY <2>3, WithoutFacts
  <2>5. \A x \in kinds : Times(x, Names(items)) = 0
    BY <2>4, TimesOutside
  <2>6. Names(items) \in Seq(S \cup {"bad"})
    BY <2>1, <2>4
  <2> QED BY <2>2, <2>4, <2>5, <2>6
<1>8. ASSUME NEW items \in Seq(all), "comment" \notin ToSet(items)
      PROVE  /\ Without({"blank"}, items) \in Seq(S \cup {"bad"})
             /\ \A x \in S : Times(x, Without({"blank"}, items)) = Times(x, items)
  <2> DEFINE kinds == {"blank"}
  <2>1. items \in Seq(all \ {"comment"})
    <3>1. DOMAIN items = 1..Len(items) /\ Len(items) \in Nat /\ \A k \in 1..Len(items) : items[k] \in all
      <4> HIDE DEF all
      <4> QED BY LenProperties, ElementOfSeq
    <3>2. \A k \in 1..Len(items) : items[k] # "comment"
      BY <1>8, <3>1 DEF ToSet
    <3> HIDE DEF all
    <3> QED BY <3>1, <3>2
  <2>2. (all \ {"comment"}) \ kinds \subseteq S \cup {"bad"} /\ \A x \in S : x \notin kinds
    BY DEF Kinds
  <2> DEFINE rest == all \ {"comment"}
  <2>3. items \in Seq(rest)
    BY <2>1
  <2> HIDE DEF rest, kinds
  <2>4. /\ Without(kinds, items) \in Seq(rest \ kinds)
        /\ \A x : x \notin kinds => Times(x, Without(kinds, items)) = Times(x, items)
    BY <2>3, WithoutFacts
  <2>5. rest \ kinds \subseteq S \cup {"bad"}
    BY <2>2 DEF rest
  <2>6. Without(kinds, items) \in Seq(S \cup {"bad"})
    BY <2>4, <2>5
  <2> QED BY <2>2, <2>4, <2>6 DEF kinds
<1> HIDE DEF all
<1>4. CASE list.format = "none"
  <2>1. LoadList(list, isRecipients) = <<>> /\ Len(list.lines) = 0
    BY <1>1, <1>4 DEF LoadList
  <2>2. \A x : Spots(x, list.lines) = {}
    BY <1>1, <2>1, SpotsFacts
  <2>3. \A x : NamedIn(x, list) = {}
    BY <1>2, <2>2
  <2> QED BY <2>1, <2>3, FS_EmptySet, FewItems
<1>5. CASE list.format = "text"
  <2>1. LoadList(list, isRecipients) = Names(LiveItems(list.lines))
    BY <1>5 DEF LoadList, LoadTextList
  <2>2. \A x : NamedIn(x, list) = IF x \in Comments THEN {}
                                 ELSE {p \in Spots(x, list.lines) : list.lines[p[1]][1] \notin Comments}
    BY <1>2, <1>5
  <2>3. /\ LiveItems(list.lines) \in Seq(all)
        /\ \A x : Times(x, LiveItems(list.lines)) =
                    Cardinality({p \in Spots(x, list.lines) : list.lines[p[1]][1] \notin Comments})
    BY <1>1, LiveItemsFacts
  <2>4. /\ Names(LiveItems(list.lines)) \in Seq(S \cup {"bad"})
        /\ \A x \in S : Times(x, Names(LiveItems(list.lines))) =
                         IF x \in Comments THEN 0 ELSE Times(x, LiveItems(list.lines))
    BY <1>3, <2>3
  <2> QED BY <2>1, <2>2, <2>3, <2>4, FS_EmptySet
<1>6. CASE list.format = "json"
  <2> DEFINE items == FlattenSeq(list.lines)
  <2>1. LoadList(list, isRecipients) = Without({"blank"}, items) /\ "comment" \notin ToSet(items)
    BY <1>6 DEF LoadList, LoadRecipientListJSON, LoadAttachmentListJSON, CleanEmailList
  <2>2. \A x : NamedIn(x, list) = Spots(x, list.lines)
    BY <1>2, <1>6
  <2>3. items \in Seq(all) /\ \A x : Times(x, items) = Cardinality(Spots(x, list.lines))
    BY <1>1, FlattenType, FlattenTimes
  <2> HIDE DEF items
  <2>4. /\ Without({"blank"}, items) \in Seq(S \cup {"bad"})
        /\ \A x \in S : Times(x, Without({"blank"}, items)) = Times(x, items)
    BY <1>8, <2>1, <2>3
  <2> QED BY <2>1, <2>2, <2>3, <2>4
<1>7. CASE list.format = "unknown"
  BY <1>7 DEF LoadList
<1> QED BY <1>1, <1>4, <1>5, <1>6, <1>7 DEF Formats

(* No address in a list that passes is bad.                                  *)
LEMMA ValidMeansNoBad ==
  ASSUME NEW S, NEW list \in Seq(S), ValidEmailList(CleanEmailList(list))
  PROVE  "bad" \notin Among(list)
<1> DEFINE clean == CleanEmailList(list)
<1>1. clean \in Seq(S) /\ Times("bad", clean) = Times("bad", list)
  <2> DEFINE kinds == {"blank"}
  <2>1. "bad" \notin kinds /\ clean = Without(kinds, list)
    BY DEF CleanEmailList
  <2> HIDE DEF kinds, clean
  <2>2. clean \in Seq(S \ kinds) /\ Times("bad", clean) = Times("bad", list)
    BY <2>1, WithoutFacts
  <2> QED BY <2>2
<1>2. Standing("bad", clean) = {}
  <2>1. DOMAIN clean = 1..Len(clean)
    BY <1>1, LenProperties
  <2> QED BY <2>1 DEF ValidEmailList, Contains, Standing
<1>3. Cardinality(Standing("bad", list)) = 0 /\ IsFiniteSet(Standing("bad", list))
  BY <1>1, <1>2, StandingFinite, FS_EmptySet
<1>4. Standing("bad", list) = {}
  BY <1>3, FS_EmptySet
<1> QED BY <1>4 DEF Among, Standing

-----------------------------------------------------------------------------

Quiet == stage = "idle" /\ who = "nobody" /\ result = "none"

\* How far the two have come: no call before diagnosis or dispatch, none after the exit.
PhaseInv ==
  /\ pc \notin {"diag", "send", "exited"} => Quiet
  /\ pc = "diag" => Quiet \/ (DiagAsked /\ eff["server"] # "none" /\ who = "diag")
  /\ pc = "send" => who # "diag" /\ (input.batch => stage = "idle")
  /\ pc = "exited" => stage = "idle"

ProgramInv == CliInv /\ TransportInv /\ PhaseInv /\ CodeOfRun

-----------------------------------------------------------------------------

(* Each step of the program is a step of RunCLI or leaves it as it is.       *)
LEMMA StepIsCliStep == ProgramInv /\ [ProgramStep]_programVars => [Next]_vars
<1> SUFFICES ASSUME ProgramInv, [ProgramStep]_programVars PROVE [Next]_vars
  OBVIOUS
<1>1. CASE CliStep
  BY <1>1 DEF CliStep, Next
<1>2. CASE CheckArguments \/ CollectLists
  BY <1>2 DEF CheckArguments, CollectLists, Next
<1>3. CASE CallRunDiagnostics \/ CallSendEmail \/ Work
  BY <1>3 DEF CallRunDiagnostics, CallSendEmail, Work
<1>4. CASE DiagReturns \/ BatchReturns
  BY <1>4 DEF DiagReturns, BatchReturns, Next
<1>5. CASE MailReturns
  <2>1. result \in {"sent", "rehearsed", "rejected", "tooBig", "failed"}
    BY <1>5 DEF MailReturns, ProgramInv, PhaseInv, TransportInv, AnswerInv
  <2> QED BY <1>5, <2>1 DEF MailReturns, Next
<1>6. CASE UNCHANGED programVars
  BY <1>6 DEF programVars
<1> QED BY <1>1, <1>2, <1>3, <1>4, <1>5, <1>6 DEF ProgramStep

(* And a step of a mail or a diagnosis, or leaves them as they are.          *)
LEMMA StepIsTransportStep == [ProgramStep]_programVars => [TransportNext]_transportVars
<1> SUFFICES ASSUME [ProgramStep]_programVars PROVE [TransportNext]_transportVars
  OBVIOUS
<1>1. CASE CallRunDiagnostics
  BY <1>1, Zenon DEF CallRunDiagnostics, TransportNext
<1>2. CASE CallSendEmail
  BY <1>2, Zenon DEF CallSendEmail, TransportNext
<1>3. CASE Work
  BY <1>3 DEF Work, TransportNext
<1>4. CASE CliStep \/ CheckArguments \/ CollectLists \/ DiagReturns \/ MailReturns \/ BatchReturns
  BY <1>4 DEF CliStep, CheckArguments, CollectLists, DiagReturns, MailReturns, BatchReturns
<1>5. CASE UNCHANGED programVars
  BY <1>5 DEF programVars
<1> QED BY <1>1, <1>2, <1>3, <1>4, <1>5 DEF ProgramStep

-----------------------------------------------------------------------------

LEMMA ProgramInitInv == ProgramInit => ProgramInv
<1>1. ProgramInit => Init /\ TransportInit
  BY DEF ProgramInit
<1>2. Init /\ TransportInit => PhaseInv /\ CodeOfRun
  BY DEF Init, TransportInit, PhaseInv, Quiet, CodeOfRun
<1> QED BY <1>1, <1>2, CliInitInv, TransportInitInv DEF ProgramInv

(* Where RunCLI goes on or gives up, nobody has been connected to.           *)
LEMMA QuietStep ==
  ASSUME ProgramInv, Quiet, UNCHANGED <<transportVars, input>>, pc' # "send",
         pc' # "exited" \/ code' \in {2, 3, 4} \/ (code' = 0 /\ cmd.version), cmd' = cmd
  PROVE  PhaseInv' /\ CodeOfRun'
<1>1. Quiet' /\ offered' = "no"
  BY DEF Quiet, transportVars, ProgramInv, TransportInv, OutcomeInv
<1> QED BY <1>1 DEF PhaseInv, CodeOfRun, Quiet

LEMMA CliStepPhase ==
  ASSUME ProgramInv, CliStep
  PROVE  PhaseInv' /\ CodeOfRun'
<1> USE DEF Proceed, Exit
<1>1. UNCHANGED <<transportVars, input>>
  BY DEF CliStep, inputVars
<1>2. Quiet
  BY DEF CliStep, ParseFlags, PrintVersion, FindConfig, LoadConfig, Resolve, CheckFingerprint, SkipDiag,
         DiagNeedsServer, ProgramInv, PhaseInv
<1>3. /\ cmd' = cmd /\ pc' # "send"
      /\ pc' # "exited" \/ code' \in {2, 3, 4} \/ (code' = 0 /\ cmd.version)
  BY DEF CliStep, ParseFlags, PrintVersion, FindConfig, LoadConfig, Resolve, CheckFingerprint, SkipDiag,
         DiagNeedsServer
<1> QED BY <1>1, <1>2, <1>3, QuietStep

LEMMA CollectPhase ==
  ASSUME ProgramInv, CheckArguments \/ CollectLists
  PROVE  PhaseInv' /\ CodeOfRun'
<1> USE DEF Proceed, Exit
<1>1. UNCHANGED <<transportVars, input>>
  BY DEF CheckArguments, CollectLists, inputVars
<1>2. Quiet
  BY DEF CheckArguments, CheckRequired, CollectLists, LoadLists, ProgramInv, PhaseInv
<1>3. cmd' = cmd /\ (pc' # "exited" \/ code' \in {2, 3, 4})
  BY DEF CheckArguments, CheckRequired, CollectLists, LoadLists
<1>4. CASE pc' # "send"
  BY <1>1, <1>2, <1>3, <1>4, QuietStep
<1>5. CASE pc' = "send"
  BY <1>1, <1>2, <1>5 DEF PhaseInv, CodeOfRun, Quiet, transportVars
<1> QED BY <1>4, <1>5

LEMMA BeginPhase ==
  ASSUME ProgramInv, CallRunDiagnostics \/ CallSendEmail
  PROVE  PhaseInv' /\ CodeOfRun'
<1>1. CASE CallRunDiagnostics
  <2> DEFINE c == [call EXCEPT !.kind = "diag", !.to = <<>>]
  <2>1. c.kind = "diag"
    BY CallWith, Zenon DEF ProgramInv, TransportInv
  <2>2. Begin(c) /\ UNCHANGED <<vars, inputVars>> /\ pc = "diag" /\ DiagAsked /\ eff["server"] # "none"
    BY <1>1 DEF CallRunDiagnostics
  <2> HIDE DEF c
  <2>3. who' = "diag"
    BY <2>1, <2>2 DEF Begin
  <2> QED BY <2>2, <2>3 DEF PhaseInv, CodeOfRun, vars, DiagAsked
<1>2. CASE CallSendEmail
  <2> DEFINE c == [call EXCEPT !.kind = "send", !.to = toEmails]
  <2>1. c.kind = "send"
    BY CallWith, Zenon DEF ProgramInv, TransportInv
  <2>2. Begin(c) /\ UNCHANGED <<vars, inputVars>> /\ pc = "send" /\ ~input.batch
    BY <1>2 DEF CallSendEmail
  <2> HIDE DEF c
  <2>3. who' = who
    BY <2>1, <2>2 DEF Begin
  <2> QED BY <2>2, <2>3 DEF PhaseInv, CodeOfRun, vars, inputVars, ProgramInv
<1> QED BY <1>1, <1>2

LEMMA WorkPhase ==
  ASSUME ProgramInv, Work
  PROVE  PhaseInv' /\ CodeOfRun'
<1>1. /\ TransportInv /\ TransportStep
      /\ UNCHANGED <<pc, cmd, file, eff, input, code>>
  BY DEF ProgramInv, Work, vars, inputVars
<1>2. stage # "idle" /\ (who' = "diag" <=> who = "diag")
  BY <1>1, StepKeeps, StepAnswers
<1>3. pc \in {"diag", "send"} /\ (pc = "diag" => DiagAsked /\ eff["server"] # "none" /\ who = "diag")
      /\ (pc = "send" => who # "diag" /\ ~input.batch)
  BY <1>2 DEF ProgramInv, PhaseInv, Quiet
<1> QED BY <1>1, <1>2, <1>3 DEF PhaseInv, CodeOfRun, DiagAsked

LEMMA ReturnPhase ==
  ASSUME ProgramInv, DiagReturns \/ MailReturns \/ BatchReturns
  PROVE  PhaseInv' /\ CodeOfRun'
<1>1. UNCHANGED <<transportVars, input, cmd>> /\ pc' = "exited" /\ code' \in {0, 5, 6, 7, 8, 9}
  <2>1. \A type : ErrorCode(type) \in {6, 7, 8, 9}
    BY DEF ErrorCode
  <2>2. CASE DiagReturns
    BY <2>2 DEF DiagReturns, RunDiag, inputVars
  <2>3. CASE BatchReturns
    BY <2>1, <2>3 DEF BatchReturns, Sent, NotClassified, Failed, Dispatch, inputVars
  <2>4. CASE MailReturns
    <3>1. result \in {"sent", "rehearsed", "rejected", "tooBig", "failed"}
      BY <2>4 DEF MailReturns, ProgramInv, PhaseInv, TransportInv, AnswerInv
    <3> QED BY <2>1, <2>4, <3>1 DEF MailReturns, Sent, NotClassified, Failed, Dispatch, inputVars
  <2> QED BY <2>2, <2>3, <2>4
<1>2. AnswerInv /\ PhaseInv
  BY DEF ProgramInv, TransportInv
<1>3. CASE DiagReturns
  <2>1. stage = "idle" /\ who = "diag" /\ offered = "no" /\ (code' = 0 <=> result = "passed")
        /\ code' \in {0, 5}
    BY <1>2, <1>3 DEF DiagReturns, RunDiag, PhaseInv, Quiet, AnswerInv
  <2> QED BY <1>1, <2>1 DEF PhaseInv, CodeOfRun, transportVars
<1>4. CASE MailReturns
  <2>1. stage = "idle" /\ who # "diag" /\ result \in {"sent", "rehearsed", "rejected", "tooBig", "failed"}
    BY <1>2, <1>4 DEF MailReturns, PhaseInv, AnswerInv
  <2>2. /\ result \in {"sent", "rehearsed"} => code' = 0
        /\ result \in {"rejected", "tooBig"} => code' = 8
        /\ result = "failed" => code' \in {6, 7, 8, 9}
    BY <1>4, <2>1 DEF MailReturns, Sent, NotClassified, Failed, ErrorCode
  <2> QED BY <1>1, <1>2, <2>1, <2>2 DEF PhaseInv, CodeOfRun, AnswerInv, transportVars
<1>5. CASE BatchReturns
  <2>1. input.batch /\ pc = "send"
    BY <1>5 DEF BatchReturns, Sent, NotClassified, Failed, Dispatch
  <2> QED BY <1>1, <1>2, <2>1 DEF PhaseInv, CodeOfRun, transportVars
<1> QED BY <1>3, <1>4, <1>5

LEMMA ProgramStepInv == ProgramInv /\ [ProgramStep]_programVars => ProgramInv'
<1> SUFFICES ASSUME ProgramInv, [ProgramStep]_programVars PROVE ProgramInv'
  OBVIOUS
<1>1. CliInv'
  BY StepIsCliStep, CliStepInv DEF ProgramInv
<1>2. TransportInv'
  BY StepIsTransportStep, TransportNextInv DEF ProgramInv
<1>3. PhaseInv' /\ CodeOfRun'
  <2>1. CASE UNCHANGED programVars
    BY <2>1 DEF ProgramInv, programVars, vars, transportVars, inputVars, PhaseInv, CodeOfRun, Quiet, DiagAsked
  <2> QED BY <2>1, CliStepPhase, CollectPhase, BeginPhase, WorkPhase, ReturnPhase DEF ProgramStep
<1> QED BY <1>1, <1>2, <1>3 DEF ProgramInv

THEOREM ProgramInvariant == ProgramSpec => []ProgramInv
<1> QED BY ProgramInitInv, ProgramStepInv, PTL DEF ProgramSpec

-----------------------------------------------------------------------------

(* A run of the program is one of RunCLI with its callees left open.         *)
THEOREM ProgramRunsCli == ProgramSpec => Spec
<1>1. ProgramInit => Init
  BY DEF ProgramInit
<1> QED BY <1>1, StepIsCliStep, ProgramInvariant, PTL DEF ProgramSpec, Spec

(* A run of the program makes one call, of SendEmail or of RunDiagnostics.   *)
THEOREM ProgramRunsTransport == ProgramSpec => TransportSpec
<1>1. ProgramInit => TransportInit
  BY DEF ProgramInit
<1> QED BY <1>1, StepIsTransportStep, PTL DEF ProgramSpec, TransportSpec

(* The exit code is true of what RunCLI was answered.                        *)
THEOREM ProgramCodeTells == ProgramSpec => []CodeTells
BY ProgramRunsCli, CliCodeTells, PTL

(* A given flag is heard in every run of the program.                          *)
THEOREM ProgramGivenIsHeard == ProgramSpec => []GivenIsHeard
BY ProgramRunsCli, CliGivenIsHeard, PTL

(* The exit code is true of what was done on the network.                    *)
THEOREM ProgramCodeOfRun == ProgramSpec => []CodeOfRun
<1>1. ProgramInv => CodeOfRun
  BY DEF ProgramInv
<1> QED BY <1>1, ProgramInvariant, PTL

(* What Transport promises of its calls holds of those the program makes.    *)
THEOREM ProgramTransports ==
  ProgramSpec => [](SealedForAll /\ ChannelAsAsked /\ SizeRefusalTrue /\ PassedMeansReachable)
BY ProgramRunsTransport, TransportSeals, TransportChannel, TransportSize, TransportDiagnosis, PTL

-----------------------------------------------------------------------------

Items == Addresses \cup {"blank", "bad"}

LEMMA InputFacts ==
  ASSUME input \in Input
  PROVE  /\ input.to \in [{"flag", "ToEmail", "To"} -> Seq(Items)] /\ input.list \in ListOf(Addresses)
         /\ input.files \in Seq(Files \cup {"blank", "bad"}) /\ input.fileList \in ListOf(Files)
         /\ input.dir \in Seq(Files) \cup {LoadError}
BY DEF Input, Items

\* How often somebody is named in front of the list.
NamedBefore(a) ==
  IF input.to["flag"] # <<>> THEN Times(a, input.to["flag"])
  ELSE IF file = "none" THEN 0
  ELSE Times(a, input.to["ToEmail"]) + Times(a, input.to["To"])

LEMMA ToItemsFacts ==
  ASSUME input \in Input
  PROVE  ToItems \in Seq(Items) /\ \A a : Times(a, ToItems) = NamedBefore(a)
<1>1. \A k \in {"flag", "ToEmail", "To"} : input.to[k] \in Seq(Items)
  BY InputFacts
<1>2. \A a : Times(a, input.to["ToEmail"] \o input.to["To"])
               = Times(a, input.to["ToEmail"]) + Times(a, input.to["To"])
  BY <1>1, TimesConcat
<1> QED BY <1>1, <1>2, FewItems DEF ToItems, NamedBefore

Readable ==
  LoadError \notin {LoadList(input.fileList, FALSE), input.dir, LoadList(input.list, TRUE)}

(* What RunCLI collects if everything can be read.                           *)
LEMMA CollectedTo ==
  ASSUME input \in Input, Readable
  PROVE  /\ ToItems \o LoadList(input.list, TRUE) \in Seq(Items)
         /\ \A a \in Addresses : Times(a, ToItems \o LoadList(input.list, TRUE))
                                   = Cardinality(NamedIn(a, input.list)) + NamedBefore(a)
<1> DEFINE listed == LoadList(input.list, TRUE)
<1>1. Addresses \cap Kinds = {}
  BY TransportAssumption DEF Kinds
<1>2. listed \in Seq(Addresses \cup {"bad"})
      /\ \A a \in Addresses : Times(a, listed) = Cardinality(NamedIn(a, input.list))
  BY <1>1, InputFacts, LoadListFacts DEF Readable
<1>3. ToItems \in Seq(Items) /\ \A a : Times(a, ToItems) = NamedBefore(a)
  BY ToItemsFacts
<1> HIDE DEF listed
<1>4. listed \in Seq(Items)
  BY <1>2 DEF Items
<1>5. ToItems \o listed \in Seq(Items)
  BY <1>3, <1>4
<1>6. ASSUME NEW a \in Addresses
      PROVE  Times(a, ToItems \o listed) = Cardinality(NamedIn(a, input.list)) + NamedBefore(a)
  <2>1. Times(a, ToItems \o listed) = Times(a, ToItems) + Times(a, listed)
    BY <1>3, <1>4, TimesConcat
  <2>2. Times(a, ToItems) \in Nat /\ Times(a, listed) \in Nat
    BY <1>3, <1>4, StandingFinite
  <2> QED BY <1>2, <1>3, <2>1, <2>2
<1> QED BY <1>5, <1>6 DEF listed

LEMMA CollectedFiles ==
  ASSUME input \in Input, Readable
  PROVE  LET paths == input.files \o LoadList(input.fileList, FALSE) \o input.dir
         IN  /\ paths \in Seq(Files \cup {"blank", "bad"})
             /\ \A f \in Files : Times(f, paths) = Times(f, input.files)
                                                     + Cardinality(NamedIn(f, input.fileList))
                                                     + Times(f, input.dir)
<1> DEFINE U == Files \cup {"blank", "bad"}
           listed == LoadList(input.fileList, FALSE)
<1>1. Files \cap Kinds = {}
  BY FilesAssumption DEF Kinds
<1>2. listed \in Seq(Files \cup {"bad"})
      /\ \A f \in Files : Times(f, listed) = Cardinality(NamedIn(f, input.fileList))
  BY <1>1, InputFacts, LoadListFacts DEF Readable
<1>3. input.files \in Seq(U) /\ input.dir \in Seq(Files)
  BY InputFacts DEF Readable
<1> HIDE DEF listed
<1>4. listed \in Seq(U) /\ input.dir \in Seq(U)
  BY <1>2, <1>3
<1> HIDE DEF U
<1>5. input.files \o listed \in Seq(U) /\ (input.files \o listed) \o input.dir \in Seq(U)
  BY <1>3, <1>4
<1>6. ASSUME NEW f \in Files
      PROVE  Times(f, (input.files \o listed) \o input.dir) =
               Times(f, input.files) + Cardinality(NamedIn(f, input.fileList)) + Times(f, input.dir)
  <2>1. Times(f, (input.files \o listed) \o input.dir) = Times(f, input.files \o listed) + Times(f, input.dir)
    BY <1>4, <1>5, TimesConcat
  <2>2. Times(f, input.files \o listed) = Times(f, input.files) + Times(f, listed)
    BY <1>3, <1>4, TimesConcat
  <2> QED BY <1>2, <2>1, <2>2
<1> QED BY <1>5, <1>6 DEF listed, U

-----------------------------------------------------------------------------

Collected ==
  /\ Readable
  /\ attachmentPaths = input.files \o LoadList(input.fileList, FALSE) \o input.dir
  /\ toEmails = ToItems \o LoadList(input.list, TRUE)

\* From the moment it sends, the mail is the one RunCLI has collected.
MailInv ==
  /\ input \in Input /\ Addressed
  /\ pc = "send" => Collected
  /\ ~Quiet /\ who # "diag" => Collected /\ call.to = toEmails

LEMMA MailInitInv == ProgramInit => MailInv
<1> SUFFICES ASSUME ProgramInit PROVE MailInv
  OBVIOUS
<1>1. input \in Input
  BY SweepAssumption DEF ProgramInit
<1>2. Init /\ TransportInit
  BY DEF ProgramInit
<1> QED BY <1>1, <1>2 DEF Init, TransportInit, MailInv, Addressed, Quiet

(* Where RunCLI goes on or returns, the mail is as it was.                   *)
LEMMA SameMail ==
  ASSUME ProgramInv, MailInv, UNCHANGED <<transportVars, inputVars>>,
         \/ Quiet /\ pc' # "send"
         \/ file' = file /\ (pc' = "send" => pc = "send")
  PROVE  MailInv'
<1>1. Addressed' /\ Quiet' = Quiet /\ who' = who /\ call' = call /\ (Quiet => who # "diag")
  BY DEF MailInv, Addressed, transportVars, Quiet
<1>2. UNCHANGED <<input, toEmails, attachmentPaths>>
  BY DEF inputVars
<1>3. file' = file => (Collected' <=> Collected)
  BY <1>2 DEF Collected, Readable, ToItems
<1> QED BY <1>1, <1>2, <1>3 DEF MailInv

LEMMA MailStepInv == ProgramInv /\ MailInv /\ [ProgramStep]_programVars => MailInv'
<1> SUFFICES ASSUME ProgramInv, MailInv, [ProgramStep]_programVars PROVE MailInv'
  OBVIOUS
<1> USE DEF Proceed, Exit
<1>1. CASE CliStep
  <2>1. UNCHANGED <<transportVars, inputVars>>
    BY <1>1 DEF CliStep
  <2>2. Quiet /\ pc' # "send"
    BY <1>1 DEF CliStep, ParseFlags, PrintVersion, FindConfig, LoadConfig, Resolve, CheckFingerprint,
           SkipDiag, DiagNeedsServer, ProgramInv, PhaseInv
  <2> QED BY <2>1, <2>2, SameMail
<1>2. CASE CheckArguments
  <2>1. UNCHANGED <<transportVars, inputVars>> /\ Quiet /\ pc' # "send"
    BY <1>2 DEF CheckArguments, CheckRequired, ProgramInv, PhaseInv
  <2> QED BY <2>1, SameMail
<1>3. CASE CollectLists
  <2>1. /\ UNCHANGED <<transportVars, input, file>> /\ Quiet /\ pc' \in {"send", "exited"}
        /\ pc' = "send" => /\ Readable /\ toEmails' = ToItems \o LoadList(input.list, TRUE)
                           /\ attachmentPaths' = input.files \o LoadList(input.fileList, FALSE) \o input.dir
    BY <1>3 DEF CollectLists, LoadLists, ProgramInv, PhaseInv, Readable
  <2>2. Quiet' /\ Addressed'
    BY <2>1 DEF Quiet, Addressed, transportVars
  <2>3. pc' = "send" => Collected'
    BY <2>1 DEF Collected, Readable, ToItems
  <2> QED BY <2>1, <2>2, <2>3 DEF MailInv
<1>4. CASE CallRunDiagnostics
  <2> DEFINE c == [call EXCEPT !.kind = "diag", !.to = <<>>]
  <2>1. c.kind = "diag"
    BY CallWith, Zenon DEF ProgramInv, TransportInv
  <2>2. Begin(c) /\ UNCHANGED <<vars, inputVars>> /\ pc = "diag"
    BY <1>4 DEF CallRunDiagnostics
  <2> HIDE DEF c
  <2>3. who' = "diag"
    BY <2>1, <2>2 DEF Begin
  <2> QED BY <2>2, <2>3 DEF MailInv, Addressed, vars, inputVars
<1>5. CASE CallSendEmail
  <2> DEFINE c == [call EXCEPT !.kind = "send", !.to = toEmails]
  <2>1. c.kind = "send" /\ c.to = toEmails
    <3>1. c.kind = "send"
      BY CallWith, Zenon DEF ProgramInv, TransportInv
    <3>2. call = [f \in Fields |-> call[f]]
      BY DEF ProgramInv, TransportInv, Typed
    <3>3. c.to = toEmails
      BY <3>2 DEF Fields
    <3> QED BY <3>1, <3>3
  <2>2. Begin(c) /\ UNCHANGED <<vars, inputVars>> /\ pc = "send"
    BY <1>5 DEF CallSendEmail
  <2> HIDE DEF c
  <2>3. /\ stage' = "message" /\ who' = who /\ call'.to = toEmails
        /\ stage = "idle" /\ result = "none"
    BY <2>1, <2>2 DEF Begin
  <2>4. who = "nobody"
    BY <2>3 DEF ProgramInv, TransportInv, ConnInv
  <2>5. Collected'
    BY <2>2 DEF MailInv, Collected, Readable, ToItems, vars, inputVars
  <2> QED BY <2>2, <2>3, <2>4, <2>5 DEF MailInv, Addressed, inputVars
<1>6. CASE Work
  <2>1. TransportInv /\ TransportStep /\ UNCHANGED <<vars, inputVars>>
    BY <1>6 DEF ProgramInv, Work
  <2>2. call' = call /\ stage # "idle" /\ (who' = "diag" <=> who = "diag") /\ Addressed'
    BY <2>1, StepKeeps, StepAnswers, StepAddresses DEF MailInv
  <2>3. Collected' <=> Collected
    BY <2>1 DEF Collected, Readable, ToItems, vars, inputVars
  <2> QED BY <2>1, <2>2, <2>3 DEF MailInv, Quiet, vars, inputVars
<1>7. CASE DiagReturns \/ MailReturns \/ BatchReturns
  <2>1. UNCHANGED <<transportVars, inputVars, file>> /\ pc' = "exited"
    <3>1. CASE DiagReturns
      BY <3>1 DEF DiagReturns, RunDiag
    <3>2. CASE BatchReturns
      BY <3>2 DEF BatchReturns, Sent, NotClassified, Failed, Dispatch
    <3>3. CASE MailReturns
      <4>1. result \in {"sent", "rehearsed", "rejected", "tooBig", "failed"}
        BY <3>3 DEF MailReturns, ProgramInv, PhaseInv, TransportInv, AnswerInv
      <4> QED BY <3>3, <4>1 DEF MailReturns, Sent, NotClassified, Failed, Dispatch
    <3> QED BY <1>7, <3>1, <3>2, <3>3
  <2> QED BY <2>1, SameMail
<1>8. CASE UNCHANGED programVars
  BY <1>8, SameMail DEF programVars, vars
<1> QED BY <1>1, <1>2, <1>3, <1>4, <1>5, <1>6, <1>7, <1>8 DEF ProgramStep

LEMMA MailInvariant == ProgramSpec => []MailInv
BY MailInitInv, MailStepInv, ProgramInvariant, PTL DEF ProgramSpec

(* Who is named gets the mail, once for each time he is named, and nobody    *)
(* else; each file is attached once for each time it is named: for lists of  *)
(* any length, with comments and blanks anywhere.                            *)
THEOREM ProgramEveryoneNamed == ProgramSpec => []EveryoneNamed
<1>1. ASSUME ProgramInv, MailInv PROVE EveryoneNamed
  <2> SUFFICES ASSUME who = "mail" PROVE EveryoneNamed
    BY DEF EveryoneNamed
  <2>1. input \in Input /\ Readable /\ Collected /\ call.to = toEmails /\ ValidEmailList(CleanEmailList(call.to))
    BY <1>1 DEF MailInv, Quiet, Collected, Addressed
  <2>2. call.to \in Seq(Items)
        /\ \A a \in Addresses : Times(a, call.to) = Cardinality(NamedIn(a, input.list)) + NamedBefore(a)
    BY <2>1, CollectedTo DEF Collected
  <2>3. "bad" \notin Among(call.to)
    BY <2>1, <2>2, ValidMeansNoBad
  <2>4. \A f \in Files : Times(f, attachmentPaths) =
          Times(f, input.files) + Cardinality(NamedIn(f, input.fileList)) + Times(f, input.dir)
    BY <2>1, CollectedFiles DEF Collected
  <2> QED BY <2>2, <2>3, <2>4 DEF EveryoneNamed, NamedBefore
<1> QED BY <1>1, ProgramInvariant, MailInvariant, PTL

-----------------------------------------------------------------------------

LEMMA ProgramTypeInit == ProgramInit => ProgramTypeOK
<1> SUFFICES ASSUME ProgramInit PROVE ProgramTypeOK
  OBVIOUS
<1>1. /\ call \in Call /\ gateway \in Gateway /\ input \in Input
      /\ toEmails = <<>> /\ attachmentPaths = <<>> /\ Init /\ TransportInit
  BY SweepAssumption DEF ProgramInit
<1>2. TransportTypeOK
  BY <1>1 DEF TransportInit, TransportTypeOK
<1> QED BY <1>1, <1>2, CliTypeInit DEF ProgramTypeOK

LEMMA ProgramTypeStep == ProgramInv /\ MailInv /\ ProgramTypeOK /\ [ProgramStep]_programVars => ProgramTypeOK'
<1> SUFFICES ASSUME ProgramInv, MailInv, ProgramTypeOK, [ProgramStep]_programVars PROVE ProgramTypeOK'
  OBVIOUS
<1>1. TypeOK'
  BY StepIsCliStep, CliTypeStep DEF ProgramTypeOK
<1>2. TransportTypeOK'
  <2>1. CASE CallRunDiagnostics
    <3> DEFINE c == [call EXCEPT !.kind = "diag", !.to = <<>>]
    <3>1. c \in Call /\ Begin(c)
      <4>1. <<>> \in Seq(Addresses \cup {"blank", "bad"})
        OBVIOUS
      <4>2. call \in Call /\ Begin(c)
        BY <2>1 DEF CallRunDiagnostics, ProgramTypeOK, TransportTypeOK
      <4>3. c \in Call
        BY <4>1, <4>2, CallTyped
      <4> QED BY <4>2, <4>3
    <3> HIDE DEF c
    <3> QED BY <3>1, TransportTypeBegin DEF ProgramTypeOK
  <2>2. CASE CallSendEmail
    <3> DEFINE c == [call EXCEPT !.kind = "send", !.to = toEmails]
    <3>1. c \in Call /\ Begin(c)
      BY <2>2, CallTyped DEF CallSendEmail, ProgramTypeOK, TransportTypeOK
    <3> HIDE DEF c
    <3> QED BY <3>1, TransportTypeBegin DEF ProgramTypeOK
  <2>3. CASE Work
    BY <2>3, TransportTypeStep DEF Work, ProgramInv, ProgramTypeOK
  <2>4. CASE UNCHANGED transportVars
    BY <2>4 DEF transportVars, TransportTypeOK, ProgramTypeOK
  <2>5. CASE CliStep \/ CheckArguments \/ CollectLists \/ DiagReturns \/ MailReturns \/ BatchReturns
             \/ UNCHANGED programVars
    BY <2>4, <2>5 DEF CliStep, CheckArguments, CollectLists, DiagReturns, MailReturns, BatchReturns, programVars
  <2> QED BY <2>1, <2>2, <2>3, <2>5 DEF ProgramStep
<1>3. input' = input /\ (UNCHANGED <<toEmails, attachmentPaths>> \/ CollectLists)
  BY DEF ProgramStep, CliStep, CheckArguments, CollectLists, CallRunDiagnostics, CallSendEmail, Work,
         DiagReturns, MailReturns, BatchReturns, inputVars, programVars
<1>4. CASE CollectLists /\ ~UNCHANGED <<toEmails, attachmentPaths>>
  <2>1. /\ Readable /\ toEmails' = ToItems \o LoadList(input.list, TRUE)
        /\ attachmentPaths' = input.files \o LoadList(input.fileList, FALSE) \o input.dir
    BY <1>4 DEF CollectLists, Readable
  <2>2. /\ toEmails' \in Seq(Addresses \cup {"blank", "bad"})
        /\ attachmentPaths' \in Seq(Files \cup {"blank", "bad"})
    BY <2>1, CollectedTo, CollectedFiles DEF MailInv, Items
  <2> QED BY <1>1, <1>2, <1>3, <2>2 DEF ProgramTypeOK
<1> QED BY <1>1, <1>2, <1>3, <1>4 DEF ProgramTypeOK

(* Every reachable state of a run of the program is well typed.              *)
THEOREM ProgramTypeCorrect == ProgramSpec => []ProgramTypeOK
BY ProgramTypeInit, ProgramTypeStep, ProgramInvariant, MailInvariant, PTL DEF ProgramSpec

=============================================================================
