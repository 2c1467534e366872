--------------------------------- MODULE MCCli ---------------------------------
(***************************************************************************)
(* Cli for TLC: command lines that differ from a plain one in one setting,   *)
(* in the way the configuration file is found, or in what is asked for.      *)
(***************************************************************************)
EXTENDS Cli

Plain == [given    |-> [s \in Settings |-> IF s = "server" THEN {"flag"} ELSE {}],
          known    |-> {"config"}, files |-> {"default"}, named |-> FALSE,
          version  |-> FALSE, diag |-> {}, complete |-> TRUE]

\* One setting from every combination of its layers, with a known and an unknown
\* preset and without.
OneSetting ==
  UNION {{[Plain EXCEPT !.given[s] = g, !.given["use"] = u] :
            g \in SUBSET LayersOf(s), u \in SUBSET {"config", "flag"}} : s \in Settings}

\* Every way to find a file, and everything that may be asked for.
Asked ==
  {[Plain EXCEPT !.given["port"] = {"config"}, !.given["server"] = g, !.files = f,
                 !.named = n, !.version = v, !.diag = d, !.complete = c] :
     g \in SUBSET {"flag"}, f \in SUBSET {"named", "default", "fallback"},
     n \in BOOLEAN, v \in BOOLEAN, d \in SUBSET {"config", "flag"}, c \in BOOLEAN}

AllCommands == OneSetting \cup Asked

=============================================================================
