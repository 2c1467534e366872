-------------------------------- MODULE MCProgram --------------------------------
(***************************************************************************)
(* Program for TLC: a plain run, and sweeps that vary one part of it in full *)
(* (the command line, the lists, TLS and the gateway, certificates, sizes).  *)
(***************************************************************************)
EXTENDS Program, MCCli

TheAddresses == {"ann", "bob", "#eve"}

TheHashed == {"#eve"}

TheFiles == {"f", "g"}

\* Good ones, an expired one, and one for signing only.
TheCerts == {"annOK", "annOld", "bobOK", "bobSign", "pair"}

TheSubjects ==
  [c \in TheCerts |-> CASE c \in {"annOK", "annOld"}  -> {"ann"}
                        [] c \in {"bobOK", "bobSign"} -> {"bob"}
                        [] OTHER -> TheAddresses]

TheInDate == TheCerts \ {"annOld"}

TheKeyUsage ==
  [c \in TheCerts |-> CASE c = "bobSign" -> {"digitalSignature"}
                        [] c = "bobOK"   -> {"keyAgreement"}
                        [] c = "pair"    -> {"digitalSignature", "keyEncipherment"}
                        [] OTHER -> {}]

UpTo(n, S) == UNION {[1..k -> S] : k \in 0..n}

-----------------------------------------------------------------------------

NoSMIME == [sign |-> FALSE, encrypt |-> FALSE, signer |-> "none", certFiles |-> <<>>, certDir |-> <<>>]

PlainCall ==
  [kind |-> "send", mode |-> "tls", smtps |-> FALSE, pin |-> "none", ca |-> "none",
   secret |-> "usable", dryRun |-> FALSE, to |-> <<>>, cc |-> <<>>, smime |-> NoSMIME, size |-> 1]

PlainGateway ==
  [speaks |-> "starttls", cert |-> "genuine", issuer |-> "public", silent |-> "never", size |-> 0]

ToFlag(items) == [k \in {"flag", "ToEmail", "To"} |-> IF k = "flag" THEN items ELSE <<>>]

PlainInput ==
  [to |-> ToFlag(<<"ann">>), list |-> NoList, files |-> <<>>, fileList |-> NoList,
   dir |-> <<>>, batch |-> FALSE]

PlainRun == [cmd |-> Plain, call |-> PlainCall, gateway |-> PlainGateway, input |-> PlainInput]

AnyCommand ==
  {[PlainRun EXCEPT !.cmd = c, !.input.batch = b] : c \in AllCommands, b \in BOOLEAN}

\* Lists of two lines, comments before, between and after items.
ListsOf(x, y) ==
  LET line  == {<<x>>, <<"blank">>, <<"bad">>, <<"comment", x>>, <<x, "comment", y>>, <<y, "blank", x>>}
      lines == UpTo(2, line)
  IN  {[format |-> "text", shape |-> "lines", lines |-> l] : l \in lines}
      \cup {[format |-> "json", shape |-> s, lines |-> l] :
              s \in {"strings", "objects"},
              l \in UpTo(2, {<<x>>, <<"blank">>, <<y>>, <<"bad">>, <<"comment">>})}
      \cup {[format |-> f, shape |-> s, lines |-> <<<<x>>>>] :
              f \in {"text", "json", "unknown"}, s \in {"missing"}}
      \cup {[format |-> "json", shape |-> "other", lines |-> <<>>]}

\* An address that begins with #, at the head of a line, within one, and in JSON.
HashedLists ==
  {[format |-> "text", shape |-> "lines", lines |-> l] :
     l \in UpTo(2, {<<"#eve">>, <<"ann", "#eve", "bob">>, <<"#eve", "ann">>})}
  \cup {[format |-> "json", shape |-> s, lines |-> <<<<"ann">>, <<"#eve">>>>] :
           s \in {"strings", "objects"}}

AnyInput ==
  {[PlainRun EXCEPT !.input.to = ToFlag(t), !.input.list = l] :
     t \in {<<>>, <<"ann">>, <<"bob", "blank", "ann">>, <<"ann", "bad">>},
     l \in ListsOf("ann", "bob") \cup HashedLists \cup {NoList}}
  \cup
  {[PlainRun EXCEPT !.input.to = [flag |-> t, ToEmail |-> u, To |-> v], !.cmd.files = f] :
     t \in UpTo(1, {"ann"}), u \in UpTo(1, {"ann"}), v \in UpTo(2, {"ann", "bob"}),
     f \in SUBSET {"fallback"}}
  \cup
  {[PlainRun EXCEPT !.input.files = g, !.input.fileList = l, !.input.dir = d] :
     g \in UpTo(1, {"f"}), l \in ListsOf("f", "g") \cup {NoList},
     d \in {<<>>, <<"f", "g">>, LoadError}}

-----------------------------------------------------------------------------

\* Every mode, port, pin and authority at every gateway, for a mail and a diagnosis.
AnyTLS ==
  {[PlainRun EXCEPT !.cmd.diag = d, !.call.mode = m, !.call.smtps = p, !.call.pin = pin,
                    !.call.ca = ca, !.gateway.speaks = g, !.gateway.cert = c,
                    !.gateway.issuer = i] :
     d \in {{}, {"flag"}}, m \in Modes, p \in BOOLEAN, pin \in {"none", "genuine", "stranger"},
     ca \in {"none", "private", "broken"}, g \in {"implicit", "starttls", "plain"},
     c \in {"genuine", "stranger"}, i \in {"public", "private", "self"}}

Encrypting == [NoSMIME EXCEPT !.encrypt = TRUE, !.certFiles = <<"annOK">>]

\* Gateways that fall silent, and sizes on either side of every limit (ProbeAbove = 4,
\* Overhead = 2).
AnySize ==
  {[PlainRun EXCEPT !.cmd.diag = d, !.call.mode = m, !.call.smtps = p, !.call.smime = Encrypting,
                    !.call.size = n, !.gateway.speaks = g, !.gateway.silent = s,
                    !.gateway.size = max] :
     d \in {{}, {"flag"}}, m \in Modes, p \in BOOLEAN, n \in 4..6,
     g \in {"implicit", "starttls", "plain"},
     s \in {"never", "hello", "handshake", "talk"}, max \in {0, 7}}

AnySigner ==
  {[PlainRun EXCEPT !.call.smime = [NoSMIME EXCEPT !.sign = b, !.encrypt = e, !.signer = c,
                                                   !.certFiles = f],
                    !.call.secret = s, !.call.dryRun = dry] :
     b \in BOOLEAN, e \in BOOLEAN, c \in TheCerts \cup {"Broken", "none"},
     f \in {<<>>, <<"annOK">>}, s \in {"usable", "undecryptable"}, dry \in BOOLEAN}

AnyCertificates ==
  {[PlainRun EXCEPT !.call.smime = [NoSMIME EXCEPT !.encrypt = TRUE, !.certFiles = f, !.certDir = d],
                    !.input.to = ToFlag(t), !.call.cc = cc] :
     f \in UpTo(1, TheCerts \cup {"Broken"}), d \in UpTo(2, TheCerts \cup {"Broken"}),
     t \in {<<"ann">>, <<"bob", "ann">>}, cc \in UpTo(1, {"bob"})}

AllSweeps == {AnyCommand, AnyInput, AnyTLS, AnySize, AnySigner, AnyCertificates}

ProgramCommands ==
  {[Plain EXCEPT !.diag = d, !.files = f] :
     d \in {{}, {"flag"}}, f \in {{}, {"default"}, {"fallback"}}} \cup AllCommands

=============================================================================
