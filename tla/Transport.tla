-------------------------------- MODULE Transport --------------------------------
(***************************************************************************)
(* How mailxgo reaches a mail gateway: SendEmail from the building of the    *)
(* message to the end of one attempt, the size probe it may make before, and *)
(* RunDiagnostics.  The three open connections in the same steps and with    *)
(* three different policies.                                                 *)
(*                                                                          *)
(* The gateway may refuse at any step, may fall silent at one, and speaks    *)
(* TLS at once, on request or not at all.                                    *)
(***************************************************************************)
EXTENDS Certificates, Lists

CONSTANTS ProbeAbove,  \* 1 MB: larger encrypted messages are probed for
          Overhead     \* 2 KB: the estimate for headers

Modes == {"tls", "tls-direct", "ignore-trust", "none", "other"}

\* The EmailParams: smtps is whether the port is 465; pin is the pinned certificate of the gateway; ca is
\* whether a private authority is given, or one whose file cannot be loaded.
Call == [kind : {"send", "diag"}, mode : Modes, smtps : BOOLEAN,
         pin : {"none", "genuine", "stranger"}, ca : {"none", "private", "broken"},
         secret : {"usable", "undecryptable"}, dryRun : BOOLEAN,
         to : Seq(Addresses \cup {"blank", "bad"}), cc : Seq(Addresses),
         smime : SMIME, size : Nat]

\* cert is who presents it and who signed it; size is the advertised SIZE, 0 for none.
Gateway == [speaks : {"implicit", "starttls", "plain"},
            cert   : {"genuine", "stranger"},
            issuer : {"public", "private", "self"},
            silent : {"never", "hello", "handshake", "talk"},
            size   : Nat]

ASSUME TransportAssumption ==
  /\ ProbeAbove \in Nat /\ Overhead \in Nat
  /\ Addresses \cap {"blank", "bad", "comment"} = {}

VARIABLES call, gateway,
          stage,    \* where the call stands
          who,      \* whose connection this is: "nobody", "probe", "mail" or "diag"
          channel,  \* the connection: "closed", "clear" or "tls"
          sealedTo, \* the certificates the message is encrypted for
          maxSize,  \* serverMaxSize, 0 until the probe has learnt it
          result,   \* what SendEmail or RunDiagnostics returned
          offered   \* history: the channel the server was given the message on

transportVars == <<call, gateway, stage, who, channel, sealedTo, maxSize, result, offered>>

Building   == {"message", "smime", "encrypt", "size", "options"}
Connecting == {"dial", "implicit", "hello", "upgrade", "talk"}

TransportTypeOK ==
  /\ call \in Call /\ gateway \in Gateway
  /\ stage \in Building \cup Connecting \cup {"idle"}
  /\ who \in {"nobody", "probe", "mail", "diag"}
  /\ channel \in {"closed", "clear", "tls"}
  /\ sealedTo \subseteq Certs
  /\ maxSize \in Nat
  /\ result \in {"none", "rejected", "tooBig", "failed", "sent", "rehearsed", "passed"}
  /\ offered \in {"no", "clear", "tls"}

TransportInit ==
  /\ call \in Call /\ gateway \in Gateway
  /\ stage = "idle" /\ who = "nobody" /\ channel = "closed"
  /\ sealedTo = {} /\ maxSize = 0 /\ result = "none" /\ offered = "no"

-----------------------------------------------------------------------------

\* The policies.

\* Variant: TLS at once is a matter of the port alone.
ImplicitByPort == call.smtps /\ (who = "mail" => call.mode \notin {"none", "ignore-trust"})

\* TLS from the first byte.  For a mail ignore-trust comes before the port.
Implicit ==
  /\ call.smtps \/ call.mode = "tls-direct"
  /\ who = "mail" => call.mode \notin {"none", "ignore-trust"}

\* Variant: a mail upgrades only where the gateway offers it.
OpportunisticUpgrade ==
  ~Implicit /\ call.mode # "none" /\ who # "probe" /\ gateway.speaks = "starttls"

\* TLSMandatory for a mail; the diagnosis only where the gateway offers it; never for
\* the probe.
Upgrades ==
  \/ who = "mail" /\ call.mode # "none" /\ ~Implicit
  \/ /\ who = "diag" /\ call.mode \in {"tls", "ignore-trust"} /\ ~call.smtps
     /\ gateway.speaks = "starttls"

\* The tls.Config: whether the chain is left unchecked, the roots it is checked
\* against, and the certificate asked for.  A pin takes the place of the chain.
BuildTLSConfig ==
  [skip  |-> \/ call.pin # "none"
             \/ call.ca = "none" /\ call.mode \in {"ignore-trust", "tls-direct"},
   roots |-> {"public"} \cup {call.ca},
   pin   |-> call.pin]

\* The configuration of the probe is its own.
ProbeTLSConfig ==
  [skip |-> call.mode \in {"ignore-trust", "tls-direct"}, roots |-> {"public"}, pin |-> "none"]

TLSConfig == IF who = "probe" THEN ProbeTLSConfig ELSE BuildTLSConfig

\* A certificate of a trusted issuer is taken to be made out to the name that was dialled.
Accepts(config) ==
  /\ config.skip \/ gateway.issuer \in config.roots
  /\ config.pin \in {"none", gateway.cert}

\* Variant: the dialling of a mail alone is limited.
DialLimited == stage = "dial"

\* Steps with a time limit.  A mail hands its timeout to the library, which is taken to
\* keep it throughout, and dialling always has one (that of the code, or of the kernel
\* for the probe); the others wait as long as it takes.
Limited == who = "mail" \/ stage = "dial"

\* Nothing comes from the gateway; neither does it where each waits for the other to
\* speak first.
Silence ==
  \/ stage = "hello" /\ gateway.silent = "hello"
  \/ stage \in {"implicit", "upgrade"} /\ gateway.silent = "handshake"
  \/ stage = "talk" /\ gateway.silent = "talk"
  \/ stage = "hello" /\ channel = "clear" /\ gateway.speaks = "implicit"

-----------------------------------------------------------------------------

\* The arguments of SendEmail or RunDiagnostics.
Begin(c) ==
  /\ stage = "idle" /\ result = "none"
  /\ call' = c
  /\ IF c.kind = "send" THEN stage' = "message" /\ UNCHANGED who
                        ELSE stage' = "dial" /\ who' = "diag"
  /\ UNCHANGED <<gateway, channel, sealedTo, maxSize, result, offered>>

GoOn(next) ==
  /\ stage' = next
  /\ UNCHANGED <<call, gateway, who, channel, sealedTo, maxSize, result, offered>>

\* Deferred calls close the connection on every way out.
End(r) ==
  /\ stage' = "idle" /\ channel' = "closed" /\ result' = r
  /\ UNCHANGED <<call, gateway, who, sealedTo, maxSize, offered>>

Dial(w) ==
  /\ stage' = "dial" /\ who' = w
  /\ UNCHANGED <<call, gateway, channel, maxSize, result, offered>>

Recipients == CleanEmailList(call.to) \o call.cc

\* Secrets, addresses, template, size guard; any of the rest may refuse too.
ComposeMessage ==
  /\ stage = "message"
  /\ \/ /\ ValidEmailList(CleanEmailList(call.to)) /\ call.secret # "undecryptable"
        /\ GoOn(IF call.smime.sign \/ call.smime.encrypt THEN "smime" ELSE "options")
     \/ End("rejected")

\* setupSMIMEConfig and SignWithKeypair, which may refuse a key that could be loaded.
setupSMIMEConfig ==
  /\ stage = "smime"
  /\ \/ call.smime.sign /\ End("rejected")
     \/ IF SignerFails(call.smime) \/ RecipientsFail(call.smime, Recipients)
          THEN End("rejected")
          ELSE GoOn(IF call.smime.encrypt THEN "encrypt" ELSE "options")

\* The message is written out, which may fail, and encrypted for all certificates.
EncryptForRecipients ==
  /\ stage = "encrypt"
  /\ \/ End("rejected")
     \/ /\ ~EncryptionFails(RecipientCerts(call.smime, Recipients))
        /\ sealedTo' = Among(RecipientCerts(call.smime, Recipients))
        /\ IF call.size > ProbeAbove
             THEN Dial("probe")
             ELSE /\ stage' = "options"
                  /\ UNCHANGED <<call, gateway, who, channel, maxSize, result, offered>>

\* Variant: a gateway that states no limit has the limit 0.
CheckSizeUnstated ==
  /\ stage = "size"
  /\ IF call.size + Overhead > maxSize THEN End("tooBig") ELSE GoOn("options")

\* The estimate leaves out that base64 is a third longer.
CheckSize ==
  /\ stage = "size"
  /\ IF maxSize > 0 /\ call.size + Overhead > maxSize THEN End("tooBig") ELSE GoOn("options")

\* The options of the client.  BuildTLSConfig loads the authority in every mode.  The
\* client may not accept its options, which for a mail counts with the dialling; a dry
\* run stops once it is made.
ClientOptions ==
  /\ stage = "options"
  /\ IF call.ca = "broken" THEN End("rejected")
     ELSE IF call.dryRun THEN End("rehearsed") \/ End("failed")
     ELSE Dial("mail") /\ UNCHANGED sealedTo

-----------------------------------------------------------------------------

\* A connection.

Advance(next, chan) ==
  /\ stage' = next /\ channel' = chan
  /\ UNCHANGED <<call, gateway, who, sealedTo, maxSize, result, offered>>

Connect == stage = "dial" /\ Advance(IF Implicit THEN "implicit" ELSE "hello", "clear")

\* Only the mail has loaded the authority before it dials.
TLSHandshake ==
  /\ ~Silence /\ Accepts(TLSConfig)
  /\ who = "diag" => call.ca # "broken"

ImplicitTLS ==
  /\ stage = "implicit" /\ gateway.speaks = "implicit" /\ TLSHandshake
  /\ Advance("hello", "tls")

Hello ==
  /\ stage = "hello" /\ ~Silence
  /\ Advance(IF Upgrades THEN "upgrade" ELSE "talk", channel)

StartTLS ==
  /\ stage = "upgrade" /\ gateway.speaks = "starttls" /\ TLSHandshake
  /\ Advance("talk", "tls")

\* An error of the gateway or of the network at any step, or the end of the time limit.
\* That of the probe is passed over.
Fail ==
  /\ stage \in Connecting /\ (Silence => Limited)
  /\ IF who = "probe" THEN Advance("size", "closed") ELSE End("failed")

\* Every connection ends with QUIT, for whose reply it waits.
ReadSize ==
  /\ stage = "talk" /\ who = "probe" /\ ~Silence
  /\ maxSize' = gateway.size /\ stage' = "size" /\ channel' = "closed"
  /\ UNCHANGED <<call, gateway, who, sealedTo, result, offered>>

Report == stage = "talk" /\ who = "diag" /\ ~Silence /\ End("passed")

\* The message is handed over; the reply may be lost.
Transmit ==
  /\ stage = "talk" /\ who = "mail" /\ ~Silence
  /\ offered' = channel
  /\ stage' = "idle" /\ channel' = "closed" /\ result' \in {"sent", "failed"}
  /\ UNCHANGED <<call, gateway, who, sealedTo, maxSize>>

TransportStep ==
  \/ ComposeMessage \/ setupSMIMEConfig \/ EncryptForRecipients \/ CheckSize \/ ClientOptions
  \/ Connect \/ ImplicitTLS \/ Hello \/ StartTLS \/ Fail \/ ReadSize \/ Report \/ Transmit

\* A process that makes one call, to whomever.
TransportNext ==
  \/ \E kind, to : Begin([call EXCEPT !.kind = kind, !.to = to])
  \/ TransportStep

TransportSpec == TransportInit /\ [][TransportNext]_transportVars

-----------------------------------------------------------------------------

(* With --smime-encrypt nothing leaves in the clear: what the server is      *)
(* given is encrypted, To and Cc can all read it (each has a certificate it  *)
(* is encrypted for), and every certificate used is in date and meant for    *)
(* encryption.  Bcc is not looked at by the code, and not covered.           *)
SealedForAll ==
  offered # "no" /\ call.smime.encrypt =>
    /\ \A a \in Among(Recipients) : \E c \in sealedTo : a \in Subjects[c]
    /\ \A c \in sealedTo : ValidForEncryption(c)

(* The message is handed over on the channel the mode promises (README 2.1), *)
(* whatever the port, the gateway and the probe before it: in the clear only *)
(* in mode none; else to the pinned certificate if there is a pin, and to    *)
(* one that verifies unless a mode says otherwise and no authority is given. *)
ChannelAsAsked ==
  /\ offered = "clear" => call.mode = "none"
  /\ offered = "tls" =>
       /\ call.mode # "none"
       /\ call.pin # "none" => gateway.cert = call.pin
       /\ gateway.issuer = "self" =>
            call.pin # "none" \/ (call.ca = "none" /\ call.mode \in {"ignore-trust", "tls-direct"})
       /\ gateway.issuer = "private" =>
            call.pin # "none" \/ call.ca = "private" \/ call.mode \in {"ignore-trust", "tls-direct"}

(* A message is refused for its size only if the gateway stated a limit and  *)
(* the message, a third longer once encoded, is above it: a probe that       *)
(* failed, or a gateway that states none, never stops a message.             *)
SizeRefusalTrue ==
  result = "tooBig" =>
    gateway.size > 0 /\ (4 * call.size) \div 3 + Overhead > gateway.size

\* A mail with the same parameters would get through to the gateway.
MailWouldPass ==
  /\ call.ca # "broken"
  /\ IF call.mode = "none" THEN gateway.speaks # "implicit"
     ELSE /\ Accepts(BuildTLSConfig)
          /\ gateway.speaks = IF call.mode # "ignore-trust" /\ (call.smtps \/ call.mode = "tls-direct")
                                THEN "implicit" ELSE "starttls"

(* A diagnosis that passed means that a mail with the same parameters would  *)
(* reach the gateway, but for four cases in which the two connect            *)
(* differently: the gateway offers no STARTTLS, which the diagnosis passes   *)
(* over and a mail insists on; port 465 in a mode that makes a mail ignore   *)
(* it; mode none with a private authority, which only a mail loads; and a    *)
(* mode that is none of the four.                                            *)
PassedMeansReachable ==
  result = "passed" =>
    \/ MailWouldPass
    \/ gateway.speaks = "plain" /\ call.mode \in {"tls", "ignore-trust"}
    \/ call.smtps /\ call.mode \in {"none", "ignore-trust"}
    \/ call.mode = "none" /\ call.ca = "broken"
    \/ call.mode = "other"

=============================================================================
