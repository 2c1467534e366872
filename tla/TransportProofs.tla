---------------------------- MODULE TransportProofs ----------------------------
(***************************************************************************)
(* What Transport promises, for every call and gateway, and any certificates *)
(* and sizes.  The invariant follows a connection: what is known of it at    *)
(* each stage, and of the message at each stage of its building.             *)
(***************************************************************************)
EXTENDS Transport, TLAPS

Fields == {"kind", "mode", "smtps", "pin", "ca", "secret", "dryRun", "to", "cc", "smime", "size"}

\* All of the type invariant that the rest needs.
Typed ==
  /\ call = [f \in Fields |-> call[f]]
  /\ call.mode \in Modes /\ call.ca \in {"none", "private", "broken"} /\ call.size \in Nat
  /\ gateway.issuer \in {"public", "private", "self"} /\ gateway.size \in Nat
  /\ gateway.speaks \in {"implicit", "starttls", "plain"}

\* The message can be read by its recipients and by nobody else.
Sealed ==
  /\ \A a \in Among(Recipients) : \E c \in sealedTo : a \in Subjects[c]
  /\ \A c \in sealedTo : ValidForEncryption(c)

SealInv ==
  /\ stage = "encrypt" => ~RecipientsFail(call.smime, Recipients)
  /\ stage \in {"size", "options"} \cup Connecting /\ who # "diag" /\ call.smime.encrypt => Sealed
  /\ offered # "no" /\ call.smime.encrypt => Sealed

\* A connection that is encrypted has been checked.
Checked ==
  /\ channel = "tls" /\ Accepts(BuildTLSConfig)
  /\ who = "diag" => call.ca # "broken"

ConnInv ==
  /\ stage \in Connecting => who \in {"probe", "mail", "diag"}
  /\ stage \in Building => who # "diag"
  /\ stage = "idle" /\ result = "none" => who = "nobody"
  /\ who \in {"mail", "diag"} =>
       /\ stage = "implicit" => Implicit
       /\ stage = "upgrade" => Upgrades /\ gateway.speaks # "implicit"
       /\ stage = "hello" => IF Implicit THEN Checked /\ gateway.speaks = "implicit"
                                         ELSE channel = "clear"
       /\ stage = "talk" =>
            \/ Implicit /\ Checked /\ gateway.speaks = "implicit"
            \/ Upgrades /\ Checked /\ gateway.speaks = "starttls"
            \/ ~Implicit /\ ~Upgrades /\ channel = "clear" /\ gateway.speaks # "implicit"

OutcomeInv ==
  /\ stage # "idle" => result = "none" /\ offered = "no"
  /\ result = "none" => offered = "no"
  /\ maxSize \in {0, gateway.size}
  /\ ChannelAsAsked /\ SizeRefusalTrue /\ PassedMeansReachable

\* Each answer, and who can be answered so.
AnswerInv ==
  /\ result \in {"none", "rejected", "tooBig", "failed", "sent", "rehearsed", "passed"}
  /\ stage \in Building => who \in {"nobody", "probe"}
  /\ result = "failed" => who \in {"mail", "diag"} \/ call.dryRun
  /\ result = "passed" => who = "diag"
  /\ result = "sent" => offered # "no"
  /\ result = "rehearsed" => call.dryRun /\ who # "mail"
  /\ offered # "no" => who = "mail"

TransportInv == Typed /\ SealInv /\ ConnInv /\ OutcomeInv /\ AnswerInv

-----------------------------------------------------------------------------

(* If the index of the certificates has all recipients, each recipient has   *)
(* one of the certificates.                                                  *)
LEMMA IndexCovers ==
  ASSUME NEW s, NEW recipients, s.encrypt, ~RecipientsFail(s, recipients)
  PROVE  \A a \in Among(recipients) :
           \E c \in Among(RecipientCerts(s, recipients)) : a \in Subjects[c]
<1> DEFINE certs == RecipientCerts(s, recipients)
<1>1. Among(recipients) \subseteq DOMAIN BuildCertIndex(certs)
  BY DEF RecipientsFail
<1>2. DOMAIN BuildCertIndex(certs) = {b \in Addresses : PlacesOf(certs, b) # {}}
  BY DEF BuildCertIndex
<1>3. \A a : PlacesOf(certs, a) # {} => \E c \in Among(certs) : a \in Subjects[c]
  BY DEF PlacesOf, Among
<1> QED BY <1>1, <1>2, <1>3

(* An accepted certificate is the pinned one, or verifies, or need not.      *)
LEMMA AcceptedIsAsked ==
  ASSUME Typed, Accepts(BuildTLSConfig)
  PROVE  /\ call.pin # "none" => gateway.cert = call.pin
         /\ gateway.issuer = "self" =>
              call.pin # "none" \/ (call.ca = "none" /\ call.mode \in {"ignore-trust", "tls-direct"})
         /\ gateway.issuer = "private" =>
              call.pin # "none" \/ call.ca = "private" \/ call.mode \in {"ignore-trust", "tls-direct"}
BY DEF Typed, Accepts, BuildTLSConfig

LEMMA TransportInitInv == TransportInit => TransportInv
<1> SUFFICES ASSUME TransportInit PROVE TransportInv
  OBVIOUS
<1>1. Typed
  BY DEF TransportInit, Typed, Call, Gateway, Fields
<1> QED BY <1>1 DEF TransportInit, TransportInv, SealInv, ConnInv, OutcomeInv, AnswerInv, Building, Connecting,
                    ChannelAsAsked, SizeRefusalTrue, PassedMeansReachable

(* Another kind or other recipients leave the rest of a call alone.          *)
LEMMA CallWith ==
  ASSUME Typed, NEW kind, NEW to
  PROVE  LET c == [call EXCEPT !.kind = kind, !.to = to]
         IN  /\ c = [f \in Fields |-> c[f]]
             /\ c.mode = call.mode /\ c.ca = call.ca /\ c.size = call.size /\ c.kind = kind
<1> DEFINE half == [call EXCEPT !.kind = kind]
           c    == [half EXCEPT !.to = to]
<1>1. half = [f \in Fields |-> half[f]] /\ half.mode = call.mode /\ half.ca = call.ca
      /\ half.size = call.size /\ half.kind = kind
  BY DEF Typed, Fields
<1>2. c = [call EXCEPT !.kind = kind, !.to = to]
  BY Zenon
<1> HIDE DEF half
<1>3. c = [f \in Fields |-> c[f]] /\ c.mode = half.mode /\ c.ca = half.ca
      /\ c.size = half.size /\ c.kind = half.kind
  BY <1>1 DEF Fields
<1> HIDE DEF c
<1> QED BY <1>1, <1>2, <1>3, Zenon

(* Beginning a call changes none of what is assumed of it.                   *)
LEMMA BeginInv ==
  ASSUME TransportInv, NEW c, Begin(c), c = [f \in Fields |-> c[f]],
         c.mode = call.mode, c.ca = call.ca, c.size = call.size
  PROVE  TransportInv'
<1>1. /\ call' = c /\ UNCHANGED <<gateway, channel, sealedTo, maxSize, result, offered>>
      /\ stage = "idle" /\ result = "none"
  BY DEF Begin
<1>2. (stage' = "message" /\ who' = who) \/ (stage' = "dial" /\ who' = "diag")
  <2>1. CASE c.kind = "send"
    BY <2>1 DEF Begin
  <2>2. CASE c.kind # "send"
    BY <2>2 DEF Begin
  <2> QED BY <2>1, <2>2
<1>4. Typed'
  BY <1>1 DEF TransportInv, Typed
<1>5. offered = "no" /\ who = "nobody"
  BY <1>1 DEF TransportInv, OutcomeInv, ConnInv
<1>6. OutcomeInv'
  BY <1>1, <1>2, <1>5 DEF TransportInv, OutcomeInv, ChannelAsAsked, SizeRefusalTrue, PassedMeansReachable
<1>7. SealInv'
  BY <1>1, <1>2, <1>5 DEF SealInv, Connecting
<1>8. ConnInv'
  BY <1>1, <1>2, <1>5 DEF ConnInv, Connecting, Building
<1>9. AnswerInv'
  BY <1>1, <1>2, <1>5 DEF AnswerInv, Building
<1> QED BY <1>4, <1>6, <1>7, <1>8, <1>9 DEF TransportInv

-----------------------------------------------------------------------------

(* As long as the call is the same, so are its recipients.                   *)
LEMMA SameCall ==
  ASSUME call' = call
  PROVE  /\ Recipients' = Recipients
         /\ RecipientsFail(call.smime, Recipients)' = RecipientsFail(call.smime, Recipients)
<1>1. Recipients' = Recipients
  BY DEF Recipients
<1> QED BY <1>1

(* What all steps of a call leave alone.                                     *)
LEMMA StepKeeps ==
  ASSUME TransportInv, TransportStep
  PROVE  /\ UNCHANGED <<call, gateway>>
         /\ stage # "idle" /\ result = "none" /\ offered = "no"
         /\ offered' = "no" \/ Transmit
<1>1. UNCHANGED <<call, gateway>> /\ stage # "idle" /\ (offered' = offered \/ Transmit)
  <2> USE DEF GoOn, End, Dial, Advance
  <2>1. CASE ComposeMessage         BY <2>1 DEF ComposeMessage
  <2>2. CASE setupSMIMEConfig       BY <2>2 DEF setupSMIMEConfig
  <2>3. CASE EncryptForRecipients   BY <2>3 DEF EncryptForRecipients
  <2>4. CASE CheckSize              BY <2>4 DEF CheckSize
  <2>5. CASE ClientOptions          BY <2>5 DEF ClientOptions
  <2>6. CASE Connect                BY <2>6 DEF Connect
  <2>7. CASE ImplicitTLS            BY <2>7 DEF ImplicitTLS
  <2>8. CASE Hello                  BY <2>8 DEF Hello
  <2>9. CASE StartTLS               BY <2>9 DEF StartTLS
  <2>10. CASE Fail                  BY <2>10 DEF Fail, Connecting
  <2>11. CASE ReadSize              BY <2>11 DEF ReadSize
  <2>12. CASE Report                BY <2>12 DEF Report
  <2>13. CASE Transmit              BY <2>13 DEF Transmit
  <2> QED BY <2>1, <2>2, <2>3, <2>4, <2>5, <2>6, <2>7, <2>8, <2>9, <2>10, <2>11, <2>12, <2>13
          DEF TransportStep
<1> QED BY <1>1 DEF TransportInv, OutcomeInv

(* Nothing is given to a server before it is encrypted for everybody.        *)
LEMMA StepSeals ==
  ASSUME TransportInv, TransportStep
  PROVE  SealInv'
<1> DEFINE Later == {"size", "options"} \cup Connecting
<1>1. /\ UNCHANGED <<call, gateway>> /\ stage # "idle" /\ offered = "no"
      /\ offered' = "no" \/ Transmit
  BY StepKeeps
<1>2. SealInv /\ ConnInv
  BY DEF TransportInv
<1>3. Recipients' = Recipients /\ RecipientsFail(call.smime, Recipients)' = RecipientsFail(call.smime, Recipients)
  BY <1>1, SameCall
<1>4. sealedTo' = sealedTo => Sealed' = Sealed
  BY <1>3 DEF Sealed, Among, ValidForEncryption
<1> USE DEF GoOn, End, Dial, Advance, Building, Connecting
<1>5. CASE ComposeMessage
  BY <1>1, <1>2, <1>5 DEF ComposeMessage, SealInv
<1>6. CASE setupSMIMEConfig
  BY <1>1, <1>2, <1>3, <1>6 DEF setupSMIMEConfig, SealInv
<1>7. CASE EncryptForRecipients
  <2>1. CASE End("rejected")
    BY <1>1, <2>1, <1>7 DEF SealInv, EncryptForRecipients
  <2>2. CASE /\ ~EncryptionFails(RecipientCerts(call.smime, Recipients))
             /\ sealedTo' = Among(RecipientCerts(call.smime, Recipients))
             /\ stage' \in {"dial", "options"} /\ offered' = offered
    <3>1. ASSUME call.smime.encrypt PROVE Sealed'
      <4>1. ~RecipientsFail(call.smime, Recipients)
        BY <1>2, <1>7 DEF SealInv, EncryptForRecipients
      <4>2. \A a \in Among(Recipients) : \E c \in sealedTo' : a \in Subjects[c]
        BY <2>2, <3>1, <4>1, IndexCovers
      <4>3. \A c \in sealedTo' : ValidForEncryption(c)
        BY <2>2 DEF EncryptionFails
      <4> QED BY <1>3, <4>2, <4>3 DEF Sealed, Among, ValidForEncryption
    <3> QED BY <1>1, <2>2, <3>1 DEF SealInv
  <2> QED BY <1>7, <2>1, <2>2 DEF EncryptForRecipients
<1>8. CASE CheckSize
  BY <1>1, <1>2, <1>4, <1>8 DEF CheckSize, SealInv
<1>9. CASE ClientOptions
  BY <1>1, <1>2, <1>4, <1>9 DEF ClientOptions, SealInv, ConnInv
<1>10. CASE Connect \/ ImplicitTLS \/ Hello \/ StartTLS
  BY <1>1, <1>2, <1>4, <1>10 DEF Connect, ImplicitTLS, Hello, StartTLS, SealInv
<1>11. CASE Fail \/ ReadSize \/ Report
  BY <1>1, <1>2, <1>4, <1>11 DEF Fail, ReadSize, Report, SealInv
<1>12. CASE Transmit
  BY <1>1, <1>2, <1>4, <1>12 DEF Transmit, SealInv
<1> QED BY <1>5, <1>6, <1>7, <1>8, <1>9, <1>10, <1>11, <1>12 DEF TransportStep

(* What is known of a connection at each stage.                              *)
LEMMA StepConnects ==
  ASSUME TransportInv, TransportStep
  PROVE  ConnInv'
<1>1. UNCHANGED <<call, gateway>> /\ stage # "idle" /\ result = "none"
  BY StepKeeps
<1>2. ConnInv /\ gateway.speaks \in {"implicit", "starttls", "plain"}
  BY DEF TransportInv, Typed
<1>3. /\ who' = who => (Implicit' = Implicit /\ Upgrades' = Upgrades)
      /\ Accepts(BuildTLSConfig)' = Accepts(BuildTLSConfig)
  BY <1>1 DEF Implicit, Upgrades, Accepts, BuildTLSConfig
<1>4. CASE stage \in Building
  <2>1. stage' \in Building \cup {"idle", "dial"} /\ (stage' = "idle" => result' # "none")
    BY <1>4, StepKeeps DEF TransportStep, ComposeMessage, setupSMIMEConfig, EncryptForRecipients, CheckSize,
         ClientOptions, Connect, ImplicitTLS, Hello, StartTLS, Fail, ReadSize, Report, Transmit,
         GoOn, End, Dial, Building, Connecting
  <2>2. who' = who \/ who' \in {"probe", "mail"}
    BY <1>4 DEF TransportStep, ComposeMessage, setupSMIMEConfig, EncryptForRecipients, CheckSize,
         ClientOptions, Connect, ImplicitTLS, Hello, StartTLS, Fail, ReadSize, Report, Transmit,
         GoOn, End, Dial, Building, Connecting
  <2>3. stage' = "dial" => who' \in {"probe", "mail"}
    BY <1>4 DEF TransportStep, ComposeMessage, setupSMIMEConfig, EncryptForRecipients, CheckSize,
         ClientOptions, Connect, ImplicitTLS, Hello, StartTLS, Fail, ReadSize, Report, Transmit,
         GoOn, End, Dial, Building, Connecting
  <2> QED BY <1>2, <1>4, <2>1, <2>2, <2>3 DEF ConnInv, Building, Connecting
<1> USE DEF Advance, End, Building, Connecting
<1>5. CASE Connect
  BY <1>1, <1>2, <1>3, <1>5 DEF Connect, ConnInv
<1>6. CASE ImplicitTLS
  <2>1. who # "probe" => Checked'
    BY <1>3, <1>6, <1>1 DEF ImplicitTLS, TLSHandshake, TLSConfig, Checked
  <2> QED BY <1>1, <1>2, <1>3, <1>6, <2>1 DEF ImplicitTLS, ConnInv
<1>7. CASE Hello
  <2>1. who \in {"mail", "diag"} => ~(Implicit /\ Upgrades)
    BY DEF Implicit, Upgrades
  <2>2. channel = "clear" => gateway.speaks # "implicit"
    BY <1>7 DEF Hello, Silence
  <2>3. Checked => Checked'
    BY <1>1, <1>3, <1>7 DEF Hello, Checked
  <2> QED BY <1>1, <1>2, <1>3, <1>7, <2>1, <2>2, <2>3 DEF Hello, ConnInv
<1>8. CASE StartTLS
  <2>1. who # "probe" => Checked'
    BY <1>3, <1>8, <1>1 DEF StartTLS, TLSHandshake, TLSConfig, Checked
  <2> QED BY <1>1, <1>2, <1>3, <1>8, <2>1 DEF StartTLS, ConnInv
<1>9. CASE Fail
  BY <1>1, <1>2, <1>9 DEF Fail, ConnInv
<1>10. CASE ReadSize \/ Report \/ Transmit
  BY <1>1, <1>2, <1>10 DEF ReadSize, Report, Transmit, ConnInv
<1> QED BY <1>4, <1>5, <1>6, <1>7, <1>8, <1>9, <1>10
        DEF TransportStep, ComposeMessage, setupSMIMEConfig, EncryptForRecipients, CheckSize, ClientOptions

(* What comes out of a call.                                                 *)
LEMMA StepEnds ==
  ASSUME TransportInv, TransportStep
  PROVE  OutcomeInv'
<1>1. /\ UNCHANGED <<call, gateway>> /\ stage # "idle" /\ result = "none" /\ offered = "no"
      /\ offered' = "no" \/ Transmit
  BY StepKeeps
<1>2. Typed /\ ConnInv /\ maxSize \in {0, gateway.size}
  BY DEF TransportInv, OutcomeInv
<1> USE DEF GoOn, End, Dial, Advance, Building, Connecting
<1>3. maxSize' \in {0, gateway'.size} /\ (stage' # "idle" => result' = "none" /\ offered' = "no")
      /\ (result' = "none" => offered' = "no")
  BY <1>1, <1>2 DEF TransportStep, ComposeMessage, setupSMIMEConfig, EncryptForRecipients, CheckSize,
       ClientOptions, Connect, ImplicitTLS, Hello, StartTLS, Fail, ReadSize, Report, Transmit
<1>4. ChannelAsAsked'
  <2>1. CASE Transmit
    <3>1. ~Implicit /\ ~Upgrades => call.mode = "none"
      BY <2>1 DEF Transmit, Upgrades
    <3>2. Implicit \/ Upgrades => call.mode # "none"
      BY <2>1 DEF Transmit, Upgrades, Implicit
    <3>3. \/ channel = "tls" /\ Accepts(BuildTLSConfig) /\ call.mode # "none"
          \/ channel = "clear" /\ call.mode = "none"
      BY <1>2, <2>1, <3>1, <3>2 DEF Transmit, ConnInv, Checked
    <3>4. offered' = channel
      BY <2>1 DEF Transmit
    <3> QED BY <1>1, <1>2, <3>3, <3>4, AcceptedIsAsked DEF ChannelAsAsked
  <2> QED BY <1>1, <2>1 DEF ChannelAsAsked
<1>5. SizeRefusalTrue'
  <2>1. result' = "tooBig" => CheckSize /\ maxSize > 0 /\ call.size + Overhead > maxSize
    BY <1>1 DEF TransportStep, ComposeMessage, setupSMIMEConfig, EncryptForRecipients, CheckSize,
       ClientOptions, Connect, ImplicitTLS, Hello, StartTLS, Fail, ReadSize, Report, Transmit
  <2>2. \A n \in Nat : (4 * n) \div 3 >= n
    OBVIOUS
  <2>3. Overhead \in Nat /\ call.size \in Nat /\ gateway.size \in Nat /\ (4 * call.size) \div 3 >= call.size
        /\ (4 * call.size) \div 3 \in Nat
    BY <1>2, <2>2, TransportAssumption DEF Typed
  <2> QED BY <1>1, <1>2, <2>1, <2>3 DEF SizeRefusalTrue
<1>6. PassedMeansReachable'
  <2>1. result' = "passed" => Report
    BY <1>1 DEF TransportStep, ComposeMessage, setupSMIMEConfig, EncryptForRecipients, CheckSize,
       ClientOptions, Connect, ImplicitTLS, Hello, StartTLS, Fail, ReadSize, Report, Transmit
  <2>2. CASE Report
    <3>1. call.mode \in Modes /\ gateway.speaks \in {"implicit", "starttls", "plain"} /\ who = "diag"
          /\ call' = call /\ gateway' = gateway
      BY <1>1, <1>2, <2>2 DEF Typed, Report
    <3>2. CASE Implicit /\ Checked /\ gateway.speaks = "implicit"
      BY <3>1, <3>2 DEF PassedMeansReachable, MailWouldPass, Implicit, Checked, Modes, Accepts, BuildTLSConfig
    <3>3. CASE Upgrades /\ Checked /\ gateway.speaks = "starttls"
      BY <3>1, <3>3 DEF PassedMeansReachable, MailWouldPass, Upgrades, Checked, Modes, Accepts, BuildTLSConfig
    <3>4. CASE ~Implicit /\ ~Upgrades /\ channel = "clear" /\ gateway.speaks # "implicit"
      BY <3>1, <3>4 DEF PassedMeansReachable, MailWouldPass, Upgrades, Implicit, Modes
    <3> QED BY <1>2, <2>2, <3>1, <3>2, <3>3, <3>4 DEF ConnInv, Report
  <2> QED BY <2>1, <2>2 DEF PassedMeansReachable
<1> QED BY <1>3, <1>4, <1>5, <1>6 DEF OutcomeInv

(* Who is answered, and how.                                                 *)
LEMMA StepAnswers ==
  ASSUME TransportInv, TransportStep
  PROVE  AnswerInv' /\ (who' = "diag" <=> who = "diag")
<1>1. UNCHANGED <<call, gateway>> /\ stage # "idle" /\ result = "none" /\ offered = "no"
  BY StepKeeps
<1>2. AnswerInv /\ (stage \in Connecting => who \in {"probe", "mail", "diag"})
  BY DEF TransportInv, ConnInv
<1> USE DEF GoOn, End, Dial, Advance, Building, Connecting
<1>3. CASE ComposeMessage \/ setupSMIMEConfig \/ EncryptForRecipients
  BY <1>1, <1>2, <1>3 DEF ComposeMessage, setupSMIMEConfig, EncryptForRecipients, AnswerInv
<1>4. CASE CheckSize \/ ClientOptions
  BY <1>1, <1>2, <1>4 DEF CheckSize, ClientOptions, AnswerInv
<1>5. CASE Connect \/ ImplicitTLS \/ Hello \/ StartTLS
  BY <1>1, <1>2, <1>5 DEF Connect, ImplicitTLS, Hello, StartTLS, AnswerInv
<1>6. CASE Fail \/ ReadSize \/ Report
  BY <1>1, <1>2, <1>6 DEF Fail, ReadSize, Report, AnswerInv
<1>7. CASE Transmit
  <2>1. channel # "no"
    BY <1>7 DEF Transmit, TransportInv, ConnInv, Checked
  <2> QED BY <1>1, <1>2, <1>7, <2>1 DEF Transmit, AnswerInv
<1> QED BY <1>3, <1>4, <1>5, <1>6, <1>7 DEF TransportStep

LEMMA TransportStepInv == TransportInv /\ TransportStep => TransportInv'
<1> SUFFICES ASSUME TransportInv, TransportStep PROVE TransportInv'
  OBVIOUS
<1>1. Typed'
  BY StepKeeps DEF TransportInv, Typed
<1> QED BY <1>1, StepSeals, StepConnects, StepEnds, StepAnswers DEF TransportInv

LEMMA TransportStutterInv == TransportInv /\ UNCHANGED transportVars => TransportInv'
<1> SUFFICES ASSUME TransportInv, UNCHANGED transportVars PROVE TransportInv'
  OBVIOUS
<1> USE DEF transportVars
<1>1. Typed' /\ OutcomeInv'
  BY DEF TransportInv, Typed, OutcomeInv, Accepts, BuildTLSConfig, ChannelAsAsked, SizeRefusalTrue,
         PassedMeansReachable, MailWouldPass
<1>2. ConnInv'
  BY DEF TransportInv, ConnInv, Building, Connecting, Implicit, Upgrades, Checked, Accepts, BuildTLSConfig
<1>3. SealInv'
  BY SameCall DEF TransportInv, SealInv, Sealed, Building, Connecting, Among, ValidForEncryption
<1>4. AnswerInv'
  BY DEF TransportInv, AnswerInv, Building
<1> QED BY <1>1, <1>2, <1>3, <1>4 DEF TransportInv

-----------------------------------------------------------------------------

LEMMA TransportNextInv == TransportInv /\ [TransportNext]_transportVars => TransportInv'
<1> SUFFICES ASSUME TransportInv, [TransportNext]_transportVars PROVE TransportInv'
  OBVIOUS
<1>1. CASE TransportStep
  BY <1>1, TransportStepInv
<1>2. ASSUME NEW kind, NEW to, Begin([call EXCEPT !.kind = kind, !.to = to])
      PROVE  TransportInv'
  <2> DEFINE c == [call EXCEPT !.kind = kind, !.to = to]
  <2>1. /\ c = [f \in Fields |-> c[f]]
        /\ c.mode = call.mode /\ c.ca = call.ca /\ c.size = call.size /\ c.kind = kind
    BY CallWith, Zenon DEF TransportInv
  <2>2. Begin(c)
    BY <1>2
  <2> HIDE DEF c
  <2> QED BY <2>1, <2>2, BeginInv, Zenon
<1>3. CASE UNCHANGED transportVars
  BY <1>3, TransportStutterInv
<1> QED BY <1>1, <1>2, <1>3, Zenon DEF TransportNext

THEOREM TransportInvariant == TransportSpec => []TransportInv
<1>1. TransportInit => TransportInv
  BY TransportInitInv
<1>2. TransportInv /\ [TransportNext]_transportVars => TransportInv'
  BY TransportNextInv
<1> QED BY <1>1, <1>2, PTL DEF TransportSpec

(* With --smime-encrypt the server is given what every recipient in To and   *)
(* Cc can read, encrypted for certificates that may be used for it.          *)
THEOREM TransportSeals == TransportSpec => []SealedForAll
<1>1. TransportInv => SealedForAll
  BY DEF TransportInv, SealInv, Sealed, SealedForAll
<1> QED BY <1>1, TransportInvariant, PTL

(* The message is handed over in the clear in mode none alone, and else to   *)
(* the pinned certificate, or one that verifies where the mode asks for it.  *)
THEOREM TransportChannel == TransportSpec => []ChannelAsAsked
<1>1. TransportInv => ChannelAsAsked
  BY DEF TransportInv, OutcomeInv
<1> QED BY <1>1, TransportInvariant, PTL

(* A message refused for its size is above the limit the gateway stated.     *)
THEOREM TransportSize == TransportSpec => []SizeRefusalTrue
<1>1. TransportInv => SizeRefusalTrue
  BY DEF TransportInv, OutcomeInv
<1> QED BY <1>1, TransportInvariant, PTL

(* Where a diagnosis passed a mail gets through, but for the named cases.    *)
THEOREM TransportDiagnosis == TransportSpec => []PassedMeansReachable
<1>1. TransportInv => PassedMeansReachable
  BY DEF TransportInv, OutcomeInv
<1> QED BY <1>1, TransportInvariant, PTL

-----------------------------------------------------------------------------

(* Another kind and other recipients make another call.                      *)
LEMMA CallTyped ==
  ASSUME call \in Call, NEW kind \in {"send", "diag"}, NEW to \in Seq(Addresses \cup {"blank", "bad"})
  PROVE  [call EXCEPT !.kind = kind, !.to = to] \in Call
BY DEF Call

LEMMA TransportTypeBegin ==
  ASSUME TransportTypeOK, NEW c \in Call, Begin(c)
  PROVE  TransportTypeOK'
BY DEF TransportTypeOK, Begin, Building, Connecting

LEMMA TransportTypeStep ==
  ASSUME TransportTypeOK, TransportInv, TransportStep
  PROVE  TransportTypeOK'
<1> USE DEF TransportTypeOK, GoOn, End, Dial, Advance, Building, Connecting
<1>1. CASE ComposeMessage \/ setupSMIMEConfig \/ CheckSize
  BY <1>1 DEF ComposeMessage, setupSMIMEConfig, CheckSize
<1>2. CASE EncryptForRecipients
  <2>1. sealedTo' \subseteq Certs
    BY <1>2, CertAssumption DEF EncryptForRecipients, EncryptionFails, ValidForEncryption
  <2> QED BY <1>2, <2>1 DEF EncryptForRecipients
<1>3. CASE ClientOptions
  BY <1>3 DEF ClientOptions
<1>4. CASE Connect \/ ImplicitTLS \/ Hello \/ StartTLS
  BY <1>4 DEF Connect, ImplicitTLS, Hello, StartTLS
<1>5. CASE Fail \/ Report
  BY <1>5 DEF Fail, Report
<1>6. CASE ReadSize
  <2>1. gateway.size \in Nat
    BY DEF Gateway
  <2> QED BY <1>6, <2>1 DEF ReadSize
<1>7. CASE Transmit
  <2>1. channel \in {"clear", "tls"}
    BY <1>7 DEF Transmit, TransportInv, ConnInv, Checked
  <2> QED BY <1>7, <2>1 DEF Transmit
<1> QED BY <1>1, <1>2, <1>3, <1>4, <1>5, <1>6, <1>7 DEF TransportStep

\* Nothing is built or dialled for a mail with a wrong address.
Addressed ==
  \/ stage = "message" /\ who \notin {"probe", "mail"}
  \/ stage = "idle" /\ who \notin {"probe", "mail"}
  \/ who = "diag"
  \/ ValidEmailList(CleanEmailList(call.to))

LEMMA StepAddresses ==
  ASSUME TransportInv, Addressed, TransportStep
  PROVE  Addressed'
<1>1. call' = call /\ (who' = "diag" <=> who = "diag")
  BY StepKeeps, StepAnswers
<1>2. CASE ~ComposeMessage /\ stage = "message"
  BY <1>2 DEF TransportStep, setupSMIMEConfig, EncryptForRecipients, CheckSize, ClientOptions, Connect,
       ImplicitTLS, Hello, StartTLS, Fail, ReadSize, Report, Transmit, Connecting
<1>3. CASE ComposeMessage
  BY <1>1, <1>3 DEF ComposeMessage, GoOn, End, Addressed
<1>4. CASE stage # "message"
  BY <1>1, <1>4, StepKeeps DEF Addressed
<1> QED BY <1>2, <1>3, <1>4

=============================================================================
