--------------------------- MODULE SharedStateProofs ---------------------------
(***************************************************************************)
(* The safety properties of SharedState for any number of callers,           *)
(* algorithms and encoders.  Each of the three resources has its own         *)
(* invariant: who has it, and what its owner has already done with it.       *)
(***************************************************************************)
EXTENDS SharedState, TLAPS

\* The holder of pkcs7Mutex is the caller inside EncryptForRecipients, and the
\* package variable holds what that caller has put there.
CipherInv ==
  /\ \A c \in Callers : pc[c] \in {"set", "mode", "key", "unlock"} <=> cipherOwner = c
  /\ \A c \in Callers : pc[c] \in {"mode", "key", "unlock"} => cipher = CipherOf[asked[c]]
  /\ CipherIsOwn

\* The holder of logMutex is the caller inside logAudit; after half a line the
\* log ends in that half.
LogInv ==
  /\ \A c \in Callers : pc[c] \in {"open", "line", "rest", "close log"} <=> logOwner = c
  /\ \A c \in Callers : pc[c] = "rest" => Len(log) > 0 /\ log[Len(log)] = <<c, "line">>
  /\ LinesWhole

\* An encoder is held by one caller at most, is then not in the pool, and writes
\* to that caller's buffer.
EncoderInv ==
  /\ \A c \in Callers :
       IF pc[c] \in {"write", "close"}
         THEN /\ holds[c] \in Encoders \ idle
              /\ target[holds[c]] = c
         ELSE holds[c] = Nobody
  /\ ArchiveIsOwn

SharedInv == TypeOK /\ CipherInv /\ LogInv /\ EncoderInv

-----------------------------------------------------------------------------

(* Append, entry by entry.                                                   *)
LEMMA AppendFacts ==
  ASSUME NEW S, NEW s \in Seq(S), NEW x \in S
  PROVE  /\ Append(s, x) \in Seq(S)
         /\ Len(s) \in Nat /\ Len(Append(s, x)) = Len(s) + 1
         /\ DOMAIN s = 1..Len(s) /\ DOMAIN Append(s, x) = 1..(Len(s) + 1)
         /\ Append(s, x)[Len(s) + 1] = x
         /\ \A k \in 1..Len(s) : Append(s, x)[k] = s[k]
OBVIOUS

\* Short sequences and those all but the last.
LEMMA AppendShort ==
  ASSUME NEW x, NEW y
  PROVE  Append(<<>>, x) = <<x>> /\ Append(<<x>>, y) = <<x, y>>
<1>1. Append(<<>>, x) = <<x>>
  OBVIOUS
<1>2. Append(<<x>>, y) = <<x, y>>
  <2>1. <<x>> \in Seq({x, y}) /\ Len(<<x>>) = 1 /\ Len(<<x, y>>) = 2 /\ <<x, y>> \in Seq({x, y})
    OBVIOUS
  <2>2. /\ Append(<<x>>, y) \in Seq({x, y}) /\ Len(Append(<<x>>, y)) = 2
        /\ Append(<<x>>, y)[1] = x /\ Append(<<x>>, y)[2] = y
    BY <2>1, AppendFacts
  <2>3. <<x, y>>[1] = x /\ <<x, y>>[2] = y
    OBVIOUS
  <2>4. \A s, t \in Seq({x, y}) : Len(s) = 2 /\ Len(t) = 2 /\ s[1] = t[1] /\ s[2] = t[2] => s = t
    <3> TAKE s, t \in Seq({x, y})
    <3> HAVE Len(s) = 2 /\ Len(t) = 2 /\ s[1] = t[1] /\ s[2] = t[2]
    <3>1. s \in [1..2 -> {x, y}] /\ t \in [1..2 -> {x, y}] /\ \A k \in 1..2 : k = 1 \/ k = 2
      OBVIOUS
    <3> QED BY <3>1
  <2> QED BY ONLY <2>1, <2>2, <2>3, <2>4
<1> QED BY <1>1, <1>2

LEMMA FrontOfAppend ==
  ASSUME NEW S, NEW s \in Seq(S), NEW x \in S
  PROVE  SubSeq(Append(s, x), 1, Len(Append(s, x)) - 1) = s
OBVIOUS

LEMMA FrontAndLast ==
  ASSUME NEW S, NEW s \in Seq(S), Len(s) > 0
  PROVE  /\ SubSeq(s, 1, Len(s) - 1) \in Seq(S)
         /\ Append(SubSeq(s, 1, Len(s) - 1), s[Len(s)]) = s
OBVIOUS

LEMMA SharedInitInv == Init => SharedInv
BY SharedAssumption
DEF Init, SharedInv, TypeOK, Steps, CipherInv, CipherIsOwn, LogInv, LinesWhole, EncoderInv,
    ArchiveIsOwn

(* Where the caller that moves stands before and after, and that the others  *)
(* stay where they are.                                                      *)
LEMMA StepFacts ==
  ASSUME TypeOK, NEW c \in Callers, NEW from \in Steps, NEW to \in Steps, Step(c, from, to)
  PROVE  /\ pc[c] = from /\ pc'[c] = to /\ pc' \in [Callers -> Steps]
         /\ \A d \in Callers \ {c} : pc'[d] = pc[d]
         /\ asked' = asked
BY DEF Step, TypeOK

\* The three kinds of step.
CipherStep(c) ==
  LockCipher(c) \/ SetCipher(c) \/ ChooseMode(c) \/ ChooseKey(c) \/ UnlockCipher(c)
EncoderStep(c) == GetEncoder(c) \/ WriteEncoder(c) \/ CloseEncoder(c) \/ EncodeFails(c)
LogStep(c) == \/ LockLog(c) \/ OpenLog(c) \/ WriteLine(c) \/ WriteRest(c) \/ WriteFails(c)
              \/ UnlockLog(c)

LogLabels == {"log", "open", "line", "rest", "close log"}

(* Each kind of step stays among the labels of its own resource or leaves    *)
(* them for labels at which the caller has nothing.                          *)
LEMMA Moves ==
  ASSUME TypeOK, NEW c \in Callers
  PROVE  /\ CipherStep(c) => /\ pc[c] \in CipherLabels
                             /\ pc'[c] \in CipherLabels \cup {"archive", "returned"}
                             /\ Cipher
         /\ EncoderStep(c) => /\ pc[c] \in EncoderLabels
                              /\ pc'[c] \in EncoderLabels \cup {"log"}
                              /\ Encoder
         /\ LogStep(c) => /\ pc[c] \in LogLabels
                          /\ pc'[c] \in LogLabels \cup {"returned"}
                          /\ Log
         /\ Caller(c) => /\ pc' \in [Callers -> Steps] /\ asked' = asked
                         /\ \A d \in Callers \ {c} : pc'[d] = pc[d]
<1> USE DEF TypeOK, Step, Steps
<1>1. CipherStep(c) => /\ pc[c] \in CipherLabels
                       /\ pc'[c] \in CipherLabels \cup {"archive", "returned"}
                       /\ Cipher
  BY DEF CipherStep, LockCipher, SetCipher, ChooseMode, ChooseKey, UnlockCipher, CipherLabels
<1>2. EncoderStep(c) => /\ pc[c] \in EncoderLabels
                        /\ pc'[c] \in EncoderLabels \cup {"log"}
                        /\ Encoder
  BY DEF EncoderStep, GetEncoder, WriteEncoder, CloseEncoder, EncodeFails, EncoderLabels
<1>3. LogStep(c) => /\ pc[c] \in LogLabels
                    /\ pc'[c] \in LogLabels \cup {"returned"}
                    /\ Log
  BY DEF LogStep, LockLog, OpenLog, WriteLine, WriteRest, WriteFails, UnlockLog, LogLabels
<1>4. CipherStep(c) => /\ pc' \in [Callers -> Steps] /\ asked' = asked
                       /\ \A d \in Callers \ {c} : pc'[d] = pc[d]
  BY DEF CipherStep, LockCipher, SetCipher, ChooseMode, ChooseKey, UnlockCipher
<1>5. EncoderStep(c) => /\ pc' \in [Callers -> Steps] /\ asked' = asked
                        /\ \A d \in Callers \ {c} : pc'[d] = pc[d]
  BY DEF EncoderStep, GetEncoder, WriteEncoder, CloseEncoder, EncodeFails
<1>6. LogStep(c) => /\ pc' \in [Callers -> Steps] /\ asked' = asked
                    /\ \A d \in Callers \ {c} : pc'[d] = pc[d]
  BY DEF LogStep, LockLog, OpenLog, WriteLine, WriteRest, WriteFails, UnlockLog
<1>7. Caller(c) => CipherStep(c) \/ EncoderStep(c) \/ LogStep(c)
  BY DEF Caller, CipherStep, EncoderStep, LogStep
<1> QED BY <1>1, <1>2, <1>3, <1>4, <1>5, <1>6, <1>7

-----------------------------------------------------------------------------

(* The cipher: its own steps keep the invariant, and no others touch it.     *)
LEMMA CipherKept ==
  ASSUME SharedInv, NEW c \in Callers, Caller(c)
  PROVE  CipherInv' /\ cipher' \in Ciphers /\ cipherOwner' \in Callers \cup {Nobody}
         /\ mode' \in [Callers -> Ciphers \cup {Nobody}]
         /\ key' \in [Callers -> Ciphers \cup {Nobody}]
<1> USE DEF SharedInv
<1>1. /\ pc' \in [Callers -> Steps] /\ asked' = asked
      /\ \A d \in Callers \ {c} : pc'[d] = pc[d]
  BY Moves
<1>2. CASE CipherStep(c)
  <2> USE <1>1, <1>2, SharedAssumption DEF TypeOK, CipherInv, CipherIsOwn, Step, Steps
  <2>1. CASE LockCipher(c)
    BY <2>1 DEF LockCipher
  <2>2. CASE SetCipher(c)
    <3>1. /\ pc[c] = "set" /\ pc'[c] = "mode" /\ cipher' = CipherOf[asked[c]]
          /\ UNCHANGED <<cipherOwner, mode, key>>
      BY <2>2 DEF SetCipher
    <3>2. cipherOwner = c /\ \A d \in Callers \ {c} : pc'[d] \notin {"set", "mode", "key", "unlock"}
      BY <3>1
    <3>3. asked[c] \in Names /\ CipherOf[asked[c]] \in Ciphers
      OBVIOUS
    <3>4. \A d \in Callers : pc'[d] \in {"set", "mode", "key", "unlock"} <=> cipherOwner' = d
      BY <3>1, <3>2
    <3>5. \A d \in Callers : pc'[d] \in {"mode", "key", "unlock"} => cipher' = CipherOf[asked'[d]]
      BY <3>1, <3>2
    <3> QED BY <3>1, <3>3, <3>4, <3>5
  <2>3. CASE ChooseMode(c)
    BY <2>3 DEF ChooseMode
  <2>4. CASE ChooseKey(c)
    BY <2>4 DEF ChooseKey
  <2>5. CASE UnlockCipher(c)
    <3>1. /\ pc[c] = "unlock" /\ pc'[c] \in {"archive", "returned"} /\ cipherOwner' = Nobody
          /\ UNCHANGED <<cipher, mode, key>>
      BY <2>5 DEF UnlockCipher
    <3>2. \A d \in Callers : pc'[d] \notin {"set", "mode", "key", "unlock"}
      <4>1. cipherOwner = c /\ pc'[c] \notin {"set", "mode", "key", "unlock"}
        BY <3>1
      <4>2. \A d \in Callers \ {c} : pc'[d] \notin {"set", "mode", "key", "unlock"}
        BY <4>1
      <4> QED BY <4>1, <4>2
    <3>3. \A d \in Callers : cipherOwner' # d
      BY <3>1
    <3> QED BY <3>1, <3>2, <3>3
  <2> QED BY <2>1, <2>2, <2>3, <2>4, <2>5 DEF CipherStep
<1>3. CASE EncoderStep(c) \/ LogStep(c)
  <2>1. UNCHANGED <<cipher, cipherOwner, mode, key>>
    BY <1>3, Moves DEF Encoder, Log, cipherVars
  <2>2. pc[c] \in EncoderLabels \cup LogLabels
        /\ pc'[c] \in EncoderLabels \cup LogLabels \cup {"returned"}
    BY <1>3, Moves DEF EncoderLabels, LogLabels
  <2> QED BY <1>1, <2>1, <2>2 DEF CipherInv, CipherIsOwn, TypeOK, EncoderLabels, LogLabels
<1> QED BY <1>2, <1>3 DEF Caller, CipherStep, EncoderStep, LogStep

\* The half line x has been written at the end of the log.
Appended(x) ==
  /\ log' \in Seq(Callers \X {"line", "rest"})
  /\ Len(log) \in Nat /\ Len(log') = Len(log) + 1
  /\ DOMAIN log = 1..Len(log) /\ DOMAIN log' = 1..(Len(log) + 1)
  /\ log'[Len(log) + 1] = x
  /\ \A k \in 1..Len(log) : log'[k] = log[k]

LEMMA AppendHalf ==
  ASSUME TypeOK, NEW c \in Callers, NEW half \in {"line", "rest"},
         log' = Append(log, <<c, half>>)
  PROVE  Appended(<<c, half>>) /\ Len(log') > 0 /\ log'[Len(log')] = <<c, half>>
<1> DEFINE Halves == Callers \X {"line", "rest"}
<1>1. log \in Seq(Halves) /\ <<c, half>> \in Halves
  BY DEF TypeOK
<1> HIDE DEF Halves
<1>2. Append(log, <<c, half>>) \in Seq(Halves)
  BY <1>1, AppendFacts
<1>3. Appended(<<c, half>>)
  BY <1>1, <1>2, AppendFacts DEF Appended, Halves
<1>4. Len(log') > 0 /\ Len(log') = Len(log) + 1
  BY <1>3 DEF Appended
<1>5. log'[Len(log) + 1] = <<c, half>>
  BY <1>3 DEF Appended
<1> QED BY <1>3, <1>4, <1>5

(* The log stays whole if what is written ends the half line before it.      *)
LEMMA WholeKept ==
  ASSUME LinesWhole, NEW c, NEW half, Appended(<<c, half>>),
         half = "rest" => Len(log) > 0 /\ log[Len(log)] = <<c, "line">>
  PROVE  LinesWhole'
<1> SUFFICES ASSUME NEW k \in DOMAIN log', log'[k][2] = "rest"
             PROVE  k > 1 /\ log'[k - 1] = <<log'[k][1], "line">>
  BY DEF LinesWhole
<1>1. CASE k = Len(log) + 1
  <2>1. log'[k] = <<c, half>>
    BY <1>1 DEF Appended
  <2>2. half = "rest" /\ log'[k][1] = c
    BY <2>1
  <2>3. k - 1 \in 1..Len(log) /\ k - 1 = Len(log)
    BY <1>1, <2>2 DEF Appended
  <2> QED BY <1>1, <2>2, <2>3 DEF Appended
<1>2. CASE k # Len(log) + 1
  <2>1. k \in 1..Len(log) /\ log'[k] = log[k] /\ k \in DOMAIN log
    BY <1>2 DEF Appended
  <2>2. k > 1 /\ log[k - 1] = <<log[k][1], "line">>
    BY <2>1 DEF LinesWhole
  <2>3. log'[k - 1] = log[k - 1]
    BY <2>1, <2>2 DEF Appended
  <2> QED BY <2>1, <2>2, <2>3
<1> QED BY <1>1, <1>2

(* The log: a line is begun and ended by the caller that holds the mutex.    *)
LEMMA LogKept ==
  ASSUME SharedInv, NEW c \in Callers, Caller(c)
  PROVE  LogInv' /\ logOwner' \in Callers \cup {Nobody}
         /\ log' \in Seq(Callers \X {"line", "rest"})
<1> USE DEF SharedInv
<1>1. /\ pc' \in [Callers -> Steps]
      /\ \A d \in Callers \ {c} : pc'[d] = pc[d]
  BY Moves
<1>2. CASE LogStep(c)
  <2> USE <1>1, SharedAssumption DEF TypeOK, LogInv, Step, Steps
  <2>1. CASE LockLog(c)
    BY <2>1 DEF LockLog, LinesWhole
  <2>2. CASE OpenLog(c)
    BY <2>2 DEF OpenLog, logVars, LinesWhole
  <2>3. CASE WriteLine(c)
    <3>1. /\ log' = Append(log, <<c, "line">>) /\ pc[c] = "line" /\ pc'[c] = "rest"
          /\ logOwner' = logOwner
      BY <2>3 DEF WriteLine
    <3>2. Appended(<<c, "line">>)
      BY <3>1, AppendHalf
    <3>3. LinesWhole'
      BY <3>2, WholeKept
    <3>4. log'[Len(log')] = <<c, "line">> /\ Len(log') > 0
      BY <3>1, AppendHalf
    <3>5. \A d \in Callers : pc'[d] \in {"open", "line", "rest", "close log"} <=> logOwner' = d
      BY <3>1
    <3>6. \A d \in Callers : pc'[d] = "rest" => d = c
      BY <3>1, <3>5
    <3> QED BY <3>1, <3>2, <3>3, <3>4, <3>5, <3>6 DEF Appended
  <2>4. CASE WriteRest(c)
    <3>1. /\ log' = Append(log, <<c, "rest">>) /\ pc[c] = "rest" /\ pc'[c] = "close log"
          /\ logOwner' = logOwner
      BY <2>4 DEF WriteRest
    <3>2. Appended(<<c, "rest">>)
      BY <3>1, AppendHalf
    <3>3. LinesWhole'
      BY <3>1, <3>2, WholeKept
    <3>4. \A d \in Callers : pc'[d] \in {"open", "line", "rest", "close log"} <=> logOwner' = d
      BY <3>1
    <3>5. \A d \in Callers : pc'[d] # "rest"
      BY <3>1, <3>4
    <3> QED BY <3>1, <3>2, <3>3, <3>4, <3>5 DEF Appended
  <2>5. CASE UnlockLog(c)
    BY <2>5 DEF UnlockLog, LinesWhole
  <2>6. CASE WriteFails(c)
    BY <2>6 DEF WriteFails, logVars, LinesWhole
  <2> QED BY <1>2, <2>1, <2>2, <2>3, <2>4, <2>5, <2>6 DEF LogStep
<1>3. CASE CipherStep(c) \/ EncoderStep(c)
  <2>1. UNCHANGED <<logOwner, log>>
    BY <1>3, Moves DEF Encoder, Cipher, logVars
  <2>2. pc[c] \in EncoderLabels \cup CipherLabels
        /\ pc'[c] \in EncoderLabels \cup CipherLabels \cup {"log", "returned"}
    BY <1>3, Moves DEF EncoderLabels, CipherLabels
  <2> QED BY <1>1, <2>1, <2>2 DEF LogInv, LinesWhole, TypeOK, EncoderLabels, CipherLabels
<1> QED BY <1>2, <1>3 DEF Caller, CipherStep, EncoderStep, LogStep

\* The buffers after a caller has written to its own, or cleared it.
Written(c) ==
  /\ buffer' \in [Callers -> Seq(Callers)]
  /\ ArchiveIsOwn'

LEMMA WriteOwn ==
  ASSUME TypeOK, ArchiveIsOwn, NEW c \in Callers,
         \/ buffer' = [buffer EXCEPT ![c] = Append(@, c)]
         \/ buffer' = [buffer EXCEPT ![c] = <<>>]
  PROVE  Written(c)
<1>1. buffer \in [Callers -> Seq(Callers)] /\ buffer[c] \in Seq(Callers)
  BY DEF TypeOK
<1>2. /\ Append(buffer[c], c) \in Seq(Callers)
      /\ \A k \in DOMAIN Append(buffer[c], c) : Append(buffer[c], c)[k] = c
  <2> DEFINE old == buffer[c]
  <2>1. /\ Append(old, c) \in Seq(Callers) /\ Len(old) \in Nat
        /\ DOMAIN old = 1..Len(old) /\ DOMAIN Append(old, c) = 1..(Len(old) + 1)
        /\ Append(old, c)[Len(old) + 1] = c
        /\ \A k \in 1..Len(old) : Append(old, c)[k] = old[k]
    BY <1>1, AppendFacts
  <2>2. \A k \in 1..Len(old) : old[k] = c
    BY <2>1 DEF ArchiveIsOwn
  <2> HIDE DEF old
  <2>3. \A k \in 1..(Len(old) + 1) : k \in 1..Len(old) \/ k = Len(old) + 1
    BY <2>1
  <2>4. \A k \in DOMAIN Append(old, c) : Append(old, c)[k] = c
    BY <2>1, <2>2, <2>3
  <2> QED BY <2>1, <2>4 DEF old
<1>3. \A d \in Callers \ {c} : buffer'[d] = buffer[d]
  BY <1>1
<1>4. CASE buffer' = [buffer EXCEPT ![c] = Append(@, c)]
  <2>1. buffer'[c] = Append(buffer[c], c)
    BY <1>1, <1>4
  <2>2. \A d \in Callers : \A k \in DOMAIN buffer'[d] : buffer'[d][k] = d
    BY <1>2, <1>3, <2>1 DEF ArchiveIsOwn
  <2>3. buffer' \in [Callers -> Seq(Callers)]
    BY <1>1, <1>2, <1>4
  <2> QED BY <2>2, <2>3 DEF Written, ArchiveIsOwn
<1>5. CASE buffer' = [buffer EXCEPT ![c] = <<>>]
  <2>1. buffer'[c] = <<>> /\ DOMAIN buffer'[c] = {}
    BY <1>1, <1>5
  <2>2. \A d \in Callers : \A k \in DOMAIN buffer'[d] : buffer'[d][k] = d
    BY <1>3, <2>1 DEF ArchiveIsOwn
  <2>3. buffer' \in [Callers -> Seq(Callers)]
    BY <1>1, <1>5
  <2> QED BY <2>2, <2>3 DEF Written, ArchiveIsOwn
<1> QED BY <1>4, <1>5

(* The pool: an encoder is put back before it is taken again.                *)
LEMMA EncoderKept ==
  ASSUME SharedInv, NEW c \in Callers, Caller(c)
  PROVE  EncoderInv' /\ idle' \subseteq Encoders
         /\ holds' \in [Callers -> Encoders \cup {Nobody}]
         /\ target' \in [Encoders -> Callers \cup {Nobody}]
         /\ buffer' \in [Callers -> Seq(Callers)]
<1> USE DEF SharedInv
<1>1. /\ pc' \in [Callers -> Steps]
      /\ \A d \in Callers \ {c} : pc'[d] = pc[d]
  BY Moves
<1>2. CASE EncoderStep(c)
  <2> USE <1>1, SharedAssumption DEF TypeOK, EncoderInv, Step, Steps
  <2>1. CASE GetEncoder(c)
    <3>1. PICK e \in Encoders : /\ e \in idle \/ target[e] = Nobody
                                /\ idle' = idle \ {e}
                                /\ holds' = [holds EXCEPT ![c] = e]
                                /\ target' = [target EXCEPT ![e] = c]
      BY <2>1 DEF GetEncoder
    <3>2. pc[c] = "archive" /\ pc'[c] = "write" /\ buffer' = buffer
      BY <2>1 DEF GetEncoder
    <3>3. \A d \in Callers \ {c} : pc[d] \in {"write", "close"} => holds[d] # e
      BY <3>1
    <3> QED BY <3>1, <3>2, <3>3 DEF ArchiveIsOwn
  <2>2. CASE WriteEncoder(c)
    <3>1. /\ pc[c] = "write" /\ pc'[c] = "close" /\ UNCHANGED <<idle, holds, target>>
          /\ buffer' = [buffer EXCEPT ![c] = Append(@, c)]
      BY <2>2 DEF WriteEncoder
    <3>2. Written(c)
      BY <3>1, WriteOwn
    <3> QED BY <3>1, <3>2 DEF Written
  <2>3. CASE CloseEncoder(c)
    <3>1. /\ pc[c] = "close" /\ pc'[c] = "log" /\ UNCHANGED target
          /\ idle' = idle \cup {holds[c]} /\ holds' = [holds EXCEPT ![c] = Nobody]
          /\ buffer' = [buffer EXCEPT ![c] = Append(@, c)]
      BY <2>3 DEF CloseEncoder
    <3>2. Written(c)
      BY <3>1, WriteOwn
    <3>3. \A d \in Callers \ {c} : pc[d] \in {"write", "close"} => holds[d] # holds[c]
      BY <3>1
    <3> QED BY <3>1, <3>2, <3>3 DEF Written
  <2>4. CASE EncodeFails(c)
    <3>1. /\ pc[c] \in {"write", "close"} /\ pc'[c] = "log" /\ UNCHANGED target
          /\ idle' = idle \cup {holds[c]} /\ holds' = [holds EXCEPT ![c] = Nobody]
          /\ buffer' = [buffer EXCEPT ![c] = <<>>]
      BY <2>4 DEF EncodeFails
    <3>2. Written(c)
      BY <3>1, WriteOwn
    <3>3. \A d \in Callers \ {c} : pc[d] \in {"write", "close"} => holds[d] # holds[c]
      BY <3>1
    <3> QED BY <3>1, <3>2, <3>3 DEF Written
  <2> QED BY <1>2, <2>1, <2>2, <2>3, <2>4 DEF EncoderStep
<1>3. CASE CipherStep(c) \/ LogStep(c)
  <2>1. UNCHANGED <<idle, holds, target, buffer>>
    BY <1>3, Moves DEF Log, Cipher, encoderVars
  <2>2. pc[c] \in LogLabels \cup CipherLabels
        /\ pc'[c] \in LogLabels \cup CipherLabels \cup {"archive", "returned"}
    BY <1>3, Moves DEF LogLabels, CipherLabels
  <2> QED BY <1>1, <2>1, <2>2 DEF EncoderInv, ArchiveIsOwn, TypeOK, LogLabels, CipherLabels
<1> QED BY <1>2, <1>3 DEF Caller, CipherStep, EncoderStep, LogStep

LEMMA SharedStepInv == SharedInv /\ [Next]_vars => SharedInv'
<1> SUFFICES ASSUME SharedInv, [Next]_vars PROVE SharedInv'
  OBVIOUS
<1>1. ASSUME NEW c \in Callers, Caller(c) PROVE SharedInv'
  <2>1. pc' \in [Callers -> Steps] /\ asked' = asked
    BY <1>1, Moves DEF SharedInv
  <2>2. TypeOK'
    BY <1>1, <2>1, CipherKept, LogKept, EncoderKept DEF SharedInv, TypeOK
  <2> QED BY <1>1, <2>2, CipherKept, LogKept, EncoderKept DEF SharedInv
<1>2. CASE UNCHANGED vars
  BY <1>2 DEF vars, cipherVars, logVars, encoderVars, SharedInv, TypeOK, CipherInv,
              CipherIsOwn, LogInv, LinesWhole, EncoderInv, ArchiveIsOwn
<1> QED BY <1>1, <1>2 DEF Next

-----------------------------------------------------------------------------

LEMMA SharedInvariant == Spec => []SharedInv
BY SharedInitInv, SharedStepInv, PTL DEF Spec

(* The type invariant of the shared state.                                   *)
THEOREM SharedTypeCorrect == Spec => []TypeOK
<1>1. SharedInv => TypeOK
  BY DEF SharedInv
<1> QED BY <1>1, SharedInvariant, PTL

(* Any number of concurrent callers get the cipher each asked for.           *)
THEOREM SharedCipherIsOwn == Spec => []CipherIsOwn
<1>1. SharedInv => CipherIsOwn
  BY DEF SharedInv, CipherInv
<1> QED BY <1>1, SharedInvariant, PTL

(* Their lines in the log are whole.                                         *)
THEOREM SharedLinesWhole == Spec => []LinesWhole
<1>1. SharedInv => LinesWhole
  BY DEF SharedInv, LogInv
<1> QED BY <1>1, SharedInvariant, PTL

(* Their archives hold their own mail.                                       *)
THEOREM SharedArchiveIsOwn == Spec => []ArchiveIsOwn
<1>1. SharedInv => ArchiveIsOwn
  BY DEF SharedInv, EncoderInv
<1> QED BY <1>1, SharedInvariant, PTL

-----------------------------------------------------------------------------

(* What the refinement needs besides: what a caller has made of its          *)
(* ciphertext and of its archive at each label.                              *)
OwnInv ==
  \A c \in Callers :
    /\ pc[c] \in {"key", "unlock"} => mode[c] = CipherOf[asked[c]]
    /\ pc[c] = "unlock" => key[c] = CipherOf[asked[c]]
    /\ pc[c] \in CipherLabels \cup {"archive", "write"} => buffer[c] = <<>>
    /\ pc[c] = "close" => buffer[c] = <<c>>

LEMMA OwnInitInv == Init => OwnInv
BY DEF Init, OwnInv

(* A step of a caller leaves alone what the others have made.                *)
LEMMA OthersKeep ==
  ASSUME SharedInv, NEW c \in Callers, Caller(c), NEW d \in Callers \ {c}
  PROVE  pc'[d] = pc[d] /\ asked' = asked /\ mode'[d] = mode[d] /\ key'[d] = key[d]
         /\ buffer'[d] = buffer[d]
<1> USE DEF SharedInv, TypeOK
<1>1. pc'[d] = pc[d] /\ asked' = asked
  BY Moves
<1>2. CASE CipherStep(c)
  BY <1>1, <1>2 DEF CipherStep, LockCipher, SetCipher, ChooseMode, ChooseKey, UnlockCipher,
     Cipher, encoderVars
<1>3. CASE EncoderStep(c)
  <2>1. UNCHANGED <<mode, key>>
    BY <1>3, Moves DEF Encoder, cipherVars
  <2>2. CASE GetEncoder(c)
    BY <1>1, <2>1, <2>2 DEF GetEncoder
  <2>3. CASE WriteEncoder(c) \/ CloseEncoder(c)
    <3>1. pc[c] \in {"write", "close"} /\ target[holds[c]] = c
      BY <2>3 DEF WriteEncoder, CloseEncoder, Step, EncoderInv
    <3> QED BY <1>1, <2>1, <2>3, <3>1 DEF WriteEncoder, CloseEncoder
  <2>4. CASE EncodeFails(c)
    BY <1>1, <2>1, <2>4 DEF EncodeFails
  <2> QED BY <1>3, <2>2, <2>3, <2>4 DEF EncoderStep
<1>4. CASE LogStep(c)
  BY <1>1, <1>4, Moves DEF Log, cipherVars, encoderVars
<1> QED BY <1>2, <1>3, <1>4 DEF Caller, CipherStep, EncoderStep, LogStep

LEMMA OwnStepInv == SharedInv /\ OwnInv /\ [Next]_vars => OwnInv'
<1> SUFFICES ASSUME SharedInv, OwnInv, [Next]_vars PROVE OwnInv'
  OBVIOUS
<1>1. ASSUME NEW c \in Callers, Caller(c) PROVE OwnInv'
  <2> DEFINE Own(d) ==
        /\ pc[d] \in {"key", "unlock"} => mode[d] = CipherOf[asked[d]]
        /\ pc[d] = "unlock" => key[d] = CipherOf[asked[d]]
        /\ pc[d] \in CipherLabels \cup {"archive", "write"} => buffer[d] = <<>>
        /\ pc[d] = "close" => buffer[d] = <<d>>
  <2>1. ASSUME NEW d \in Callers \ {c} PROVE Own(d)'
    BY <1>1, <2>1, OthersKeep DEF OwnInv
  <2>2. Own(c)'
    <3> USE DEF SharedInv, TypeOK, Step, OwnInv, CipherLabels, Steps
    <3>1. CASE CipherStep(c)
      <4>1. buffer' = buffer /\ asked' = asked
        BY <1>1, <3>1, Moves DEF Cipher, encoderVars
      <4>2. CASE LockCipher(c)
        BY <4>1, <4>2 DEF LockCipher
      <4>3. CASE SetCipher(c)
        BY <4>1, <4>3 DEF SetCipher
      <4>4. CASE ChooseMode(c)
        <5>1. cipher = CipherOf[asked[c]]
          BY <4>4 DEF ChooseMode, CipherInv
        <5> QED BY <4>1, <4>4, <5>1 DEF ChooseMode
      <4>5. CASE ChooseKey(c)
        <5>1. cipher = CipherOf[asked[c]]
          BY <4>5 DEF ChooseKey, CipherInv
        <5> QED BY <4>1, <4>5, <5>1 DEF ChooseKey
      <4>6. CASE UnlockCipher(c)
        BY <4>1, <4>6 DEF UnlockCipher
      <4> QED BY <3>1, <4>2, <4>3, <4>4, <4>5, <4>6 DEF CipherStep
    <3>2. CASE EncoderStep(c)
      <4>1. CASE GetEncoder(c)
        BY <4>1 DEF GetEncoder, Encoder
      <4>2. CASE WriteEncoder(c)
        <5>1. pc[c] = "write" /\ target[holds[c]] = c /\ buffer[c] = <<>>
          BY <4>2 DEF WriteEncoder, EncoderInv
        <5>2. Append(buffer[c], c) = <<c>>
          BY <5>1, AppendShort
        <5> QED BY <4>2, <5>1, <5>2 DEF WriteEncoder
      <4>3. CASE CloseEncoder(c) \/ EncodeFails(c)
        BY <4>3 DEF CloseEncoder, EncodeFails
      <4> QED BY <3>2, <4>1, <4>2, <4>3 DEF EncoderStep
    <3>3. CASE LogStep(c)
      BY <3>3, Moves DEF LogLabels
    <3> QED BY <1>1, <3>1, <3>2, <3>3 DEF Caller, CipherStep, EncoderStep, LogStep
  <2> HIDE DEF Own
  <2>3. \A d \in Callers : Own(d)'
    BY <2>1, <2>2
  <2> QED BY <2>3 DEF Own, OwnInv
<1>2. CASE UNCHANGED vars
  BY <1>2 DEF vars, cipherVars, encoderVars, OwnInv
<1> QED BY <1>1, <1>2 DEF Next

-----------------------------------------------------------------------------

(* A function that differs from another in one place at most.                *)
LEMMA OnePlace ==
  ASSUME NEW S, NEW c \in S, NEW f, NEW g, f = [d \in S |-> f[d]], g = [d \in S |-> g[d]],
         \A d \in S \ {c} : g[d] = f[d]
  PROVE  g = [f EXCEPT ![c] = g[c]] /\ (g[c] = f[c] => g = f)
OBVIOUS

(* A step of a caller shows in its own place of the mapping only.            *)
LEMMA BarsMove ==
  ASSUME SharedInv, NEW c \in Callers, Caller(c)
  PROVE  /\ doingBar' = [doingBar EXCEPT ![c] = doingBar'[c]]
         /\ sealedBar' = [sealedBar EXCEPT ![c] = sealedBar'[c]]
         /\ archiveBar' = [archiveBar EXCEPT ![c] = archiveBar'[c]]
         /\ doingBar'[c] = doingBar[c] => doingBar' = doingBar
         /\ sealedBar'[c] = sealedBar[c] => sealedBar' = sealedBar
         /\ archiveBar'[c] = archiveBar[c] => archiveBar' = archiveBar
<1>1. /\ doingBar = [d \in Callers |-> doingBar[d]]
      /\ doingBar' = [d \in Callers |-> doingBar'[d]]
  BY DEF doingBar
<1>2. /\ sealedBar = [d \in Callers |-> sealedBar[d]]
      /\ sealedBar' = [d \in Callers |-> sealedBar'[d]]
  BY DEF sealedBar
<1>3. /\ archiveBar = [d \in Callers |-> archiveBar[d]]
      /\ archiveBar' = [d \in Callers |-> archiveBar'[d]]
  BY DEF archiveBar
<1>4. ASSUME NEW d \in Callers \ {c}
      PROVE  doingBar'[d] = doingBar[d] /\ sealedBar'[d] = sealedBar[d]
             /\ archiveBar'[d] = archiveBar[d]
  BY <1>4, OthersKeep DEF doingBar, sealedBar, archiveBar
<1> QED BY <1>1, <1>2, <1>3, <1>4, OnePlace

(* One caller at most is in the middle of a line, and it has the mutex.      *)
LEMMA OneWriter ==
  ASSUME SharedInv, NEW c \in Callers, pc[c] \in {"line", "rest", "close log", "open"}
  PROVE  /\ pc[c] # "rest" => logBar = log
         /\ pc[c] = "rest" => /\ logBar = SubSeq(log, 1, Len(log) - 1)
                             /\ log = Append(logBar, <<c, "line">>)
<1>1. \A d \in Callers : pc[d] = "rest" => d = c
  BY DEF SharedInv, LogInv
<1>2. CASE pc[c] = "rest"
  <2>1. logBar = SubSeq(log, 1, Len(log) - 1)
    BY <1>2 DEF logBar
  <2>2. log \in Seq(Callers \X {"line", "rest"}) /\ Len(log) > 0 /\ log[Len(log)] = <<c, "line">>
    BY <1>2 DEF SharedInv, TypeOK, LogInv
  <2> QED BY <1>2, <2>1, <2>2, FrontAndLast
<1>3. CASE pc[c] # "rest"
  BY <1>1, <1>3 DEF logBar
<1> QED BY <1>2, <1>3

(* Nobody who was outside logAudit has begun a line by his step.             *)
LEMMA LogBarStays ==
  ASSUME SharedInv, NEW c \in Callers, Caller(c), UNCHANGED log,
         pc[c] = "rest" <=> pc'[c] = "rest"
  PROVE  logBar' = logBar
BY Moves DEF SharedInv, logBar

LEMMA StepRefines ==
  ASSUME SharedInv, SharedInv', OwnInv, NEW c \in Callers, Caller(c)
  PROVE  A!Call(c) \/ UNCHANGED <<asked, doingBar, sealedBar, archiveBar, logBar>>
<1> USE DEF SharedInv, TypeOK, Step, Steps, CipherLabels, EncoderLabels
<1>0. asked' = asked /\ \A d \in Callers \ {c} : pc'[d] = pc[d]
  BY Moves
<1>1. CASE CipherStep(c)
  <2>1. UNCHANGED <<log, buffer>> /\ pc[c] \in CipherLabels
        /\ pc'[c] \in CipherLabels \cup {"archive", "returned"}
    BY <1>1, Moves DEF Cipher, logVars, encoderVars
  <2>2. logBar' = logBar
    BY <2>1, LogBarStays
  <2>3. doingBar[c] = "encrypt" /\ sealedBar[c] = Nobody /\ archiveBar[c] = <<>>
    BY <2>1 DEF doingBar, sealedBar, archiveBar
  <2>4. archiveBar'[c] = <<>>
    <3>1. buffer'[c] = <<>>
      BY <2>1 DEF OwnInv
    <3> QED BY <3>1 DEF archiveBar
  <2>5. CASE UnlockCipher(c)
    <3>1. /\ pc[c] = "unlock" /\ pc'[c] \in {"archive", "returned"}
          /\ mode'[c] = CipherOf[asked[c]] /\ key'[c] = CipherOf[asked[c]]
      BY <2>5 DEF UnlockCipher, OwnInv
    <3>2. sealedBar'[c] = <<CipherOf[asked[c]], CipherOf[asked[c]]>>
      BY <3>1 DEF sealedBar
    <3>3. doingBar'[c] \in {"archive", "returned"}
      BY <3>1 DEF doingBar
    <3>4. A!Encrypt(c)
      BY <1>0, <2>2, <2>3, <2>4, <3>2, <3>3, BarsMove DEF A!Encrypt
    <3> QED BY <3>4 DEF A!Call
  <2>6. CASE ~UnlockCipher(c)
    <3>1. pc'[c] \in CipherLabels
      BY <1>1, <2>6 DEF CipherStep, LockCipher, SetCipher, ChooseMode, ChooseKey
    <3>2. doingBar'[c] = "encrypt" /\ sealedBar'[c] = Nobody
      BY <3>1 DEF doingBar, sealedBar
    <3> QED BY <1>0, <2>2, <2>3, <2>4, <3>2, BarsMove
  <2> QED BY <2>5, <2>6
<1>2. CASE EncoderStep(c)
  <2>1. UNCHANGED <<log, mode, key>> /\ pc[c] \in EncoderLabels
        /\ pc'[c] \in EncoderLabels \cup {"log"}
    BY <1>2, Moves DEF Encoder, logVars, cipherVars
  <2>2. logBar' = logBar
    BY <2>1, LogBarStays
  <2>3. doingBar[c] = "archive" /\ archiveBar[c] = <<>> /\ sealedBar'[c] = sealedBar[c]
    BY <2>1 DEF doingBar, sealedBar, archiveBar
  <2>4. CASE CloseEncoder(c) \/ EncodeFails(c)
    <3>1. pc'[c] = "log" /\ buffer'[c] \in {<<>>, <<c, c>>}
      <4>1. CASE CloseEncoder(c)
        <5>1. pc[c] = "close" /\ target[holds[c]] = c /\ buffer[c] = <<c>>
          BY <4>1 DEF CloseEncoder, EncoderInv, OwnInv
        <5>2. Append(buffer[c], c) = <<c, c>>
          BY <5>1, AppendShort
        <5> QED BY <4>1, <5>1, <5>2 DEF CloseEncoder
      <4>2. CASE EncodeFails(c)
        BY <4>2 DEF EncodeFails
      <4> QED BY <2>4, <4>1, <4>2
    <3>2. doingBar'[c] = "log" /\ archiveBar'[c] \in {<<>>, <<c, c>>}
      BY <3>1 DEF doingBar, archiveBar
    <3>3. A!Archive(c)
      BY <1>0, <2>2, <2>3, <3>2, BarsMove DEF A!Archive
    <3> QED BY <3>3 DEF A!Call
  <2>5. CASE GetEncoder(c) \/ WriteEncoder(c)
    <3>1. pc'[c] \in EncoderLabels
      BY <2>5 DEF GetEncoder, WriteEncoder
    <3>2. doingBar'[c] = "archive" /\ archiveBar'[c] = <<>>
      BY <3>1 DEF doingBar, archiveBar
    <3> QED BY <1>0, <2>2, <2>3, <3>2, BarsMove
  <2> QED BY <1>2, <2>4, <2>5 DEF EncoderStep
<1>3. CASE LogStep(c)
  <2>1. /\ pc[c] \in LogLabels /\ pc'[c] \in LogLabels \cup {"returned"}
        /\ UNCHANGED <<mode, key, buffer>>
    BY <1>3, Moves DEF Log, cipherVars, encoderVars
  <2>2. sealedBar'[c] = sealedBar[c] /\ archiveBar'[c] = archiveBar[c]
    BY <2>1 DEF sealedBar, archiveBar, LogLabels
  <2> DEFINE Quiet == UNCHANGED <<asked, doingBar, sealedBar, archiveBar, logBar>>
  <2>3. ASSUME doingBar'[c] = doingBar[c], logBar' = logBar PROVE Quiet
    BY <1>0, <2>2, <2>3, BarsMove
  <2>4. ASSUME doingBar[c] = "log", doingBar'[c] = "returned",
               logBar' \in {logBar, Append(logBar, <<c, "line">>),
                            Append(Append(logBar, <<c, "line">>), <<c, "rest">>)}
        PROVE  A!Call(c)
    <3>1. doingBar' = [doingBar EXCEPT ![c] = "returned"] /\ UNCHANGED <<asked, sealedBar, archiveBar>>
      BY <1>0, <2>2, <2>4, BarsMove
    <3>2. A!Log(c)
      BY <2>4, <3>1 DEF A!Log
    <3> QED BY <3>2 DEF A!Call
  <2> HIDE DEF Quiet
  <2>5. CASE LockLog(c)
    <3>1. pc[c] = "log" /\ pc'[c] = "open" /\ log' = log
      BY <2>5 DEF LockLog
    <3> QED BY <2>3, <3>1, LogBarStays DEF doingBar, Quiet
  <2>6. CASE OpenLog(c)
    <3>1. pc[c] = "open" /\ pc'[c] \in {"line", "close log"} /\ log' = log
      BY <2>6 DEF OpenLog, logVars
    <3>2. logBar' = logBar
      BY <3>1, LogBarStays
    <3>3. CASE pc'[c] = "line"
      BY <2>3, <3>1, <3>2, <3>3 DEF doingBar, Quiet
    <3>4. CASE pc'[c] = "close log"
      BY <2>4, <3>1, <3>2, <3>4 DEF doingBar
    <3> QED BY <3>1, <3>3, <3>4
  <2>7. CASE WriteLine(c)
    <3>1. pc[c] = "line" /\ pc'[c] = "rest" /\ log' = Append(log, <<c, "line">>)
      BY <2>7 DEF WriteLine
    <3>2. logBar = log
      BY <3>1, OneWriter
    <3>3. logBar' = SubSeq(log', 1, Len(log') - 1)
      BY <3>1 DEF logBar
    <3>4. log \in Seq(Callers \X {"line", "rest"}) /\ <<c, "line">> \in Callers \X {"line", "rest"}
      OBVIOUS
    <3>5. SubSeq(Append(log, <<c, "line">>), 1, Len(Append(log, <<c, "line">>)) - 1) = log
      BY ONLY <3>4, FrontOfAppend
    <3>6. logBar' = logBar
      BY ONLY <3>1, <3>2, <3>3, <3>5
    <3> QED BY <2>3, <3>1, <3>6 DEF doingBar, Quiet
  <2>8. CASE WriteRest(c) \/ WriteFails(c)
    <3>1. pc[c] \in {"line", "rest"} /\ pc'[c] = "close log"
          /\ log' \in {log, Append(log, <<c, "rest">>)}
          /\ (pc[c] = "line" => log' = log)
      BY <2>8 DEF WriteRest, WriteFails, logVars
    <3>2. logBar' = log'
      <4>1. \A d \in Callers : pc[d] = "rest" => d = c
        BY <3>1 DEF LogInv
      <4> QED BY <1>0, <3>1, <4>1 DEF logBar
    <3>3. CASE pc[c] = "line"
      <4>1. logBar' = logBar
        BY <3>1, <3>2, <3>3, OneWriter
      <4> QED BY <2>4, <3>1, <3>3, <4>1 DEF doingBar
    <3>4. CASE pc[c] = "rest"
      <4>1. log = Append(logBar, <<c, "line">>)
        BY <3>4, OneWriter
      <4>2. logBar' \in {Append(logBar, <<c, "line">>),
                         Append(Append(logBar, <<c, "line">>), <<c, "rest">>)}
        BY <3>1, <3>2, <4>1
      <4> QED BY <2>4, <3>1, <3>4, <4>2 DEF doingBar
    <3> QED BY <3>1, <3>3, <3>4
  <2>9. CASE UnlockLog(c)
    <3>1. pc[c] = "close log" /\ pc'[c] = "returned" /\ log' = log
      BY <2>9 DEF UnlockLog
    <3> QED BY <2>3, <3>1, LogBarStays DEF doingBar, Quiet
  <2> QED BY <1>3, <2>5, <2>6, <2>7, <2>8, <2>9 DEF LogStep, Quiet
<1> QED BY <1>1, <1>2, <1>3 DEF Caller, CipherStep, EncoderStep, LogStep

(* For any number of callers, algorithms and encoders, each of the three     *)
(* things a call does takes effect at one moment, whatever the others do     *)
(* between its steps.                                                        *)
THEOREM SharedRefines == Spec => AsIfAlone
<1>1. Init => A!Init
  BY DEF Init, A!Init, doingBar, sealedBar, archiveBar, logBar, CipherLabels, EncoderLabels
<1>2. SharedInv /\ OwnInv /\ SharedInv' /\ [Next]_vars => [A!Next]_(A!vars)
  <2> SUFFICES ASSUME SharedInv, OwnInv, SharedInv', [Next]_vars
               PROVE  A!Next \/ UNCHANGED A!vars
    OBVIOUS
  <2>1. ASSUME NEW c \in Callers, Caller(c) PROVE A!Next \/ UNCHANGED A!vars
    BY <2>1, StepRefines DEF A!Next, A!vars
  <2>2. CASE UNCHANGED vars
    BY <2>2 DEF vars, cipherVars, logVars, encoderVars, A!vars, doingBar, sealedBar, archiveBar,
                logBar
  <2> QED BY <2>1, <2>2 DEF Next
<1> QED BY <1>1, <1>2, SharedInvariant, OwnInitInv, OwnStepInv, PTL DEF Spec, AsIfAlone, A!Spec

=============================================================================
