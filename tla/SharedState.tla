------------------------------ MODULE SharedState ------------------------------
(***************************************************************************)
(* What concurrent calls of SendEmail in one process share: the package      *)
(* variable with which the pkcs7 library is told its cipher, the log file,    *)
(* and the pool of zstd encoders.  Each caller encrypts, archives and logs,   *)
(* in that order; what SendEmail does between is of no concern here.         *)
(***************************************************************************)
EXTENDS Naturals, Sequences

CONSTANTS Callers,
          Names,      \* values of --smime-algorithm
          Ciphers,    \* values of pkcs7.ContentEncryptionAlgorithm
          CipherOf,   \* the switch of EncryptForRecipients, from Names to Ciphers
          Default,    \* the library's own initial value
          Encoders,   \* bound: the encoders the pool ever makes
          Nobody

ASSUME SharedAssumption ==
  /\ CipherOf \in [Names -> Ciphers] /\ Default \in Ciphers
  /\ Nobody \notin Callers /\ Nobody \notin Encoders

VARIABLES asked,       \* the algorithm each caller was given
          pc,
          cipherOwner, \* who holds pkcs7Mutex
          cipher,      \* pkcs7.ContentEncryptionAlgorithm
          mode, key,   \* what each ciphertext was made with
          logOwner,    \* who holds logMutex
          log,         \* the log file: the halves of lines, as they were written
          idle,        \* encoders in the pool
          holds,       \* the encoder each caller has taken
          target,      \* the buffer each encoder writes to
          buffer       \* whose data is in each caller's buffer

cipherVars  == <<cipherOwner, cipher, mode, key>>
logVars     == <<logOwner, log>>
encoderVars == <<idle, holds, target, buffer>>

vars == <<asked, pc, cipherVars, logVars, encoderVars>>

Steps == {"encrypt", "set", "mode", "key", "unlock", "archive", "write", "close", "log",
          "open", "line", "rest", "close log", "returned"}

TypeOK ==
  /\ asked \in [Callers -> Names]
  /\ pc \in [Callers -> Steps]
  /\ cipherOwner \in Callers \cup {Nobody} /\ logOwner \in Callers \cup {Nobody}
  /\ cipher \in Ciphers
  /\ mode \in [Callers -> Ciphers \cup {Nobody}]
  /\ key \in [Callers -> Ciphers \cup {Nobody}]
  /\ log \in Seq(Callers \X {"line", "rest"})
  /\ idle \subseteq Encoders
  /\ holds \in [Callers -> Encoders \cup {Nobody}]
  /\ target \in [Encoders -> Callers \cup {Nobody}]
  /\ buffer \in [Callers -> Seq(Callers)]

Init ==
  /\ asked \in [Callers -> Names]
  /\ pc = [c \in Callers |-> "encrypt"]
  /\ cipherOwner = Nobody /\ logOwner = Nobody
  /\ cipher = Default
  /\ mode = [c \in Callers |-> Nobody] /\ key = [c \in Callers |-> Nobody]
  /\ log = <<>>
  /\ idle = {} /\ holds = [c \in Callers |-> Nobody]
  /\ target = [e \in Encoders |-> Nobody]
  /\ buffer = [c \in Callers |-> <<>>]

Step(c, from, to) == pc[c] = from /\ pc' = [pc EXCEPT ![c] = to] /\ UNCHANGED asked

-----------------------------------------------------------------------------

\* EncryptForRecipients, under pkcs7Mutex.

Cipher == UNCHANGED <<logVars, encoderVars>>

LockCipher(c) ==
  /\ Step(c, "encrypt", "set") /\ Cipher
  /\ cipherOwner = Nobody /\ cipherOwner' = c
  /\ UNCHANGED <<cipher, mode, key>>

\* Variant: the mutex covers the assignment alone.
SetAndUnlock(c) ==
  /\ Step(c, "set", "mode") /\ Cipher
  /\ cipher' = CipherOf[asked[c]] /\ cipherOwner' = Nobody
  /\ UNCHANGED <<mode, key>>

SetCipher(c) ==
  /\ Step(c, "set", "mode") /\ Cipher
  /\ cipher' = CipherOf[asked[c]]
  /\ UNCHANGED <<cipherOwner, mode, key>>

\* pkcs7.Encrypt reads the variable twice: for the mode of operation and, in the
\* function it then calls, for key length and identifier.
ChooseMode(c) ==
  /\ Step(c, "mode", "key") /\ Cipher
  /\ mode' = [mode EXCEPT ![c] = cipher]
  /\ UNCHANGED <<cipherOwner, cipher, key>>

ChooseKey(c) ==
  /\ Step(c, "key", "unlock") /\ Cipher
  /\ key' = [key EXCEPT ![c] = cipher]
  /\ UNCHANGED <<cipherOwner, cipher, mode>>

\* Variant: the mutex is released on the way out of a success only.
UnlockOnSuccess(c) ==
  /\ \/ Step(c, "unlock", "archive") /\ cipherOwner' = Nobody
     \/ Step(c, "unlock", "returned") /\ UNCHANGED cipherOwner
  /\ Cipher /\ UNCHANGED <<cipher, mode, key>>

\* The deferred Unlock, also when the library returned an error.
UnlockCipher(c) ==
  /\ Step(c, "unlock", "archive") \/ Step(c, "unlock", "returned")
  /\ Cipher
  /\ cipherOwner' = Nobody
  /\ UNCHANGED <<cipher, mode, key>>

-----------------------------------------------------------------------------

\* compressZstd.

Encoder == UNCHANGED <<cipherVars, logVars>>

\* Get and Reset: an idle encoder, or a new one.
GetEncoder(c) ==
  /\ Step(c, "archive", "write") /\ Encoder
  /\ \E e \in Encoders :
       /\ e \in idle \/ target[e] = Nobody
       /\ idle' = idle \ {e}
       /\ holds' = [holds EXCEPT ![c] = e]
       /\ target' = [target EXCEPT ![e] = c]
  /\ UNCHANGED buffer

\* What is written reaches the buffer in part at once, the rest on Close.
WriteEncoder(c) ==
  /\ Step(c, "write", "close") /\ Encoder
  /\ buffer' = [buffer EXCEPT ![target[holds[c]]] = Append(@, c)]
  /\ UNCHANGED <<idle, holds, target>>

\* Close and Put.
CloseEncoder(c) ==
  /\ Step(c, "close", "log") /\ Encoder
  /\ buffer' = [buffer EXCEPT ![target[holds[c]]] = Append(@, c)]
  /\ idle' = idle \cup {holds[c]} /\ holds' = [holds EXCEPT ![c] = Nobody]
  /\ UNCHANGED target

\* A failure of Write or Close puts the encoder back as well.
EncodeFails(c) ==
  /\ Step(c, "write", "log") \/ Step(c, "close", "log")
  /\ Encoder
  /\ idle' = idle \cup {holds[c]} /\ holds' = [holds EXCEPT ![c] = Nobody]
  /\ buffer' = [buffer EXCEPT ![c] = <<>>]
  /\ UNCHANGED target

-----------------------------------------------------------------------------

\* logAttempt and logAudit, under logMutex.

Log == UNCHANGED <<cipherVars, encoderVars>>

LockLog(c) ==
  /\ Step(c, "log", "open") /\ Log
  /\ logOwner = Nobody /\ logOwner' = c
  /\ UNCHANGED log

\* A file that cannot be opened is no error.
OpenLog(c) ==
  /\ Step(c, "open", "line") \/ Step(c, "open", "close log")
  /\ Log /\ UNCHANGED logVars

\* WriteString may take more than one write of the system.
WriteLine(c) ==
  /\ Step(c, "line", "rest") /\ Log
  /\ log' = Append(log, <<c, "line">>)
  /\ UNCHANGED logOwner

WriteRest(c) ==
  /\ Step(c, "rest", "close log") /\ Log
  /\ log' = Append(log, <<c, "rest">>)
  /\ UNCHANGED logOwner

\* A write that stops short; its error is discarded.  The half line it leaves has no end,
\* and the next caller's line is written on to it.
WriteFails(c) ==
  /\ Step(c, "line", "close log") \/ Step(c, "rest", "close log")
  /\ Log /\ UNCHANGED logVars

UnlockLog(c) ==
  /\ Step(c, "close log", "returned") /\ Log
  /\ logOwner' = Nobody
  /\ UNCHANGED log

-----------------------------------------------------------------------------

Caller(c) ==
  \/ LockCipher(c) \/ SetCipher(c) \/ ChooseMode(c) \/ ChooseKey(c) \/ UnlockCipher(c)
  \/ GetEncoder(c) \/ WriteEncoder(c) \/ CloseEncoder(c) \/ EncodeFails(c)
  \/ LockLog(c) \/ OpenLog(c) \/ WriteLine(c) \/ WriteRest(c)
  \/ WriteFails(c) \/ UnlockLog(c)

Next == \E c \in Callers : Caller(c)

Spec == Init /\ [][Next]_vars

\* Go schedules every goroutine that can run; each caller takes each mutex once,
\* so that no one waits behind an endless row of others.
FairSpec == Spec /\ \A c \in Callers : WF_vars(Caller(c))

-----------------------------------------------------------------------------

(* Every ciphertext is made with the cipher its own caller asked for, in     *)
(* mode and key alike, although all callers set the one package variable.    *)
CipherIsOwn ==
  \A c \in Callers : /\ mode[c] \in {Nobody, CipherOf[asked[c]]}
                     /\ key[c] \in {Nobody, CipherOf[asked[c]]}

(* No caller writes to the log between the two halves of another's line: a   *)
(* line that was begun and ended is in one piece.  It may follow, without a  *)
(* line break, half a line whose write failed.                               *)
LinesWhole ==
  \A k \in DOMAIN log :
    log[k][2] = "rest" => k > 1 /\ log[k - 1] = <<log[k][1], "line">>

(* An archive holds the mail of its own caller and nothing else, although    *)
(* the encoders change hands.                                                *)
ArchiveIsOwn == \A c \in Callers : \A k \in DOMAIN buffer[c] : buffer[c][k] = c

(* Every caller returns: no mutex is left locked, on no path out.            *)
AllReturn == \A c \in Callers : <>(pc[c] = "returned")

-----------------------------------------------------------------------------

\* The refinement mapping to Calls.  A ciphertext is made when the mutex is given
\* back, an archive when the encoder is, a line when its last write is done.

CipherLabels  == {"encrypt", "set", "mode", "key", "unlock"}
EncoderLabels == {"archive", "write", "close"}

doingBar == [c \in Callers |-> CASE pc[c] \in CipherLabels -> "encrypt"
                                 [] pc[c] \in EncoderLabels -> "archive"
                                 [] pc[c] \in {"log", "open", "line", "rest"} -> "log"
                                 [] OTHER -> "returned"]

sealedBar == [c \in Callers |-> IF pc[c] \in CipherLabels THEN Nobody ELSE <<mode[c], key[c]>>]

archiveBar ==
  [c \in Callers |-> IF pc[c] \in CipherLabels \cup EncoderLabels THEN <<>> ELSE buffer[c]]

\* Without the half line of the caller that is writing.
logBar == IF \E c \in Callers : pc[c] = "rest" THEN SubSeq(log, 1, Len(log) - 1) ELSE log

A == INSTANCE Calls
       WITH doing   <- doingBar,
            sealed  <- sealedBar,
            archive <- archiveBar,
            log     <- logBar

(* Whatever the callers share, and however their steps mix, each of the      *)
(* three things a call does happens as if at one moment and as if the others *)
(* were not there: its own cipher, its own whole archive or none, its own    *)
(* line or what the disk took of it.  The three invariants above follow.     *)
AsIfAlone == A!Spec

=============================================================================
