---------------------------------- MODULE Calls ----------------------------------
(***************************************************************************)
(* What concurrent calls of SendEmail in one process are promised: whatever  *)
(* they share, each encrypts, archives and logs as if it were alone, each of *)
(* these in one step.                                                        *)
(***************************************************************************)
EXTENDS Sequences

CONSTANTS Callers, Names, CipherOf, Nobody

VARIABLES asked,    \* the algorithm each caller was given
          doing,    \* what each caller does next
          sealed,   \* mode and key of each ciphertext
          archive,  \* what each caller's archive is made of
          log       \* the log file

vars == <<asked, doing, sealed, archive, log>>

Init ==
  /\ asked \in [Callers -> Names]
  /\ doing = [c \in Callers |-> "encrypt"]
  /\ sealed = [c \in Callers |-> Nobody]
  /\ archive = [c \in Callers |-> <<>>]
  /\ log = <<>>

\* The library may report an error afterwards, and the call ends.
Encrypt(c) ==
  /\ doing[c] = "encrypt"
  /\ sealed' = [sealed EXCEPT ![c] = <<CipherOf[asked[c]], CipherOf[asked[c]]>>]
  /\ \E next \in {"archive", "returned"} : doing' = [doing EXCEPT ![c] = next]
  /\ UNCHANGED <<asked, archive, log>>

\* The whole archive or none.
Archive(c) ==
  /\ doing[c] = "archive"
  /\ \E whole \in {<<>>, <<c, c>>} : archive' = [archive EXCEPT ![c] = whole]
  /\ doing' = [doing EXCEPT ![c] = "log"]
  /\ UNCHANGED <<asked, sealed, log>>

\* A line; no line; or as much of a line as the disk took.
Log(c) ==
  /\ doing[c] = "log"
  /\ log' \in {log, Append(log, <<c, "line">>),
               Append(Append(log, <<c, "line">>), <<c, "rest">>)}
  /\ doing' = [doing EXCEPT ![c] = "returned"]
  /\ UNCHANGED <<asked, sealed, archive>>

Call(c) == Encrypt(c) \/ Archive(c) \/ Log(c)

Next == \E c \in Callers : Call(c)

Spec == Init /\ [][Next]_vars

=============================================================================
