------------------------------- MODULE RateLimit -------------------------------
(***************************************************************************)
(* The rate limiter of both batch modes of mailer.go: a time.Ticker of       *)
(* Minute / RateLimit, on which the loop waits before every mail but the     *)
(* first.  The channel of a Ticker holds one tick; ticks that find it full   *)
(* are dropped.  Sending a mail takes any time.                              *)
(***************************************************************************)
EXTENDS Integers, Sequences, FiniteSets

CONSTANTS Minute,     \* time.Minute, in the unit of the clock
          Rates,      \* values of params.RateLimit; 0 is no limit
          MaxMails,   \* bound: the length of the batch
          MaxTime     \* bound: when the clock stops

ASSUME RateAssumption ==
  /\ Minute \in Nat \ {0} /\ Rates \subseteq Nat
  /\ MaxMails \in Nat /\ MaxTime \in Nat

VARIABLES rate,
          batch,   \* "attachment" or "recipient": the mode
          total,   \* the number of mails
          now,     \* the clock, from the creation of the ticker on
          due,     \* when the ticker fires next
          tick,    \* ticks in its channel
          pc,
          starts,  \* history: when each mail was started
          cut,     \* how many mails had been started when the Context was cancelled
          waited   \* history: the time spent waiting for a tick since then

vars == <<rate, batch, total, now, due, tick, pc, starts, cut, waited>>

\* The value of cut before the Context is cancelled.
Never == MaxMails + 1

Cancelled == cut # Never

Limited == rate > 0

\* Durations are whole nanoseconds: the division rounds down.
Interval == IF Limited THEN Minute \div rate ELSE 0

TypeOK ==
  /\ rate \in Rates /\ total \in 0..MaxMails
  /\ now \in Nat /\ due \in Nat /\ tick \in 0..1
  /\ pc \in {"create", "next", "waiting", "sending", "done", "panic"}
  /\ starts \in Seq(Nat) /\ Len(starts) <= total
  /\ batch \in {"attachment", "recipient"} /\ cut \in 0..Never /\ waited \in Nat

Init ==
  /\ rate \in Rates /\ total \in 0..MaxMails
  /\ now = 0 /\ due = 0 /\ tick = 0
  /\ pc = "create" /\ starts = <<>>
  /\ batch \in {"attachment", "recipient"} /\ cut = Never /\ waited = 0

-----------------------------------------------------------------------------

\* NewTicker panics when its interval is zero.
NewTicker ==
  /\ pc = "create"
  /\ due' = Interval
  /\ pc' = IF Limited /\ Interval = 0 THEN "panic" ELSE "next"
  /\ UNCHANGED <<rate, batch, total, now, tick, starts, cut, waited>>

StartMail == starts' = Append(starts, now) /\ pc' = "sending"

\* The next round of the loop; the first mail does not wait.
NextMail ==
  /\ pc = "next" /\ Len(starts) < total
  /\ IF Limited /\ Len(starts) > 0
       THEN pc' = "waiting" /\ UNCHANGED starts
       ELSE StartMail
  /\ UNCHANGED <<rate, batch, total, now, due, tick, cut, waited>>

\* Variant: the receive does not block.
ReceiveOrGo ==
  /\ pc = "waiting"
  /\ tick' = 0 /\ StartMail
  /\ UNCHANGED <<rate, batch, total, now, due, cut, waited>>

\* <-rateLimiter.C
Receive ==
  /\ pc = "waiting" /\ tick > 0
  /\ tick' = tick - 1 /\ StartMail
  /\ UNCHANGED <<rate, batch, total, now, due, cut, waited>>

\* A mail that starts with a cancelled Context makes no attempt.
MailSent ==
  /\ pc = "sending" /\ Len(starts) <= cut
  /\ pc' = "next"
  /\ UNCHANGED <<rate, batch, total, now, due, tick, starts, cut, waited>>

\* Variant: a mail that failed for want of time does not end the batch.
FailedGoesOn ==
  /\ pc = "sending"
  /\ pc' = "next"
  /\ UNCHANGED <<rate, batch, total, now, due, tick, starts, cut, waited>>

\* It ends a batch of attachments; a batch of recipients goes on.
MailFailed ==
  /\ pc = "sending"
  /\ pc' = IF batch = "attachment" THEN "done" ELSE "next"
  /\ UNCHANGED <<rate, batch, total, now, due, tick, starts, cut, waited>>

\* The caller cancels the Context; nothing in the loop or in the wait listens.
Cancel ==
  /\ pc \in {"next", "waiting", "sending"} /\ ~Cancelled
  /\ cut' = Len(starts)
  /\ UNCHANGED <<rate, batch, total, now, due, tick, pc, starts, waited>>

\* The deferred Stop.
Return ==
  /\ pc = "next" /\ Len(starts) = total
  /\ pc' = "done" /\ tick' = 0
  /\ UNCHANGED <<rate, batch, total, now, due, starts, cut, waited>>

\* Variant: the channel holds any number of ticks.
TickQueued ==
  /\ pc \in {"waiting", "sending"} /\ now < MaxTime
  /\ now' = now + 1
  /\ IF Limited /\ now' = due
       THEN tick' = tick + 1 /\ due' = due + Interval
       ELSE UNCHANGED <<tick, due>>
  /\ waited' = IF Cancelled /\ pc = "waiting" /\ tick = 0 THEN waited + 1 ELSE waited
  /\ UNCHANGED <<rate, batch, total, pc, starts, cut>>

\* One unit of time, and the tick that falls due.  Time passes while a mail is
\* sent and its files are routed, and in the wait, which may also be slow to end.
TimePasses ==
  /\ pc \in {"waiting", "sending"} /\ now < MaxTime
  /\ now' = now + 1
  /\ IF Limited /\ now' = due
       THEN tick' = 1 /\ due' = due + Interval
       ELSE UNCHANGED <<tick, due>>
  /\ waited' = IF Cancelled /\ pc = "waiting" /\ tick = 0 THEN waited + 1 ELSE waited
  /\ UNCHANGED <<rate, batch, total, pc, starts, cut>>

Next == NewTicker \/ NextMail \/ Receive \/ MailSent \/ MailFailed \/ Return
        \/ Cancel \/ TimePasses

Spec == Init /\ [][Next]_vars

-----------------------------------------------------------------------------

(* However slow single mails are, the ticks missed meanwhile are not made up *)
(* for: two mails may follow each other at once, three never do.             *)
TwoApart ==
  Limited => \A k \in DOMAIN starts :
               k + 2 \in DOMAIN starts => starts[k + 2] - starts[k] >= Interval

\* The mails started in the minute from t on.
StartedIn(t) == {k \in DOMAIN starts : t <= starts[k] /\ starts[k] < t + Minute}

(* How many mails one minute may see, wherever it begins: the intervals      *)
(* between them, but for the first, which may be empty, fit into it.  That   *)
(* is one mail above a limit that divides a minute, and two or more above    *)
(* one that does not, as the interval is rounded down.                       *)
MinuteBound ==
  Limited => \A t \in 0..now : (Cardinality(StartedIn(t)) - 2) * Interval < Minute

(* What the deaf wait costs a caller who cancels: of a batch of attachments  *)
(* one tick at most and the start of one mail, which then fails and ends it; *)
(* of a batch of recipients a tick for each one not yet served.              *)
CancelCost ==
  Cancelled =>
    IF batch = "attachment"
      THEN Len(starts) <= cut + 1 /\ waited <= Interval
      ELSE waited <= (total - cut) * Interval

=============================================================================
