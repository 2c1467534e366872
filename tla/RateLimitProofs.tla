---------------------------- MODULE RateLimitProofs ----------------------------
(***************************************************************************)
(* TwoApart for every limit, every length of the batch and every duration    *)
(* of its mails.  The invariant says where the next tick falls, seen from    *)
(* the last two mails: what sits in the channel, or is the next to come, is  *)
(* an interval later than the last mail but one.                            *)
(***************************************************************************)
EXTENDS RateLimit, FiniteSetTheorems, WellFoundedInduction, TLAPS

Last == Len(starts)

\* No two ticks of one interval end up as starts of mails.
TickPlace ==
  /\ pc # "create" => Interval > 0 /\ due > now
  /\ \A k \in DOMAIN starts : starts[k] <= now
  /\ tick = 1 /\ Last > 0 => due >= starts[Last] + Interval
  /\ tick = 0 /\ Last > 1 => due >= starts[Last - 1] + Interval
  /\ tick = 1 /\ Last > 1 => now >= starts[Last - 1] + Interval

TwoStarts ==
  \A k \in DOMAIN starts : k + 2 \in DOMAIN starts => starts[k + 2] - starts[k] >= Interval

RateInv ==
  /\ TypeOK
  /\ pc = "create" => now = 0 /\ starts = <<>> /\ tick = 0
  /\ pc \in {"waiting", "sending"} => Last > 0
  /\ pc = "waiting" => Limited /\ Last < total
  /\ Last = 0 => tick = 0
  /\ Limited /\ pc # "panic" => TickPlace /\ TwoStarts
  /\ pc = "panic" => starts = <<>>
  /\ ~Limited => tick = 0

-----------------------------------------------------------------------------

(* The interval is a whole number, also when there is no limit.              *)
LEMMA IntervalType == ASSUME TypeOK PROVE Interval \in Nat
<1>1. CASE Limited
  <2>1. rate \in Nat \ {0} /\ Minute \in Nat
    BY <1>1, RateAssumption DEF Limited, TypeOK
  <2>2. \A a \in Nat, b \in Nat \ {0} : a \div b \in Nat
    OBVIOUS
  <2> QED BY <1>1, <2>1, <2>2 DEF Interval
<1>2. CASE ~Limited
  BY <1>2 DEF Interval
<1> QED BY <1>1, <1>2

(* Adding a start at the end: what stays, what is new.                       *)
LEMMA AppendFacts ==
  ASSUME NEW s \in Seq(Nat), NEW t \in Nat
  PROVE  /\ Append(s, t) \in Seq(Nat)
         /\ Len(Append(s, t)) = Len(s) + 1
         /\ \A k \in 1..Len(s) : Append(s, t)[k] = s[k]
         /\ Append(s, t)[Len(s) + 1] = t
OBVIOUS

(* A new start at the end of the batch keeps two mails an interval apart if  *)
(* it is that far from the last mail but one.                                *)
LEMMA NewStart ==
  ASSUME TypeOK, TwoStarts, \A k \in DOMAIN starts : starts[k] <= now, StartMail,
         Last > 1 => now >= starts[Last - 1] + Interval,
         Interval' = Interval, now' = now
  PROVE  /\ TwoStarts' /\ \A k \in DOMAIN starts' : starts'[k] <= now'
         /\ starts' \in Seq(Nat) /\ Len(starts') = Last + 1 /\ starts'[Last + 1] = now
         /\ Last > 0 => starts'[Last] = starts[Last]
<1> DEFINE new == Append(starts, now)
<1>1. starts \in Seq(Nat) /\ now \in Nat /\ Interval \in Nat
  BY IntervalType DEF TypeOK
<1>2. /\ starts' = new /\ new \in Seq(Nat) /\ Len(new) = Last + 1
      /\ new[Last + 1] = now /\ \A k \in 1..Last : new[k] = starts[k]
  BY <1>1, AppendFacts DEF StartMail, Last
<1> HIDE DEF new
<1>3. DOMAIN new = 1..(Last + 1) /\ DOMAIN starts = 1..Last /\ Last \in Nat
      /\ \A k \in 1..Last : starts[k] \in Nat
  BY <1>1, <1>2 DEF Last
<1>4. \A k \in DOMAIN new : new[k] <= now
  BY <1>1, <1>2, <1>3
<1>5. \A k \in DOMAIN new : k + 2 \in DOMAIN new => new[k + 2] - new[k] >= Interval
  <2> SUFFICES ASSUME NEW k \in 1..(Last + 1), k + 2 \in 1..(Last + 1)
               PROVE  new[k + 2] - new[k] >= Interval
    BY <1>3
  <2>1. CASE k + 2 <= Last
    <3>1. k \in 1..Last /\ k + 2 \in 1..Last
      BY <2>1, <1>3
    <3>2. starts[k + 2] - starts[k] >= Interval
      BY <3>1, <1>3 DEF TwoStarts
    <3> QED BY <3>1, <3>2, <1>2
  <2>2. CASE k + 2 = Last + 1
    <3>1. k = Last - 1 /\ k \in 1..Last /\ Last > 1
      BY <2>2, <1>3
    <3>2. new[k + 2] = now /\ new[k] = starts[Last - 1] /\ starts[Last - 1] \in Nat
      BY <2>2, <3>1, <1>2, <1>3
    <3> QED BY <3>1, <3>2, <1>1
  <2> QED BY <2>1, <2>2, <1>3
<1>6. Last > 0 => new[Last] = starts[Last]
  BY <1>2, <1>3
<1>7. TwoStarts'
  BY <1>2, <1>5 DEF TwoStarts
<1> QED BY <1>2, <1>4, <1>6, <1>7

LEMMA RateInitInv == Init => RateInv
BY RateAssumption DEF Init, RateInv, TypeOK, TickPlace, TwoStarts, Last, Limited, Never

(* Every step keeps the invariant.                                           *)
LEMMA RateStepInv == RateInv /\ [Next]_vars => RateInv'
<1> SUFFICES ASSUME RateInv, [Next]_vars PROVE RateInv'
  OBVIOUS
<1>i. Interval \in Nat /\ TypeOK
  BY IntervalType DEF RateInv
<1>s. starts \in Seq(Nat) /\ Last \in Nat /\ DOMAIN starts = 1..Last
  BY <1>i DEF TypeOK, Last
<1>r. UNCHANGED rate => Interval' = Interval /\ Limited' = Limited
  BY DEF Interval, Limited
<1>1. CASE NewTicker
  BY <1>1, <1>i, <1>r, <1>s DEF NewTicker, RateInv, TypeOK, TickPlace, TwoStarts, Last
<1>2. CASE NextMail
  <2>1. CASE Limited /\ Last > 0
    BY <1>2, <2>1, <1>i, <1>r, <1>s DEF NextMail, RateInv, TypeOK, TickPlace, TwoStarts, Last
  <2>2. CASE ~Limited
    <3>1. starts' \in Seq(Nat) /\ Len(starts') = Last + 1
      BY <1>2, <2>2, <1>i, AppendFacts DEF NextMail, StartMail, TypeOK, Last
    <3> QED
      BY <1>2, <2>2, <3>1, <1>i, <1>r, <1>s DEF NextMail, StartMail, RateInv, TypeOK, Last
  <2>3. CASE Limited /\ Last = 0
    <3>1. /\ StartMail /\ pc = "next" /\ Last < total
          /\ UNCHANGED <<rate, total, now, due, tick, batch, cut, waited>>
      BY <1>2, <2>3 DEF NextMail, Last
    <3>2. TickPlace /\ TwoStarts /\ tick = 0
      BY <3>1, <2>3 DEF RateInv
    <3>3. /\ TwoStarts' /\ \A k \in DOMAIN starts' : starts'[k] <= now'
          /\ starts' \in Seq(Nat) /\ Len(starts') = 1
      BY <3>1, <3>2, <2>3, <1>i, <1>r, NewStart DEF TickPlace
    <3> QED BY <3>1, <3>2, <3>3, <2>3, <1>i, <1>r DEF StartMail, RateInv, TypeOK, TickPlace, Last
  <2> QED BY <2>1, <2>2, <2>3, <1>s
<1>3. CASE Receive
  <2>1. /\ StartMail /\ pc = "waiting" /\ tick = 1 /\ tick' = 0
        /\ UNCHANGED <<rate, total, now, due, batch, cut, waited>>
    BY <1>3 DEF Receive, RateInv, TypeOK
  <2>2. Limited /\ Last > 0 /\ TickPlace /\ TwoStarts /\ Last < total
    BY <2>1 DEF RateInv, TypeOK
  <2>3. /\ TwoStarts' /\ \A k \in DOMAIN starts' : starts'[k] <= now'
        /\ starts' \in Seq(Nat) /\ Len(starts') = Last + 1 /\ starts'[Last] = starts[Last]
    BY <2>1, <2>2, <1>i, <1>r, NewStart DEF TickPlace
  <2>4. tick' = 0 /\ Last' > 1 => due' >= starts'[Last' - 1] + Interval'
    BY <2>1, <2>2, <2>3, <1>r, <1>s DEF TickPlace, Last
  <2> QED
    <3>1. Last' = Last + 1 /\ pc' = "sending" /\ Limited'
      BY <2>1, <2>2, <2>3, <1>r DEF StartMail, Last
    <3>2. TypeOK'
      BY <2>1, <2>2, <2>3, <3>1, <1>i DEF TypeOK, Last
    <3>3. TickPlace'
      BY <2>1, <2>2, <2>3, <2>4, <1>i, <1>r DEF TickPlace
    <3> QED BY <2>1, <2>3, <3>1, <3>2, <3>3, <1>s DEF RateInv
<1>4. CASE MailSent \/ MailFailed
  <2>1. /\ pc = "sending" /\ pc' \in {"next", "done"}
        /\ UNCHANGED <<rate, batch, total, now, due, tick, starts, cut, waited>>
    BY <1>4 DEF MailSent, MailFailed
  <2> QED BY <2>1, <1>i, <1>r, <1>s DEF RateInv, TypeOK, TickPlace, TwoStarts, Last
<1>5. CASE Return
  BY <1>5, <1>i, <1>r, <1>s DEF Return, RateInv, TypeOK, TickPlace, TwoStarts, Last
<1>6. CASE TimePasses
  <2>1. /\ pc \in {"waiting", "sending"} /\ UNCHANGED <<rate, total, pc, starts, batch, cut>>
        /\ waited' \in Nat
        /\ now' = now + 1 /\ Last' = Last /\ Last > 0
        /\ Limited' = Limited /\ Interval' = Interval
    BY <1>6, <1>i, <1>r DEF TimePasses, RateInv, TypeOK, Last
  <2>2. CASE ~Limited
    BY <1>6, <2>1, <2>2, <1>i, <1>s DEF TimePasses, RateInv, TypeOK, Last
  <2>3. CASE Limited /\ now' = due
    <3>1. tick' = 1 /\ due' = due + Interval /\ TickPlace /\ TwoStarts
      BY <1>6, <2>1, <2>3 DEF TimePasses, RateInv
    <3>2. TypeOK'
      BY <2>1, <3>1, <1>i DEF TypeOK
    <3>3. \A k \in DOMAIN starts : starts[k] \in Nat
      BY <1>i DEF TypeOK
    <3>4. TickPlace'
      BY <2>1, <2>3, <3>1, <3>3, <1>i, <1>s DEF TickPlace, TypeOK
    <3>5. TwoStarts'
      BY <2>1, <3>1 DEF TwoStarts
    <3> QED BY <2>1, <2>3, <3>1, <3>2, <3>4, <3>5 DEF RateInv
  <2>4. CASE Limited /\ now' # due
    <3>1. tick' = tick /\ due' = due /\ TickPlace /\ TwoStarts
      BY <1>6, <2>1, <2>4 DEF TimePasses, RateInv
    <3>2. TypeOK'
      BY <2>1, <3>1, <1>i DEF TypeOK
    <3>3. \A k \in DOMAIN starts : starts[k] \in Nat
      BY <1>i DEF TypeOK
    <3>4. TickPlace'
      BY <2>1, <2>4, <3>1, <3>3, <1>i, <1>s DEF TickPlace, TypeOK
    <3>5. TwoStarts'
      BY <2>1, <3>1 DEF TwoStarts
    <3> QED BY <2>1, <2>4, <3>1, <3>2, <3>4, <3>5 DEF RateInv
  <2> QED BY <2>2, <2>3, <2>4
<1>7. CASE UNCHANGED vars
  BY <1>7, <1>r DEF vars, RateInv, TypeOK, TickPlace, TwoStarts, Last
<1>8. CASE Cancel
  <2>1. cut' \in 0..Never
    BY <1>8, <1>i, <1>s, RateAssumption DEF Cancel, TypeOK, Never
  <2> QED BY <1>8, <2>1, <1>i, <1>r, <1>s DEF Cancel, RateInv, TypeOK, TickPlace, TwoStarts, Last
<1> QED BY <1>1, <1>2, <1>3, <1>4, <1>5, <1>6, <1>7, <1>8 DEF Next

-----------------------------------------------------------------------------

(* The wait that a cancelled batch has behind it, counted in intervals: one  *)
(* for each mail started since, and one more while it waits.                 *)
Since == Last - cut

CostInv ==
  /\ ~Cancelled \/ ~Limited => waited = 0
  /\ Limited /\ pc # "create" => due <= now + Interval
  /\ Cancelled => cut <= Last
  /\ Cancelled /\ batch = "attachment" =>
       Since <= 1 /\ (pc \in {"next", "waiting"} => Since = 0)
  /\ Cancelled /\ Limited =>
       /\ pc # "waiting" => waited <= Since * Interval
       /\ pc = "waiting" => waited <= (Since + 1) * Interval
       /\ pc = "waiting" /\ tick = 0 => waited + (due - now) <= (Since + 1) * Interval

LEMMA Products ==
  ASSUME NEW a \in Nat, NEW b \in Nat, NEW i \in Nat
  PROVE  /\ a * i \in Nat /\ (a + 1) * i = a * i + i
         /\ a <= b => a * i <= b * i
<1>1. a * i \in Nat /\ (a + 1) * i = a * i + i
  OBVIOUS
<1>2. ASSUME a <= b PROVE a * i <= b * i
  <2>1. b - a \in Nat /\ b * i = a * i + (b - a) * i /\ (b - a) * i \in Nat
    BY <1>2
  <2> QED BY <2>1, <1>1
<1> QED BY <1>1, <1>2

LEMMA CostStepInv == RateInv /\ CostInv /\ [Next]_vars => CostInv'
<1> SUFFICES ASSUME RateInv, CostInv, [Next]_vars PROVE CostInv'
  OBVIOUS
<1>i. Interval \in Nat /\ TypeOK /\ Last \in Nat /\ Last <= total /\ total \in Nat
  BY IntervalType DEF RateInv, TypeOK, Last
<1>c. cut \in Nat /\ Never \in Nat /\ waited \in Nat /\ now \in Nat /\ due \in Nat /\ tick \in {0, 1}
      /\ total < Never
  BY <1>i, RateAssumption DEF TypeOK, Never
<1>m. Cancelled => /\ Since \in Nat /\ Since * Interval \in Nat
                   /\ (Since + 1) * Interval = Since * Interval + Interval
                   /\ (Since + 2) * Interval = (Since + 1) * Interval + Interval
  <2> SUFFICES ASSUME Cancelled
               PROVE  /\ Since \in Nat /\ Since * Interval \in Nat
                      /\ (Since + 1) * Interval = Since * Interval + Interval
                      /\ (Since + 2) * Interval = (Since + 1) * Interval + Interval
    OBVIOUS
  <2>1. Since \in Nat
    BY <1>i, <1>c DEF CostInv, Since
  <2>2. Since + 1 \in Nat /\ (Since + 1) + 1 = Since + 2
    BY <2>1
  <2> QED BY <2>1, <2>2, <1>i, Products
<1>r. UNCHANGED rate => Interval' = Interval /\ Limited' = Limited
  BY DEF Interval, Limited
<1>1. CASE NewTicker
  <2>1. Last = 0 /\ now = 0 /\ UNCHANGED <<Last, waited, cut, batch, now>> /\ pc' # "waiting"
    BY <1>1 DEF NewTicker, RateInv, Last
  <2> QED BY <1>1, <2>1, <1>i, <1>c, <1>r DEF NewTicker, CostInv, Since, Cancelled, Never
<1>2. CASE NextMail
  <2>1. CASE Limited /\ Last > 0
    <3>1. pc' = "waiting" /\ pc = "next" /\ UNCHANGED <<rate, batch, Last, now, due, tick, cut, waited>>
      BY <1>2, <2>1 DEF NextMail, Last
    <3> QED BY <2>1, <3>1, <1>i, <1>c, <1>m, <1>r DEF CostInv, Since, Cancelled, Never
  <2>2. CASE ~(Limited /\ Last > 0)
    <3>1. /\ pc' = "sending" /\ pc = "next" /\ Last' = Last + 1
          /\ UNCHANGED <<rate, batch, now, due, tick, cut, waited>>
      BY <1>2, <2>2, <1>i, AppendFacts DEF NextMail, StartMail, Last, TypeOK
    <3> QED BY <2>2, <3>1, <1>i, <1>c, <1>m, <1>r DEF CostInv, Since, Cancelled, Never
  <2> QED BY <2>1, <2>2
<1>3. CASE Receive
  <2>1. /\ pc' = "sending" /\ pc = "waiting" /\ Last' = Last + 1 /\ Limited
        /\ UNCHANGED <<rate, batch, now, due, cut, waited>>
    BY <1>3, <1>i, AppendFacts DEF Receive, StartMail, Last, TypeOK, RateInv
  <2>2. Cancelled => Since' = Since + 1
    BY <2>1, <1>i, <1>c DEF Since
  <2> QED BY <2>1, <2>2, <1>i, <1>c, <1>m, <1>r DEF CostInv, Cancelled, Never, Since
<1>4. CASE MailSent
  <2>1. /\ pc' = "next" /\ pc = "sending" /\ Last <= cut
        /\ UNCHANGED <<rate, batch, Last, now, due, tick, cut, waited>>
    BY <1>4 DEF MailSent, Last
  <2> QED BY <2>1, <1>i, <1>c, <1>m, <1>r DEF CostInv, Since, Cancelled, Never
<1>5. CASE MailFailed
  <2>1. /\ pc' = (IF batch = "attachment" THEN "done" ELSE "next") /\ pc = "sending"
        /\ UNCHANGED <<rate, batch, Last, now, due, tick, cut, waited>>
    BY <1>5 DEF MailFailed, Last
  <2> QED BY <2>1, <1>i, <1>c, <1>m, <1>r DEF CostInv, Since, Cancelled, Never
<1>6. CASE Cancel
  <2>1. /\ UNCHANGED <<rate, batch, Last, now, due, tick, pc, waited>> /\ waited = 0 /\ cut' = Last
        /\ pc # "create" /\ Since' = 0
    BY <1>6, <1>i DEF Cancel, CostInv, Last, Since
  <2>2. Limited => due - now <= Interval /\ Interval * 1 = Interval /\ 1 * Interval = Interval
                   /\ 0 * Interval = 0
    BY <2>1, <1>i, <1>c DEF CostInv
  <2>3. ~Limited => Interval = 0
    BY DEF Interval
  <2> QED BY <2>1, <2>2, <2>3, <1>i, <1>c, <1>r DEF CostInv, Cancelled, Never
<1>7. CASE Return
  <2>1. /\ pc' = "done" /\ pc = "next"
        /\ UNCHANGED <<rate, batch, Last, now, due, cut, waited>>
    BY <1>7 DEF Return, Last
  <2> QED BY <2>1, <1>i, <1>c, <1>m, <1>r DEF CostInv, Since, Cancelled, Never
<1>8. CASE TimePasses
  <2>1. /\ UNCHANGED <<rate, batch, Last, pc, cut>> /\ now' = now + 1 /\ pc \in {"waiting", "sending"}
        /\ waited' = IF Cancelled /\ pc = "waiting" /\ tick = 0 THEN waited + 1 ELSE waited
        /\ pc = "waiting" => Limited
    BY <1>8 DEF TimePasses, Last, RateInv
  <2>2. Limited => now < due
    BY <2>1, <1>c DEF RateInv, TickPlace
  <2>3. IF Limited /\ now' = due THEN tick' = 1 /\ due' = due + Interval ELSE UNCHANGED <<tick, due>>
    BY <1>8 DEF TimePasses
  <2> QED BY <2>1, <2>2, <2>3, <1>i, <1>c, <1>m, <1>r DEF CostInv, Since, Cancelled, Never
<1>9. CASE UNCHANGED vars
  BY <1>9, <1>i, <1>c, <1>m, <1>r DEF vars, CostInv, Since, Cancelled, Never, Last
<1> QED BY <1>1, <1>2, <1>3, <1>4, <1>5, <1>6, <1>7, <1>8, <1>9 DEF Next

LEMMA RateInvariant == Spec => []RateInv
BY RateInitInv, RateStepInv, PTL DEF Spec

(* The type invariant of the rate limiter.                                   *)
THEOREM RateTypeCorrect == Spec => []TypeOK
<1>1. RateInv => TypeOK
  BY DEF RateInv
<1> QED BY <1>1, RateInvariant, PTL

(* Whatever the limit and however slow the mails, no three of them are       *)
(* started within one interval.                                              *)
THEOREM RateTwoApart == Spec => []TwoApart
<1>1. RateInv => TwoApart
  BY DEF RateInv, TwoApart, TwoStarts
<1> QED BY <1>1, RateInvariant, PTL

(* Whatever the limit and whenever the Context is cancelled: one tick and    *)
(* one start at most in a batch of attachments, a tick for each recipient    *)
(* not yet served in one of recipients.                                      *)
THEOREM RateCancelCost == Spec => []CancelCost
<1>1. Init => CostInv
  BY DEF Init, CostInv, Cancelled
<1>2. RateInv /\ CostInv => CancelCost
  <2> SUFFICES ASSUME RateInv, CostInv, Cancelled
               PROVE  IF batch = "attachment"
                        THEN Len(starts) <= cut + 1 /\ waited <= Interval
                        ELSE waited <= (total - cut) * Interval
    BY DEF CancelCost
  <2>1. Interval \in Nat /\ waited \in Nat /\ cut \in Nat /\ Last \in Nat /\ total \in Nat
        /\ Last <= total /\ Since \in Nat /\ (pc = "waiting" => Limited /\ Last < total)
    BY IntervalType, RateAssumption DEF RateInv, TypeOK, Last, Since, CostInv, Never
  <2>2. CASE batch = "attachment"
    <3>1. 0 * Interval = 0 /\ 1 * Interval = Interval /\ Len(starts) <= cut + 1
      BY <2>1, <2>2 DEF CostInv, Since, Last
    <3>2. Since \in {0, 1} /\ (pc = "waiting" => Since + 1 = 1)
      BY <2>1, <2>2 DEF CostInv
    <3> QED BY <2>1, <2>2, <3>1, <3>2 DEF CostInv
  <2>3. CASE batch # "attachment"
    <3>1. total - cut \in Nat /\ Since <= total - cut
          /\ (pc = "waiting" => Since + 1 <= total - cut) /\ Since + 1 \in Nat
      BY <2>1 DEF Since
    <3>2. Since * Interval <= (total - cut) * Interval
      BY <2>1, <3>1, Products
    <3>3. pc = "waiting" => (Since + 1) * Interval <= (total - cut) * Interval
      BY <2>1, <3>1, Products
    <3>4. /\ Since * Interval \in Nat /\ (Since + 1) * Interval \in Nat
          /\ (total - cut) * Interval \in Nat
      BY <2>1, <3>1, Products
    <3> QED BY <2>1, <2>3, <3>2, <3>3, <3>4 DEF CostInv
  <2> QED BY <2>2, <2>3
<1> QED BY <1>1, <1>2, RateInvariant, CostStepInv, PTL DEF Spec

-----------------------------------------------------------------------------

\* Where the starts, the next tick and the one in the channel lie, counted in intervals
\* from each earlier start.
SpacedInv ==
  Limited /\ pc \notin {"create", "panic"} =>
    /\ \A k, j \in 1..Last : k < j => starts[j] >= starts[k] + (j - k - 1) * Interval
    /\ \A k \in 1..Last : due >= starts[k] + (Last - k + tick) * Interval
    /\ tick = 1 => \A k \in 1..Last : now >= starts[k] + (Last - k) * Interval

(* A new start keeps the distances, if it is as far from each earlier one as *)
(* the tick it was given.                                                    *)
LEMMA NewStartSpaced ==
  ASSUME TypeOK, StartMail, UNCHANGED <<rate, now>>,
         \A k, j \in 1..Last : k < j => starts[j] >= starts[k] + (j - k - 1) * Interval,
         \A k \in 1..Last : now >= starts[k] + (Last - k) * Interval
  PROVE  /\ \A k, j \in 1..Last' : k < j => starts'[j] >= starts'[k] + (j - k - 1) * Interval
         /\ Last' = Last + 1 /\ starts'[Last + 1] = now
         /\ \A k \in 1..Last : starts'[k] = starts[k]
<1>1. starts \in Seq(Nat) /\ now \in Nat /\ Last \in Nat
  BY DEF TypeOK, Last
<1>2. /\ Last' = Last + 1 /\ starts'[Last + 1] = now
      /\ \A k \in 1..Last : starts'[k] = starts[k]
  BY <1>1, AppendFacts DEF StartMail, Last
<1>3. ASSUME NEW k \in 1..(Last + 1), NEW j \in 1..(Last + 1), k < j
      PROVE  starts'[j] >= starts'[k] + (j - k - 1) * Interval
  <2>1. k \in 1..Last /\ starts'[k] = starts[k]
    BY <1>1, <1>2, <1>3
  <2>2. CASE j \in 1..Last
    BY <1>2, <1>3, <2>1, <2>2
  <2>3. CASE j = Last + 1
    <3>1. j - k - 1 = Last - k /\ starts'[j] = now
      BY <1>1, <1>2, <2>1, <2>3
    <3> QED BY <2>1, <3>1
  <2> QED BY <1>1, <2>2, <2>3
<1> QED BY <1>2, <1>3

LEMMA SpacedStepInv ==
  ASSUME RateInv, SpacedInv, [Next]_vars
  PROVE  SpacedInv'
<1>i. Interval \in Nat /\ TypeOK /\ starts \in Seq(Nat) /\ Last \in Nat /\ DOMAIN starts = 1..Last
      /\ now \in Nat /\ due \in Nat /\ tick \in {0, 1}
  BY IntervalType DEF RateInv, TypeOK, Last
<1>t. \A k \in 1..Last : starts[k] \in Nat
  BY <1>i
<1>r. UNCHANGED rate => Interval' = Interval /\ Limited' = Limited
  BY DEF Interval, Limited
<1>p. \A n \in Nat : n * Interval \in Nat /\ (n + 1) * Interval = n * Interval + Interval
  BY <1>i, Products
<1>0. 0 * Interval = 0
  BY <1>i
<1>1. CASE Last' = 0
  <2> SUFFICES ASSUME 1..Last' = {} PROVE SpacedInv'
    BY <1>1
  <2> QED BY DEF SpacedInv
<1>2. ASSUME UNCHANGED <<rate, due, starts>>, Limited => pc \notin {"create", "panic"},
             tick' = tick \/ tick' = 0, now' = now \/ now' = now + 1, tick = tick' \/ ~Limited \/ now' = now
      PROVE  SpacedInv'
  <2>1. CASE tick' = tick
    <3> SUFFICES ASSUME Limited, tick = 1, NEW k \in 1..Last PROVE now' >= starts[k] + (Last - k) * Interval
      BY <1>2, <1>r, <2>1 DEF SpacedInv, Last
    <3>1. now >= starts[k] + (Last - k) * Interval
      BY <1>2 DEF SpacedInv
    <3>2. Last - k \in Nat
      BY <1>i
    <3> QED BY <1>2, <1>i, <1>t, <1>p, <3>1, <3>2
  <2>2. CASE tick' = 0 /\ tick = 1
    <3> SUFFICES ASSUME Limited, NEW k \in 1..Last
                 PROVE  due >= starts[k] + (Last - k + 0) * Interval
      <4>1. Last' = Last /\ Interval' = Interval /\ Limited' = Limited /\ tick' = 0 /\ tick' # 1
        BY <1>2, <1>r, <2>2 DEF Last
      <4> QED BY <1>2, <4>1 DEF SpacedInv
    <3>1. due >= starts[k] + (Last - k + 1) * Interval
      BY <1>2, <2>2 DEF SpacedInv
    <3>2. Last - k \in Nat /\ Last - k + 0 = Last - k
      BY <1>i
    <3> QED BY <1>i, <1>t, <1>p, <3>1, <3>2
  <2> QED BY <1>2, <1>i, <2>1, <2>2
<1>3. CASE NewTicker
  BY <1>1, <1>3 DEF NewTicker, RateInv, Last
<1>4. CASE NextMail /\ Limited
  <2>1. CASE Last > 0
    BY <1>2, <1>4, <2>1 DEF NextMail, Last
  <2>2. CASE Last = 0
    <3>1. StartMail /\ UNCHANGED <<rate, now, due, tick>> /\ tick = 0 /\ due > now
      BY <1>4, <2>2 DEF NextMail, Last, RateInv, TickPlace
    <3>2. Last' = 1 /\ starts'[1] = now
      BY <1>i, <2>2, <3>1, NewStartSpaced
    <3>3. 1..Last' = {1} /\ Last' - 1 + tick' = 0
      BY <3>1, <3>2
    <3> QED BY <1>i, <1>0, <1>r, <3>1, <3>2, <3>3 DEF SpacedInv
  <2> QED BY <1>i, <2>1, <2>2
<1>5. CASE Receive
  <2>1. StartMail /\ UNCHANGED <<rate, now, due>> /\ tick = 1 /\ tick' = 0 /\ Limited /\ due > now
    BY <1>5, <1>i DEF Receive, RateInv, TickPlace
  <2>2. /\ \A k, j \in 1..Last : k < j => starts[j] >= starts[k] + (j - k - 1) * Interval
        /\ \A k \in 1..Last : due >= starts[k] + (Last - k + 1) * Interval
        /\ \A k \in 1..Last : now >= starts[k] + (Last - k) * Interval
    BY <1>5, <2>1 DEF Receive, SpacedInv
  <2>3. /\ \A k, j \in 1..Last' : k < j => starts'[j] >= starts'[k] + (j - k - 1) * Interval
        /\ Last' = Last + 1 /\ starts'[Last + 1] = now
        /\ \A k \in 1..Last : starts'[k] = starts[k]
    BY <1>i, <2>1, <2>2, NewStartSpaced
  <2>4. ASSUME NEW k \in 1..(Last + 1) PROVE due >= starts'[k] + (Last + 1 - k + 0) * Interval
    <3>1. CASE k \in 1..Last
      <4>1. Last + 1 - k + 0 = Last - k + 1
        BY <1>i
      <4> QED BY <2>2, <2>3, <3>1, <4>1
    <3>2. CASE k = Last + 1
      <4>1. Last + 1 - k + 0 = 0
        BY <1>i, <3>2
      <4> QED BY <1>i, <1>0, <2>1, <2>3, <3>2, <4>1
    <3> QED BY <1>i, <3>1, <3>2
  <2>5. \A k \in 1..Last' : due' >= starts'[k] + (Last' - k + tick') * Interval
    <3>1. due' = due /\ tick' = 0 /\ Last' = Last + 1
      BY <2>1, <2>3
    <3> TAKE k \in 1..Last'
    <3>2. k \in 1..(Last + 1)
      BY <3>1
    <3>3. due >= starts'[k] + (Last + 1 - k + 0) * Interval
      BY <2>4, <3>2
    <3>4. Last' - k + tick' = Last + 1 - k + 0
      BY <1>i, <3>1
    <3>5. (Last' - k + tick') * Interval = (Last + 1 - k + 0) * Interval
      BY Zenon, <3>4
    <3> QED BY <3>1, <3>3, <3>5
  <2>6. tick' # 1
    BY <2>1
  <2> QED BY <1>r, <2>1, <2>3, <2>5, <2>6 DEF SpacedInv
<1>6. CASE MailSent \/ MailFailed \/ Cancel
  BY <1>2, <1>6 DEF MailSent, MailFailed, Cancel
<1>7. CASE Return
  BY <1>2, <1>7 DEF Return
<1>8. CASE TimePasses
  <2>1. pc \in {"waiting", "sending"} /\ UNCHANGED <<rate, starts, pc>> /\ now' = now + 1
    BY <1>8 DEF TimePasses
  <2>2. CASE ~(Limited /\ now' = due)
    BY <1>2, <1>8, <2>1, <2>2 DEF TimePasses
  <2>3. CASE Limited /\ now' = due
    <3>1. tick' = 1 /\ due' = due + Interval /\ Last' = Last
      BY <1>8, <2>3 DEF TimePasses, Last
    <3>2. ASSUME NEW k \in 1..Last
          PROVE  /\ due + Interval >= starts[k] + (Last - k + 1) * Interval
                 /\ due >= starts[k] + (Last - k) * Interval
      <4>1. due >= starts[k] + (Last - k + tick) * Interval
        BY <2>1, <2>3 DEF SpacedInv
      <4>2. Last - k \in Nat /\ Last - k + 0 = Last - k
        BY <1>i
      <4>3. CASE tick = 0
        BY <1>i, <1>t, <1>p, <4>1, <4>2, <4>3
      <4>4. CASE tick = 1
        BY <1>i, <1>t, <1>p, <4>1, <4>2, <4>4
      <4> QED BY <1>i, <4>3, <4>4
    <3> QED BY <1>r, <2>1, <2>3, <3>1, <3>2 DEF SpacedInv
  <2> QED BY <2>2, <2>3
<1>9. CASE ~Limited /\ UNCHANGED rate
  BY <1>9, <1>r DEF SpacedInv
<1>10. CASE UNCHANGED vars
  BY <1>10, <1>r DEF vars, SpacedInv, Last
<1> QED BY <1>3, <1>4, <1>5, <1>6, <1>7, <1>8, <1>9, <1>10 DEF Next, NextMail

(* Every set of naturals that is not empty has a least element.              *)
LEMMA LeastNatural ==
  ASSUME NEW T, T \subseteq Nat, T # {}
  PROVE  \E m \in T : \A k \in T : m <= k
<1> DEFINE R == OpToRel(<, Nat)
<1>1. IsWellFoundedOn(R, Nat)
  BY NatLessThanWellFounded
<1>2. \A y, x \in Nat : <<y, x>> \in R <=> y < x
  BY DEF OpToRel
<1> HIDE DEF R
<1>3. PICK m \in T : \A y \in T : ~ (<<y, m>> \in R)
  BY <1>1, WFMin
<1>4. \A k \in T : k \in Nat /\ ~ (k < m)
  BY <1>2, <1>3
<1>5. \A k \in T : m <= k
  BY <1>4
<1> QED BY <1>5

(* The starts of one minute are mails in succession, of which the last is    *)
(* less than a minute after the first.                                       *)
LEMMA FewInAMinute ==
  ASSUME RateInv, SpacedInv, Limited, NEW t \in Nat
  PROVE  /\ Cardinality(StartedIn(t)) \in Nat
         /\ (Cardinality(StartedIn(t)) - 2) * Interval < Minute
<1> DEFINE few == Cardinality(StartedIn(t))
<1>i. /\ Interval \in Nat /\ starts \in Seq(Nat) /\ Last \in Nat /\ DOMAIN starts = 1..Last
      /\ Minute \in Nat /\ Minute > 0
  BY IntervalType, RateAssumption DEF RateInv, TypeOK, Last
<1>f. few \in Nat
  <2>1. StartedIn(t) \subseteq 1..Last /\ IsFiniteSet(1..Last)
    BY <1>i, FS_Interval DEF StartedIn
  <2> QED BY <2>1, FS_Subset, FS_CardinalityType
<1>1. CASE few <= 1
  <2>1. 2 - few \in Nat /\ (2 - few) * Interval \in Nat
        /\ (few - 2) * Interval = -((2 - few) * Interval)
    BY <1>i, <1>f, <1>1
  <2> QED BY <1>i, <1>f, <2>1
<1>2. CASE few > 1
  <2> SUFFICES ASSUME Minute <= (few - 2) * Interval PROVE FALSE
    <3>1. few - 2 \in Nat /\ (few - 2) * Interval \in Nat
      BY <1>i, <1>f, <1>2, Products
    <3> QED BY <1>i, <1>f, <3>1
  <2>1. StartedIn(t) \subseteq Nat /\ StartedIn(t) # {}
    <3>1. StartedIn(t) \subseteq Nat
      BY <1>i DEF StartedIn
    <3>2. StartedIn(t) = {} => few = 0
      BY FS_EmptySet
    <3> QED BY <1>2, <3>1, <3>2
  <2>2. PICK m \in StartedIn(t) : \A k \in StartedIn(t) : m <= k
    BY <2>1, LeastNatural
  <2>3. ASSUME NEW j \in StartedIn(t) PROVE j \in m..(m + few - 2)
    <3>1. /\ m \in 1..Last /\ j \in 1..Last /\ m <= j
          /\ t <= starts[m] /\ starts[j] < t + Minute
          /\ starts[m] \in Nat /\ starts[j] \in Nat
      BY <1>i, <2>2 DEF StartedIn
    <3>2. CASE m = j
      BY <1>i, <1>f, <1>2, <3>1, <3>2
    <3>3. CASE m < j
      <4> pc \notin {"create", "panic"}
        <5>1. starts = <<>> => Last = 0
          BY DEF Last
        <5> QED BY <1>i, <3>1, <5>1 DEF RateInv
      <4>1. starts[j] >= starts[m] + (j - m - 1) * Interval
        BY <3>1, <3>3 DEF SpacedInv
      <4>2. j - m - 1 \in Nat /\ few - 2 \in Nat
        BY <1>f, <1>2, <3>1, <3>3
      <4>3. (j - m - 1) * Interval \in Nat
            /\ (few - 2 <= j - m - 1 => (few - 2) * Interval <= (j - m - 1) * Interval)
        BY <1>i, <4>2, Products
      <4>4. (few - 2) * Interval \in Nat
        BY <1>i, <4>2, Products
      <4>5. ~(few - 2 <= j - m - 1)
        BY <1>i, <3>1, <4>1, <4>3, <4>4
      <4> QED BY <1>f, <3>1, <4>2, <4>5
    <3> QED BY <1>i, <3>1, <3>2, <3>3
  <2>4. IsFiniteSet(m..(m + few - 2)) /\ Cardinality(m..(m + few - 2)) = few - 1
    <3>1. m \in Nat /\ m + few - 2 \in Nat /\ m <= m + few - 2 /\ (m + few - 2) - m + 1 = few - 1
      BY <1>f, <1>2, <2>1
    <3> QED BY <3>1, FS_Interval
  <2>5. few <= few - 1
    <3>1. StartedIn(t) \subseteq m..(m + few - 2)
      BY <2>3
    <3> QED BY <2>4, <3>1, FS_Subset
  <2> QED BY <1>f, <2>5
<1> QED BY <1>f, <1>1, <1>2

LEMMA SpacedInitInv == Init => SpacedInv
BY DEF Init, SpacedInv

(* For every limit and every duration of the mails, in a batch of any        *)
(* length: the intervals between the mails of one minute, but for the first, *)
(* fit into it.                                                              *)
THEOREM RateMinuteBound == Spec => []MinuteBound
<1>1. RateInv /\ SpacedInv => MinuteBound
  BY FewInAMinute DEF MinuteBound, RateInv, TypeOK
<1> QED BY <1>1, SpacedInitInv, RateInvariant, SpacedStepInv, PTL DEF Spec

(* What a reader of --rate-limit may rely on: where the limit divides a      *)
(* minute, no minute sees more than one mail above it.                       *)
OneAboveLimit ==
  Limited /\ rate * Interval = Minute =>
    \A t \in Nat : Cardinality(StartedIn(t)) <= rate + 1

THEOREM RateOneAboveLimit == Spec => []OneAboveLimit
<1>1. RateInv /\ SpacedInv => OneAboveLimit
  <2> SUFFICES ASSUME RateInv, SpacedInv, Limited, rate * Interval = Minute, NEW t \in Nat
               PROVE  Cardinality(StartedIn(t)) <= rate + 1
    BY DEF OneAboveLimit
  <2> DEFINE few == Cardinality(StartedIn(t))
  <2>1. few \in Nat /\ (few - 2) * Interval < Minute
    BY FewInAMinute
  <2>2. rate \in Nat /\ Interval \in Nat
    BY IntervalType, RateAssumption DEF RateInv, TypeOK
  <2> HIDE DEF few
  <2> SUFFICES ASSUME few > rate + 1 PROVE FALSE
    BY <2>1, <2>2 DEF few
  <2>3. few - 2 \in Nat /\ rate <= few - 2
    BY <2>1, <2>2
  <2>4. rate * Interval <= (few - 2) * Interval /\ (few - 2) * Interval \in Nat
    BY <2>2, <2>3, Products
  <2>5. rate * Interval \in Nat
    BY <2>2
  <2> QED BY <2>1, <2>4, <2>5
<1> QED BY <1>1, SpacedInitInv, RateInvariant, SpacedStepInv, PTL DEF Spec

=============================================================================
