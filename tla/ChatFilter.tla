------------------------------ MODULE ChatFilter ------------------------------
(***************************************************************************)
(* src/core/chat_filter.cpp: the rate limit of IsSpam, for one player (the *)
(* entries of playerMessages_ do not touch each other).  Time passes in    *)
(* ticks that divide a second, because the age of a message is truncated   *)
(* to whole seconds before it is compared.                                 *)
(***************************************************************************)
EXTENDS Integers, SequencesExt

CONSTANTS Ticks,     \* ticks in a second
          MaxTime    \* bound on the clock, in ticks

TimeAssumption == Ticks \in Nat \ {0} /\ MaxTime \in Nat

Limit == 5    \* timestamps.size() >= 5
Window == 5   \* seconds

VARIABLES now,         \* steady_clock::now()
          timestamps,  \* the player's timestamps in playerMessages_
          checked,     \* history: the time of the last call of IsSpam
          counted      \* history: the last messages that passed the limit

vars == <<now, timestamps, checked, counted>>

Init == now = 0 /\ timestamps = <<>> /\ checked = 0 /\ counted = <<>>

Tick == /\ now < MaxTime
        /\ now' = now + 1
        /\ UNCHANGED <<timestamps, checked, counted>>

\* Faulty variant: the age is compared with >= instead of >.
ExpiredEarly(ts) == (now - ts) \div Ticks >= Window

\* duration_cast<seconds>(now - ts).count() > 5
Expired(ts) == (now - ts) \div Ticks > Window

\* What remove_if and erase leave of the first i timestamps, and of all.
KeptOf[i \in 0..Len(timestamps)] ==
  IF i = 0 THEN <<>>
  ELSE IF Expired(timestamps[i]) THEN KeptOf[i - 1] ELSE Append(KeptOf[i - 1], timestamps[i])
Kept == KeptOf[Len(timestamps)]

Full == Len(Kept) >= Limit

\* The last Limit + 1 messages are all the properties look at.
Remember(s) == IF Len(s) > Limit + 1 THEN Tail(s) ELSE s

\* Over the limit: true at once, and the message is not recorded.
IsSpamByRate == /\ Full
                /\ timestamps' = Kept
                /\ checked' = now
                /\ UNCHANGED <<now, counted>>

\* Within the limit the message is recorded, whether or not it then matches
\* one of the spam patterns.
IsSpamByPatternOrNot == /\ ~Full
                        /\ timestamps' = Append(Kept, now)
                        /\ checked' = now
                        /\ counted' = Remember(Append(counted, now))
                        /\ UNCHANGED now

Next == Tick \/ IsSpamByRate \/ IsSpamByPatternOrNot

Spec == Init /\ [][Next]_vars

---------------------------------------------------------------------------
\* Properties.

TypeOK == /\ now \in 0..MaxTime
          /\ timestamps \in Seq(0..now) /\ Len(timestamps) <= Limit
          /\ checked \in 0..now
          /\ counted \in Seq(0..now) /\ Len(counted) <= Limit + 1

\* No more than five messages pass the limit in any span shorter than six
\* seconds, although each call forgets the messages it finds expired.
RateHolds == Len(counted) = Limit + 1 =>
               Last(counted) - Head(counted) >= (Window + 1) * Ticks

\* A player who is held back is let through again in time: when the last
\* five messages that passed lie six seconds back, the limit is not reached.
\* What was refused in between does not count against the player.
RefusalsDoNotCount == \/ ~Full
                      \/ Len(counted) >= Limit /\
                         now - counted[Len(counted) - Limit + 1] < (Window + 1) * Ticks

\* What the comment in IsSpam says of the removal: after a call no message
\* older than five seconds is kept.
OlderThanWindowRemoved ==
  \A i \in 1..Len(timestamps) : checked - timestamps[i] <= Window * Ticks
=============================================================================
