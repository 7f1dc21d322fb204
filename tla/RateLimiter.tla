------------------------------ MODULE RateLimiter ------------------------------
(***************************************************************************)
(* The sliding window of core/limits.py: for every customer and bucket,    *)
(* the times of the calls admitted in the last window.  A step is one call *)
(* of check, which the event loop never interrupts; time is a counter of   *)
(* instants, TICKS of them to the second, because the caller is told to    *)
(* wait whole seconds and the window knows fractions of one.               *)
(*                                                                         *)
(* history and refused are not in the code: they remember every admission  *)
(* and every refusal, so that the properties can speak of them.            *)
(***************************************************************************)
EXTENDS Integers, Sequences, FiniteSets

CONSTANTS Users, Buckets,
          LIMIT,      \* how many calls of a bucket one window admits
          PER,        \* how long the bucket's window is, in instants
          TICKS,      \* how many instants a second has
          SWEEP_AT    \* how many entries the table holds before it is swept

Keys == Users \X Buckets

\* The settings refuse a limit below one; the windows are a minute and an hour.
ASSUME LimitsArePositive ==
  /\ LIMIT \in [Buckets -> Nat \ {0}]
  /\ PER \in [Buckets -> Nat \ {0}]
  /\ TICKS \in Nat \ {0}
  /\ SWEEP_AT \in Nat

VARIABLES now, events, history, refused

limiterVars == <<now, events, history, refused>>

\* Nothing is remembered when the process starts.
LimiterInit == /\ now = 0
               /\ events = [k \in {} |-> <<>>]
               /\ history = [k \in Keys |-> <<>>]
               /\ refused = {}

Recorded(k) == IF k \in DOMAIN events THEN events[k] ELSE <<>>

Expired(k, t) == now - t >= PER[k[2]]

\* The events left once the oldest have been popped while they are expired.
Kept(k) ==
  LET s == Recorded(k)
      popped == CHOOSE d \in 0 .. Len(s) :
                  /\ \A i \in 1 .. d : Expired(k, s[i])
                  /\ d < Len(s) => ~Expired(k, s[d + 1])
  IN  SubSeq(s, popped + 1, Len(s))

Admits_OneMore(k) == Len(Kept(k)) <= LIMIT[k[2]]
Admits(k) == Len(Kept(k)) < LIMIT[k[2]]

\* How long the bucket of a refused call stays closed, to the instant.
RetryAfter(k) == PER[k[2]] - (now - Kept(k)[1])

\* Python's round: to the nearest whole number, a half to the even one.
RoundHalfEven(n, d) ==
  LET q == n \div d
      r == n % d
  IN  IF 2 * r > d \/ (2 * r = d /\ q % 2 = 1) THEN q + 1 ELSE q

RetryAfterHeader_NextSecond(wait) == wait \div TICKS + 1

\* The seconds the caller is told to wait: rounded, and one at least.
RetryAfterHeader(wait) ==
  LET seconds == RoundHalfEven(wait, TICKS) IN IF seconds > 1 THEN seconds ELSE 1

\* A refusal, with what its caller is told and what had been admitted before.
Refusal(k) == [key |-> k, at |-> now, after |-> RetryAfterHeader(RetryAfter(k)),
               past |-> Len(history[k])]

With(k, s) == [j \in DOMAIN events \cup {k} |-> IF j = k THEN s ELSE events[j]]

Idle_OnlyEmpty(k, s) == Len(s) = 0
Idle(k, s) == Len(s) = 0 \/ Expired(k, s[Len(s)])

\* Past SWEEP_AT entries, those whose last event is expired are dropped.
Swept(table) ==
  IF Cardinality(DOMAIN table) > SWEEP_AT
  THEN [k \in {j \in DOMAIN table : ~Idle(j, table[j])} |-> table[k]]
  ELSE table

Admit(k) == /\ Admits(k)
            /\ events' = Swept(With(k, Append(Kept(k), now)))
            /\ history' = [history EXCEPT ![k] = Append(@, now)]
            /\ UNCHANGED <<now, refused>>

Refuse(k) == /\ ~Admits(k)
             /\ events' = With(k, Kept(k))
             /\ refused' = refused \cup {Refusal(k)}
             /\ UNCHANGED <<now, history>>

Tick == now' = now + 1 /\ UNCHANGED <<events, history, refused>>

LimiterNext == Tick \/ \E k \in Keys : Admit(k) \/ Refuse(k)

LimiterSpec == LimiterInit /\ [][LimiterNext]_limiterVars
-----------------------------------------------------------------------------
LimiterTypeOK ==
  /\ now \in Nat
  /\ DOMAIN events \subseteq Keys
  /\ \A k \in DOMAIN events : events[k] \in Seq(Nat)
  /\ history \in [Keys -> Seq(Nat)]
  /\ refused \subseteq [key : Keys, at : Nat, after : Nat \ {0}, past : Nat]

\* No stretch of a window's length, wherever it starts, holds more admitted
\* calls of one customer and bucket than the limit: dropping expired events,
\* refusing and sweeping idle entries never let one more through.
WindowRespected ==
  \A k \in Keys : \A i \in 1 .. Len(history[k]) :
    i + LIMIT[k[2]] <= Len(history[k])
      => history[k][i + LIMIT[k[2]]] - history[k][i] >= PER[k[2]]

\* When a refused caller who waits as told calls again.
ToldInstant(r) == r.at + r.after * TICKS

\* What a refused caller is told is the time until the bucket opens, rounded to
\* seconds.  It is never much too long: nobody is admitted more than half a
\* second before that instant, or a whole second when one second is told.  And
\* it is never much too short: as long as nobody else is admitted, who waits as
\* told is refused again only less than half a second after that instant, and
\* is told one second then, so that the next attempt is admitted.
RefusalIsHonest ==
  \A r \in refused :
    /\ r.past < Len(history[r.key]) =>
         LET early == ToldInstant(r) - history[r.key][r.past + 1]
         IN  2 * early <= TICKS \/ (r.after = 1 /\ early < TICKS)
    /\ \A q \in refused :
         q.key = r.key /\ q.past = r.past /\ q.at >= ToldInstant(r)
           => 2 * (q.at - ToldInstant(r)) < TICKS /\ q.after = 1

\* The advice of docs/flutter-search-contract.md:150 for a 429: wait Retry-After
\* seconds, then retry.  Were that enough, who waits as told would not be refused
\* again unless somebody else was admitted.  It is not: a wait of one second and
\* a quarter is told as one.
RetryIsAdmitted ==
  \A r, q \in refused :
    q.key = r.key /\ q.past = r.past /\ q.at > r.at => q.at < ToldInstant(r)

\* The table holds more than SWEEP_AT entries only while every one of them has
\* an event that was inside its window at the last admission of any call: the
\* entries of customers who left are not kept.
OnlyActiveEntriesPastSweep ==
  Cardinality(DOMAIN events) > SWEEP_AT =>
    \A k \in DOMAIN events :
      /\ Len(events[k]) > 0
      /\ \A j \in Keys : \A i \in 1 .. Len(history[j]) :
           history[j][i] - events[k][Len(events[k])] < PER[k[2]]
=============================================================================
