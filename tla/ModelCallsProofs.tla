--------------------------- MODULE ModelCallsProofs ---------------------------
(***************************************************************************)
(* The calls of the model, for any customers, buckets, limits, windows,    *)
(* sweep threshold, times to live and sizes of the two caches: first the   *)
(* rate limiter, on its own and inside the calls that use it, then what a  *)
(* reply may rest on, values that are fresh and were made for what the     *)
(* call asked and read, and photos that belong to the pieces shown.        *)
(***************************************************************************)
EXTENDS ModelCalls, WellFoundedInduction, CollectionFacts

\* Admissions are recorded in the order of the clock.
InOrder(k) ==
  \A i \in 1 .. Len(history[k]) :
    /\ history[k][i] <= now
    /\ \A j \in i .. Len(history[k]) : history[k][i] <= history[k][j]

\* A sequence of events is the end of the history, and what it lacks of it
\* has expired.
EndOfHistory(k, s) ==
  /\ s \in Seq(Nat)
  /\ Len(s) <= LIMIT[k[2]]
  /\ Len(s) <= Len(history[k])
  /\ \A i \in 1 .. Len(s) : s[i] = history[k][Len(history[k]) - Len(s) + i]
  /\ \A i \in 1 .. Len(history[k]) - Len(s) : Expired(k, history[k][i])

\* The instant at which the bucket of a refused caller opens: the oldest call
\* of a full window expires.
Opens(r) == history[r.key][r.past - LIMIT[r.key[2]] + 1] + PER[r.key[2]]

\* A refused caller is told the seconds until then.
Told(r) ==
  /\ r.past \in LIMIT[r.key[2]] .. Len(history[r.key])
  /\ Opens(r) \in Nat /\ r.at < Opens(r)
  /\ r.after = RetryAfterHeader(Opens(r) - r.at)

LInv == /\ LimiterTypeOK
        /\ \A k \in Keys : InOrder(k) /\ EndOfHistory(k, Recorded(k))
        /\ WindowRespected
        /\ \A r \in refused : Told(r)

LEMMA KeyFacts ==
  ASSUME NEW k \in Keys
  PROVE  LIMIT[k[2]] \in Nat \ {0} /\ PER[k[2]] \in Nat \ {0}
BY LimitsArePositive DEF Keys

\* A wait told in whole seconds is off by half a second, unless one is told.
LEMMA HeaderFacts ==
  ASSUME NEW wait \in Nat \ {0}
  PROVE  LET told == RetryAfterHeader(wait) IN
         /\ told \in Nat \ {0} /\ told * TICKS \in Nat
         /\ 2 * (wait - told * TICKS) <= TICKS
         /\ told # 1 => 2 * (told * TICKS - wait) <= TICKS
         /\ told = 1 => told * TICKS = TICKS
         /\ 2 * wait <= TICKS => told = 1
<1> DEFINE q == wait \div TICKS
           r == wait % TICKS
           s == RoundHalfEven(wait, TICKS)
<1>1. TICKS \in Nat \ {0}
  BY LimitsArePositive
<1>2. q \in Int /\ r \in Int /\ wait = TICKS * q + r /\ 0 <= r /\ r < TICKS
  BY <1>1
<1>3. s = IF 2 * r > TICKS \/ (2 * r = TICKS /\ q % 2 = 1) THEN q + 1 ELSE q
  BY DEF RoundHalfEven
<1>4. RetryAfterHeader(wait) = IF s > 1 THEN s ELSE 1
  BY DEF RetryAfterHeader
<1> HIDE DEF q, r, s
<1>5. q >= 0
  <2>1. CASE q <= -1
    <3>1. TICKS * q <= TICKS * (-1)
      BY <1>1, <1>2, <2>1
    <3> QED
      BY <1>1, <1>2, <3>1
  <2> QED
    BY <1>2, <2>1
<1>6. s \in Nat /\ s \in {q, q + 1} /\ (q = 0 /\ 2 * r <= TICKS => s = 0)
  BY <1>1, <1>2, <1>3, <1>5
<1>7. 2 * (wait - s * TICKS) <= TICKS /\ 2 * (s * TICKS - wait) <= TICKS
  <2>1. CASE s = q
    <3>1. s * TICKS = TICKS * q /\ TICKS * q \in Int
      BY <1>1, <1>2, <2>1
    <3>2. 2 * r <= TICKS
      BY <1>1, <1>2, <1>3, <2>1
    <3> DEFINE p == TICKS * q
    <3> HIDE DEF p
    <3>3. s * TICKS = p /\ p \in Int /\ wait = p + r
      BY <1>2, <3>1 DEF p
    <3> QED
      BY <1>1, <1>2, <3>2, <3>3
  <2>2. CASE s = q + 1
    <3>1. s * TICKS = TICKS * q + TICKS /\ TICKS * q \in Int
      BY <1>1, <1>2, <2>2
    <3>2. 2 * r >= TICKS
      BY <1>1, <1>2, <1>3, <2>2
    <3> DEFINE p == TICKS * q
    <3> HIDE DEF p
    <3>3. s * TICKS = p + TICKS /\ p \in Int /\ wait = p + r
      BY <1>2, <3>1 DEF p
    <3> QED
      BY <1>1, <1>2, <3>2, <3>3
  <2> QED
    BY <1>6, <2>1, <2>2
<1>8. s = 0 => s * TICKS = 0
  BY <1>1
<1>9. s = 1 => s * TICKS = TICKS
  BY <1>1
<1>10. 2 * wait <= TICKS => s = 0
  <2> SUFFICES ASSUME 2 * wait <= TICKS PROVE q = 0 /\ 2 * r <= TICKS
    BY <1>6
  <2>1. CASE q >= 1
    <3>1. TICKS * q >= TICKS
      BY <1>1, <1>2, <2>1
    <3> DEFINE p == TICKS * q
    <3>2. p \in Int /\ wait = p + r /\ p >= TICKS
      BY <1>1, <1>2, <3>1
    <3> HIDE DEF p
    <3> QED
      BY <1>1, <1>2, <3>2
  <2>2. CASE q = 0
    <3>1. wait = r
      BY <1>1, <1>2, <2>2
    <3> QED
      BY <2>2, <3>1
  <2> QED
    BY <1>2, <1>5, <2>1, <2>2
<1>11. s * TICKS \in Nat
  BY <1>1, <1>6
<1>12. CASE s > 1
  <2> DEFINE p == s * TICKS
  <2>1. p \in Nat /\ 2 * (wait - p) <= TICKS /\ 2 * (p - wait) <= TICKS
    BY <1>7, <1>11
  <2>2. RetryAfterHeader(wait) = s
    BY <1>4, <1>12
  <2>3. 2 * wait > TICKS
    BY <1>10, <1>12, <1>1
  <2> DEFINE told == RetryAfterHeader(wait)
  <2>4. told = s /\ told * TICKS = p /\ told \in Nat \ {0} /\ told # 1
    BY <1>6, <1>12, <2>2
  <2> HIDE DEF p, told
  <2>5. /\ told \in Nat \ {0} /\ told * TICKS \in Nat
        /\ 2 * (wait - told * TICKS) <= TICKS
        /\ told # 1 => 2 * (told * TICKS - wait) <= TICKS
        /\ told = 1 => told * TICKS = TICKS
        /\ 2 * wait <= TICKS => told = 1
    BY <1>1, <2>1, <2>3, <2>4
  <2> QED
    BY <2>5 DEF told
<1>13. CASE s <= 1
  <2>1. RetryAfterHeader(wait) = 1 /\ 1 * TICKS = TICKS
    BY <1>1, <1>4, <1>6, <1>13
  <2>2. CASE s = 0
    BY <1>1, <1>7, <1>8, <2>1, <2>2
  <2>3. CASE s = 1
    BY <1>1, <1>7, <1>9, <2>1, <2>3
  <2> QED
    BY <1>6, <1>13, <2>2, <2>3
<1> QED
  BY <1>6, <1>12, <1>13

LEMMA SuffixFacts ==
  ASSUME NEW s \in Seq(Nat), NEW d \in 0 .. Len(s)
  PROVE  LET t == SubSeq(s, d + 1, Len(s)) IN
         /\ t \in Seq(Nat)
         /\ Len(t) = Len(s) - d
         /\ \A i \in 1 .. Len(t) : t[i] = s[d + i]
<1>1. \A i \in d + 1 .. Len(s) : s[i] \in Nat
  BY ElementOfSeq
<1> QED
  BY <1>1, SubSeqProperties

\* The popped events are the expired ones at the front.
LEMMA KeptIsSuffix ==
  ASSUME LInv, NEW k \in Keys
  PROVE  LET s == Recorded(k) IN
         \E d \in 0 .. Len(s) :
           /\ Kept(k) = SubSeq(s, d + 1, Len(s))
           /\ \A i \in 1 .. d : Expired(k, s[i])
           /\ d < Len(s) => ~Expired(k, s[d + 1])
<1> DEFINE s == Recorded(k)
           P(d) == /\ \A i \in 1 .. d : Expired(k, s[i])
                   /\ d < Len(s) => ~Expired(k, s[d + 1])
           Stops == {d \in 0 .. Len(s) : d < Len(s) => ~Expired(k, s[d + 1])}
<1>1. s \in Seq(Nat)
  BY DEF LInv, EndOfHistory
<1>2. Stops \subseteq Nat /\ Stops # {}
  <2>1. Len(s) \in Stops
    BY <1>1
  <2> QED
    BY <2>1
<1>3. PICK d \in Stops : \A e \in Stops : ~(<<e, d>> \in OpToRel(<, Nat))
  <2> HIDE DEF Stops
  <2> QED
    BY <1>2, NatLessThanWellFounded, WFMin
<1>4. \A e \in Stops : ~(e < d)
  BY <1>2, <1>3 DEF OpToRel
<1>10. d \in 0 .. Len(s) /\ Len(s) \in Nat
  <2>1. Len(s) \in Nat
    <3> HIDE DEF s
    <3> QED
      BY <1>1
  <2> QED
    BY <2>1
<1>5. ASSUME NEW i \in 1 .. d PROVE Expired(k, s[i])
  <2>1. i - 1 \in 0 .. Len(s) /\ i - 1 < d /\ i - 1 < Len(s)
    <3> HIDE DEF s, Stops
    <3> QED
      BY <1>10
  <2>2. i - 1 \notin Stops
    BY <1>4, <2>1
  <2>3. Expired(k, s[(i - 1) + 1])
    BY <2>1, <2>2
  <2>4. (i - 1) + 1 = i
    OBVIOUS
  <2> QED
    BY <2>3, <2>4
<1>6. \E e \in 0 .. Len(s) : P(e)
  BY <1>3, <1>5
<1>7. Kept(k) = SubSeq(s, (CHOOSE e \in 0 .. Len(s) : P(e)) + 1, Len(s))
  BY DEF Kept
<1> HIDE DEF P, s
<1>8. LET e == CHOOSE e \in 0 .. Len(s) : P(e) IN e \in 0 .. Len(s) /\ P(e)
  BY <1>6
<1>9. \E e \in 0 .. Len(s) : Kept(k) = SubSeq(s, e + 1, Len(s)) /\ P(e)
  BY <1>7, <1>8
<1> QED
  BY <1>9 DEF P, s

\* What is kept is the end of the history inside the window.
LEMMA KeptFacts ==
  ASSUME LInv, NEW k \in Keys
  PROVE  /\ EndOfHistory(k, Kept(k))
         /\ Len(Kept(k)) > 0 => ~Expired(k, Kept(k)[1])
<1> DEFINE s == Recorded(k)
           h == history[k]
<1>1. PICK d \in 0 .. Len(s) : /\ Kept(k) = SubSeq(s, d + 1, Len(s))
                               /\ \A i \in 1 .. d : Expired(k, s[i])
                               /\ d < Len(s) => ~Expired(k, s[d + 1])
  BY KeptIsSuffix
<1>2. EndOfHistory(k, s) /\ h \in Seq(Nat) /\ LIMIT[k[2]] \in Nat
  BY KeyFacts DEF LInv, LimiterTypeOK
<1> DEFINE t == SubSeq(s, d + 1, Len(s))
<1>3. t \in Seq(Nat) /\ Len(t) = Len(s) - d /\ \A i \in 1 .. Len(t) : t[i] = s[d + i]
  BY <1>2, SuffixFacts DEF EndOfHistory
<1>4. /\ Len(s) \in Nat /\ Len(h) \in Nat /\ Len(t) \in Nat
      /\ Len(s) <= LIMIT[k[2]] /\ Len(s) <= Len(h)
      /\ \A i \in 1 .. Len(s) : s[i] = h[Len(h) - Len(s) + i]
      /\ \A i \in 1 .. Len(h) - Len(s) : Expired(k, h[i])
  <2>1. Len(s) \in Nat /\ Len(h) \in Nat /\ Len(t) \in Nat
    <3>1. s \in Seq(Nat)
      BY <1>2 DEF EndOfHistory
    <3> HIDE DEF s, h, t
    <3> QED
      BY <1>2, <1>3, <3>1
  <2> QED
    BY <1>2, <2>1 DEF EndOfHistory
<1>5. Kept(k) = t /\ (Len(t) > 0 => ~Expired(k, t[1]))
  <2>1. Len(t) > 0 => t[1] = s[d + 1] /\ d < Len(s)
    <3> HIDE DEF s, h, t
    <3> QED
      BY <1>3, <1>4
  <2> QED
    BY <1>1, <2>1
<1> HIDE DEF s, h, t
<1>6. Len(t) <= LIMIT[k[2]] /\ Len(t) <= Len(h)
  BY <1>2, <1>3, <1>4
<1>7. ASSUME NEW i \in 1 .. Len(t) PROVE t[i] = h[Len(h) - Len(t) + i]
  <2>1. d + i \in 1 .. Len(s) /\ Len(h) - Len(s) + (d + i) = Len(h) - Len(t) + i
    BY <1>3, <1>4
  <2>2. s[d + i] = h[Len(h) - Len(s) + (d + i)]
    BY <1>4, <2>1
  <2> QED
    BY <1>3, <2>1, <2>2
<1>8. ASSUME NEW i \in 1 .. Len(h) - Len(t) PROVE Expired(k, h[i])
  <2>1. CASE i <= Len(h) - Len(s)
    BY <1>4, <2>1
  <2>2. CASE i > Len(h) - Len(s)
    <3> DEFINE j == i - (Len(h) - Len(s))
    <3>1. j \in 1 .. d /\ j \in 1 .. Len(s) /\ Len(h) - Len(s) + j = i
      BY <1>3, <1>4, <2>2
    <3>2. Expired(k, s[j])
      BY <1>1, <3>1
    <3>3. s[j] = h[i]
      BY <1>4, <3>1
    <3> QED
      BY <3>2, <3>3
  <2> QED
    BY <1>4, <2>1, <2>2
<1> QED
  BY <1>3, <1>5, <1>6, <1>7, <1>8 DEF EndOfHistory, h
-----------------------------------------------------------------------------
\* A table that leaves k alone, or drops it once idle, still ends its history.
LEMMA SweptFacts ==
  ASSUME LInv, NEW k \in Keys, NEW s,
         EndOfHistory(k, s), Idle(k, s)
  PROVE  EndOfHistory(k, <<>>)
<1> DEFINE h == history[k]
<1>1. /\ h \in Seq(Nat) /\ s \in Seq(Nat) /\ now \in Nat
      /\ LIMIT[k[2]] \in Nat /\ PER[k[2]] \in Nat
  BY KeyFacts DEF LInv, LimiterTypeOK, EndOfHistory
<1>2. /\ Len(h) \in Nat /\ Len(s) \in Nat /\ Len(s) <= Len(h)
      /\ \A i \in 1 .. Len(s) : s[i] = h[Len(h) - Len(s) + i]
      /\ \A i \in 1 .. Len(h) - Len(s) : Expired(k, h[i])
      /\ \A i \in 1 .. Len(h) : h[i] \in Nat
      /\ \A i \in 1 .. Len(h) : \A j \in i .. Len(h) : h[i] <= h[j]
  <2>1. \A i \in 1 .. Len(h) : h[i] \in Nat
    BY <1>1, ElementOfSeq
  <2>2. Len(h) \in Nat /\ Len(s) \in Nat
    <3> HIDE DEF h
    <3> QED
      BY <1>1
  <2> QED
    BY <2>1, <2>2 DEF LInv, EndOfHistory, InOrder
<1> HIDE DEF h
<1>3. ASSUME NEW i \in 1 .. Len(h) PROVE Expired(k, h[i])
  <2>1. CASE i <= Len(h) - Len(s)
    BY <1>2, <2>1
  <2>2. CASE i > Len(h) - Len(s)
    <3>1. Len(s) \in 1 .. Len(s) /\ Len(h) - Len(s) + Len(s) = Len(h) /\ Len(h) \in i .. Len(h)
      BY <1>2, <2>2
    <3>2. s[Len(s)] = h[Len(h)] /\ h[i] <= h[Len(h)]
      BY <1>2, <3>1
    <3>3. now - h[Len(h)] >= PER[k[2]]
      BY <3>1, <3>2 DEF Idle, Expired
    <3>4. h[i] \in Nat /\ h[Len(h)] \in Nat
      BY <1>2, <3>1
    <3> QED
      BY <1>1, <3>2, <3>3, <3>4 DEF Expired
  <2> QED
    BY <1>2, <2>1, <2>2
<1> QED
  BY <1>1, <1>2, <1>3 DEF EndOfHistory, h

LEMMA InitLInv == LimiterInit => LInv
<1> SUFFICES ASSUME LimiterInit PROVE LInv
  OBVIOUS
<1>1. \A k \in Keys : Recorded(k) = <<>> /\ history[k] = <<>>
  BY DEF LimiterInit, Recorded
<1>2. LimiterTypeOK
  BY DEF LimiterInit, LimiterTypeOK
<1>3. ASSUME NEW k \in Keys PROVE InOrder(k) /\ EndOfHistory(k, Recorded(k))
  <2>1. InOrder(k)
    BY <1>1 DEF InOrder
  <2>2. EndOfHistory(k, <<>>)
    <3>1. <<>> \in Seq(Nat) /\ Len(<<>>) = 0 /\ Len(history[k]) = 0 /\ LIMIT[k[2]] \in Nat
      BY <1>1, KeyFacts
    <3> QED
      BY <3>1 DEF EndOfHistory
  <2> QED
    BY <1>1, <2>1, <2>2
<1>4. WindowRespected
  BY <1>1 DEF WindowRespected
<1> QED
  BY <1>2, <1>3, <1>4 DEF LInv, LimiterInit

\* As time passes, what has expired stays expired.
LEMMA TickLInv == LInv /\ Tick => LInv'
<1> SUFFICES ASSUME LInv, Tick PROVE LInv'
  OBVIOUS
<1>1. LimiterTypeOK'
  BY DEF LInv, LimiterTypeOK, Tick
<1>2. ASSUME NEW k \in Keys PROVE InOrder(k)' /\ EndOfHistory(k, Recorded(k))'
  <2>1. /\ now \in Nat /\ now' = now + 1 /\ history'[k] = history[k]
        /\ Recorded(k)' = Recorded(k) /\ PER[k[2]] \in Nat /\ history[k] \in Seq(Nat)
    BY KeyFacts DEF LInv, LimiterTypeOK, Tick, Recorded
  <2>2. \A i \in 1 .. Len(history[k]) : history[k][i] \in Nat
    BY <2>1, ElementOfSeq
  <2>3. \A i \in 1 .. Len(history[k]) : Expired(k, history[k][i]) => Expired(k, history[k][i])'
    BY <2>1, <2>2 DEF Expired
  <2>4. InOrder(k)'
    BY <2>1, <2>2 DEF LInv, InOrder
  <2>5. EndOfHistory(k, Recorded(k)) /\ Len(history[k]) \in Nat /\ Len(Recorded(k)) \in Nat
    BY <2>1 DEF LInv, EndOfHistory
  <2>6. \A i \in 1 .. Len(history[k]) - Len(Recorded(k)) : Expired(k, history[k][i])'
    BY <2>3, <2>5 DEF EndOfHistory
  <2> QED
    BY <2>1, <2>4, <2>5, <2>6 DEF EndOfHistory
<1>3. WindowRespected'
  BY DEF LInv, WindowRespected, Tick
<1>4. \A r \in refused' : Told(r)'
  BY DEF LInv, Told, Opens, Tick
<1> QED
  BY <1>1, <1>2, <1>3, <1>4 DEF LInv

\* One entry is written; the sweep may drop idle ones.
LEMMA WrittenFacts ==
  ASSUME LInv, NEW k \in Keys, NEW s, s \in Seq(Nat),
         events' \in {With(k, s), Swept(With(k, s))}
  PROVE  /\ DOMAIN events' \subseteq Keys
         /\ \A j \in DOMAIN events' : events'[j] \in Seq(Nat)
         /\ \A j \in Keys \ {k} :
              \/ Recorded(j)' = Recorded(j)
              \/ Recorded(j)' = <<>> /\ Idle(j, Recorded(j))
         /\ \/ Recorded(k)' = s
            \/ Recorded(k)' = <<>> /\ Idle(k, s)
<1> DEFINE w == With(k, s)
<1>1. /\ DOMAIN w = DOMAIN events \cup {k}
      /\ w[k] = s
      /\ \A j \in DOMAIN events \ {k} : w[j] = events[j]
  BY DEF With
<1>2. DOMAIN events \subseteq Keys /\ \A j \in DOMAIN events : events[j] \in Seq(Nat)
  BY DEF LInv, LimiterTypeOK
<1>3. \/ events' = w
      \/ events' = [j \in {i \in DOMAIN w : ~Idle(i, w[i])} |-> w[j]]
  BY DEF Swept
<1> HIDE DEF w
<1>4. \A j \in Keys : Recorded(j) = IF j \in DOMAIN events THEN events[j] ELSE <<>>
  BY DEF Recorded
<1>5. \A j \in Keys : Recorded(j)' = IF j \in DOMAIN events' THEN events'[j] ELSE <<>>
  BY DEF Recorded
<1>6. CASE events' = w
  BY <1>1, <1>2, <1>4, <1>5, <1>6
<1>7. CASE events' = [j \in {i \in DOMAIN w : ~Idle(i, w[i])} |-> w[j]]
  <2>1. /\ DOMAIN events' = {i \in DOMAIN w : ~Idle(i, w[i])}
        /\ \A j \in DOMAIN events' : events'[j] = w[j]
    BY <1>7
  <2>2. DOMAIN events' \subseteq Keys /\ \A j \in DOMAIN events' : events'[j] \in Seq(Nat)
    BY <1>1, <1>2, <2>1
  <2>3. ASSUME NEW j \in Keys \ {k}
        PROVE  \/ Recorded(j)' = Recorded(j)
               \/ Recorded(j)' = <<>> /\ Idle(j, Recorded(j))
    <3>1. CASE j \in DOMAIN events'
      BY <1>1, <1>4, <1>5, <2>1, <3>1
    <3>2. CASE j \in DOMAIN events /\ j \notin DOMAIN events'
      BY <1>1, <1>4, <1>5, <2>1, <3>2
    <3>3. CASE j \notin DOMAIN events
      BY <1>1, <1>4, <1>5, <2>1, <3>3
    <3> QED
      BY <3>1, <3>2, <3>3
  <2>4. \/ Recorded(k)' = s
        \/ Recorded(k)' = <<>> /\ Idle(k, s)
    BY <1>1, <1>5, <2>1
  <2> QED
    BY <2>2, <2>3, <2>4
<1> QED
  BY <1>3, <1>6, <1>7

\* The recorded events still end the history when history and clock stand.
LEMMA OthersEnd ==
  ASSUME LInv, NEW j \in Keys, now' = now, history'[j] = history[j],
         \/ Recorded(j)' = Recorded(j)
         \/ Recorded(j)' = <<>> /\ Idle(j, Recorded(j))
  PROVE  InOrder(j)' /\ EndOfHistory(j, Recorded(j))'
<1>1. InOrder(j) /\ EndOfHistory(j, Recorded(j))
  BY DEF LInv
<1>2. EndOfHistory(j, Recorded(j)')
  BY <1>1, SweptFacts
<1> QED
  BY <1>1, <1>2 DEF InOrder, EndOfHistory, Expired

LEMMA AdmitLInv ==
  ASSUME LInv, NEW k \in Keys, Admit(k)
  PROVE  LInv'
<1> DEFINE h == history[k]
           s == Append(Kept(k), now)
           L == LIMIT[k[2]]
<1>1. /\ now' = now /\ now \in Nat /\ refused' = refused
      /\ h \in Seq(Nat) /\ Len(h) \in Nat
      /\ L \in Nat \ {0} /\ PER[k[2]] \in Nat \ {0}
      /\ history' = [history EXCEPT ![k] = Append(h, now)]
      /\ events' \in {With(k, s), Swept(With(k, s))}
      /\ Len(Kept(k)) < L
  <2>1. h \in Seq(Nat)
    BY DEF LInv, LimiterTypeOK
  <2>2. Len(h) \in Nat
    <3> HIDE DEF h
    <3> QED
      BY <2>1
  <2> QED
    BY <2>1, <2>2, KeyFacts DEF LInv, LimiterTypeOK, Admit, Admits
<1>2. /\ EndOfHistory(k, Kept(k)) /\ Kept(k) \in Seq(Nat) /\ Len(Kept(k)) \in Nat
      /\ s \in Seq(Nat) /\ Len(s) = Len(Kept(k)) + 1
      /\ \A i \in 1 .. Len(Kept(k)) : s[i] = Kept(k)[i]
      /\ s[Len(s)] = now
  <2>1. EndOfHistory(k, Kept(k)) /\ Kept(k) \in Seq(Nat)
    BY KeptFacts DEF EndOfHistory
  <2> QED
    BY <1>1, <2>1, AppendProperties
<1>3. /\ history' \in [Keys -> Seq(Nat)]
      /\ \A j \in Keys \ {k} : history'[j] = history[j]
      /\ Len(history'[k]) = Len(h) + 1
      /\ \A i \in 1 .. Len(h) : history'[k][i] = h[i]
      /\ history'[k][Len(h) + 1] = now
  <2>1. /\ Append(h, now) \in Seq(Nat) /\ Len(Append(h, now)) = Len(h) + 1
        /\ \A i \in 1 .. Len(h) : Append(h, now)[i] = h[i]
        /\ Append(h, now)[Len(h) + 1] = now
    <3> HIDE DEF h
    <3> QED
      BY <1>1, AppendProperties
  <2> QED
    BY <1>1, <2>1 DEF LInv, LimiterTypeOK
<1>4. \A i \in 1 .. Len(h) : h[i] \in Nat /\ h[i] <= now
  BY <1>1, ElementOfSeq DEF LInv, InOrder
<1>5. /\ DOMAIN events' \subseteq Keys
      /\ \A j \in DOMAIN events' : events'[j] \in Seq(Nat)
      /\ \A j \in Keys \ {k} : \/ Recorded(j)' = Recorded(j)
                               \/ Recorded(j)' = <<>> /\ Idle(j, Recorded(j))
      /\ \/ Recorded(k)' = s
         \/ Recorded(k)' = <<>> /\ Idle(k, s)
  BY <1>1, <1>2, WrittenFacts
<1>6. ~Idle(k, s)
  BY <1>1, <1>2 DEF Idle, Expired
<1>7. Recorded(k)' = s
  BY <1>5, <1>6
<1>8. LimiterTypeOK'
  BY <1>1, <1>3, <1>5 DEF LInv, LimiterTypeOK
<1>9. InOrder(k)'
  BY <1>1, <1>3, <1>4 DEF LInv, InOrder
<1>10. EndOfHistory(k, Recorded(k))'
  <2> HIDE DEF h, s
  <2>1. \A i \in 1 .. Len(Kept(k)) : Kept(k)[i] = h[Len(h) - Len(Kept(k)) + i]
    BY <1>2 DEF EndOfHistory, h
  <2>2. \A i \in 1 .. Len(h) - Len(Kept(k)) : Expired(k, h[i])
    BY <1>2 DEF EndOfHistory, h
  <2>3. Len(s) <= L /\ Len(Kept(k)) <= Len(h) /\ Len(s) <= Len(history'[k])
    BY <1>1, <1>2, <1>3 DEF EndOfHistory, h
  <2>4. ASSUME NEW i \in 1 .. Len(s) PROVE s[i] = history'[k][Len(history'[k]) - Len(s) + i]
    <3>1. Len(history'[k]) - Len(s) + i = Len(h) - Len(Kept(k)) + i
      BY <1>1, <1>2, <1>3
    <3>2. CASE i = Len(s)
      BY <1>1, <1>2, <1>3, <3>1, <3>2
    <3>3. CASE i < Len(s)
      <4>1. i \in 1 .. Len(Kept(k))
        BY <1>2, <3>3
      <4>2. Len(h) - Len(Kept(k)) + i \in 1 .. Len(h)
        <5>1. Len(h) \in Nat /\ Len(Kept(k)) \in Nat /\ Len(Kept(k)) <= Len(h)
          BY <1>1, <1>2, <2>3
        <5> QED
          BY <4>1, <5>1
      <4> QED
        BY <1>2, <1>3, <2>1, <3>1, <4>1, <4>2
    <3> QED
      BY <1>2, <3>2, <3>3
  <2>5. ASSUME NEW i \in 1 .. Len(history'[k]) - Len(s) PROVE Expired(k, history'[k][i])
    <3>1. i \in 1 .. Len(h) - Len(Kept(k)) /\ i \in 1 .. Len(h)
      BY <1>1, <1>2, <1>3, <2>3
    <3> QED
      BY <1>3, <2>2, <3>1
  <2> QED
    BY <1>1, <1>2, <1>7, <2>3, <2>4, <2>5 DEF EndOfHistory, Expired
<1>11. ASSUME NEW j \in Keys, j # k PROVE InOrder(j)' /\ EndOfHistory(j, Recorded(j))'
  BY <1>1, <1>3, <1>5, <1>11, OthersEnd
<1>12. WindowRespected'
  <2> SUFFICES ASSUME NEW j \in Keys, NEW i \in 1 .. Len(history'[j]),
                      i + LIMIT[j[2]] <= Len(history'[j])
               PROVE  history'[j][i + LIMIT[j[2]]] - history'[j][i] >= PER[j[2]]
    BY DEF WindowRespected
  <2>1. CASE j # k
    BY <1>3, <2>1 DEF LInv, WindowRespected
  <2>2. CASE j = k /\ i + L <= Len(h)
    <3>1. i \in 1 .. Len(h) /\ i + L \in 1 .. Len(h)
      BY <1>1, <1>3, <2>2
    <3>2. h[i + L] - h[i] >= PER[k[2]]
      BY <2>2, <3>1 DEF LInv, WindowRespected
    <3> QED
      BY <1>3, <2>2, <3>1, <3>2
  <2>3. CASE j = k /\ i + L = Len(h) + 1
    <3>1. i \in 1 .. Len(h) - Len(Kept(k)) /\ i \in 1 .. Len(h)
      BY <1>1, <1>2, <2>3
    <3>2. Expired(k, h[i])
      BY <1>2, <3>1 DEF EndOfHistory
    <3> QED
      BY <1>3, <2>3, <3>1, <3>2 DEF Expired
  <2>4. j = k => i + L <= Len(h) \/ i + L = Len(h) + 1
    <3>1. j = k => i \in Nat /\ i + L <= Len(h) + 1
      BY <1>3
    <3>2. L \in Nat /\ Len(h) \in Nat
      BY <1>1
    <3> HIDE DEF h, L
    <3> QED
      BY <3>1, <3>2
  <2> QED
    BY <2>1, <2>2, <2>3, <2>4
<1>13. \A r \in refused' : Told(r)'
  <2> SUFFICES ASSUME NEW r \in refused PROVE Told(r)'
    BY <1>1
  <2>1. Told(r) /\ r.key \in Keys /\ r.past \in Nat
    BY DEF LInv, LimiterTypeOK
  <2>2. CASE r.key # k
    BY <1>3, <2>1, <2>2 DEF Told, Opens
  <2>3. CASE r.key = k
    <3>1. r.past \in L .. Len(h)
      BY <2>1, <2>3 DEF Told
    <3>2. r.past \in L .. Len(history'[k]) /\ r.past - L + 1 \in 1 .. Len(h)
      <4>1. L \in Nat \ {0} /\ Len(h) \in Nat /\ Len(history'[k]) = Len(h) + 1
        BY <1>1, <1>3
      <4> HIDE DEF h, L
      <4> QED
        BY <2>1, <3>1, <4>1
    <3>3. history'[k][r.past - L + 1] = h[r.past - L + 1]
      BY <1>3, <3>2
    <3>4. Opens(r)' = Opens(r)
      BY <2>3, <3>3 DEF Opens
    <3> QED
      BY <2>1, <2>3, <3>2, <3>4 DEF Told
  <2> QED
    BY <2>2, <2>3
<1> QED
  BY <1>8, <1>9, <1>10, <1>11, <1>12, <1>13 DEF LInv

LEMMA RefuseLInv ==
  ASSUME LInv, NEW k \in Keys, Refuse(k)
  PROVE  LInv'
<1> DEFINE h == history[k]
           L == LIMIT[k[2]]
           new == Refusal(k)
           opens == h[Len(h) - L + 1] + PER[k[2]]
<1>1. /\ now' = now /\ now \in Nat /\ history' = history
      /\ h \in Seq(Nat)
      /\ L \in Nat \ {0} /\ PER[k[2]] \in Nat \ {0}
      /\ events' = With(k, Kept(k))
      /\ refused' = refused \cup {new}
      /\ new = [key |-> k, at |-> now, after |-> RetryAfterHeader(RetryAfter(k)), past |-> Len(h)]
  BY KeyFacts DEF LInv, LimiterTypeOK, Refuse, Refusal
<1>2. EndOfHistory(k, Kept(k)) /\ Len(h) \in Nat /\ Kept(k) \in Seq(Nat) /\ Len(Kept(k)) \in Nat
  <2>1. EndOfHistory(k, Kept(k)) /\ Kept(k) \in Seq(Nat)
    BY KeptFacts DEF EndOfHistory
  <2> HIDE DEF h
  <2> QED
    BY <1>1, <2>1
<1>3. Len(Kept(k)) = L
  <2>1. Len(Kept(k)) <= L
    BY <1>2 DEF EndOfHistory
  <2>2. ~(Len(Kept(k)) < L)
    BY DEF Refuse, Admits
  <2>3. L \in Nat
    BY <1>1
  <2> HIDE DEF L
  <2> QED
    BY <1>2, <2>1, <2>2, <2>3
<1>4. L \in 1 .. Len(h)
  BY <1>1, <1>2, <1>3 DEF EndOfHistory
<1>5. Kept(k)[1] = h[Len(h) - L + 1] /\ ~Expired(k, Kept(k)[1])
  <2>1. 1 \in 1 .. Len(Kept(k)) /\ Len(Kept(k)) > 0
    BY <1>1, <1>3
  <2>2. Kept(k)[1] = h[Len(h) - Len(Kept(k)) + 1]
    BY <1>2, <2>1 DEF EndOfHistory
  <2> QED
    BY <1>3, <2>1, <2>2, KeptFacts
<1>6. Len(h) - L + 1 \in 1 .. Len(h)
  <2> HIDE DEF h, L
  <2> QED
    BY <1>2, <1>4
<1>7. h[Len(h) - L + 1] \in Nat /\ h[Len(h) - L + 1] <= now
  BY <1>1, <1>6, ElementOfSeq DEF LInv, InOrder
<1>8. /\ RetryAfterHeader(RetryAfter(k)) \in Nat \ {0}
      /\ RetryAfter(k) = opens - now /\ opens \in Nat /\ now < opens
  <2> DEFINE t == h[Len(h) - L + 1]
  <2>1. t \in Nat /\ t <= now /\ ~(now - t >= PER[k[2]]) /\ RetryAfter(k) = PER[k[2]] - (now - t)
    BY <1>5, <1>7 DEF Expired, RetryAfter
  <2> DEFINE per == PER[k[2]]
             wait == RetryAfter(k)
  <2>2. now \in Nat /\ t \in Nat /\ per \in Nat /\ t <= now /\ ~(now - t >= per) /\ wait = per - (now - t)
    BY <1>1, <2>1
  <2> HIDE DEF t, per, wait
  <2>3. wait \in Nat \ {0} /\ wait = (t + per) - now /\ t + per \in Nat /\ now < t + per
    BY <2>2
  <2> QED
    BY <2>3, HeaderFacts DEF t, per, wait
<1>9. /\ DOMAIN events' \subseteq Keys
      /\ \A j \in DOMAIN events' : events'[j] \in Seq(Nat)
      /\ \A j \in Keys \ {k} : Recorded(j)' = Recorded(j)
      /\ Recorded(k)' = Kept(k)
  BY <1>1, <1>2 DEF With, Recorded, LInv, LimiterTypeOK
<1>10. LimiterTypeOK'
  BY <1>1, <1>2, <1>8, <1>9 DEF LInv, LimiterTypeOK
<1>11. ASSUME NEW j \in Keys PROVE InOrder(j)' /\ EndOfHistory(j, Recorded(j))'
  <2>1. InOrder(j)'
    BY <1>1 DEF LInv, InOrder
  <2>2. CASE j = k
    BY <1>1, <1>2, <1>9, <2>1, <2>2 DEF EndOfHistory, Expired
  <2>3. CASE j # k
    BY <1>1, <1>9, <2>1, <2>3, OthersEnd
  <2> QED
    BY <2>2, <2>3
<1>12. WindowRespected'
  BY <1>1 DEF LInv, WindowRespected
<1>13. ASSUME NEW r \in refused' PROVE Told(r)'
  <2>1. CASE r \in refused
    BY <1>1, <2>1 DEF LInv, Told, Opens
  <2>2. CASE r = new
    <3>1. r.key = k /\ r.at = now /\ r.after = RetryAfterHeader(RetryAfter(k)) /\ r.past = Len(h)
      BY <1>1, <2>2
    <3>2. Opens(r)' = opens /\ LIMIT[r.key[2]] = L /\ history'[r.key] = h
      BY <1>1, <3>1 DEF Opens
    <3> HIDE DEF new, opens, h, L
    <3>3. L \in Nat /\ r.past \in L .. Len(h)
      BY <1>1, <1>2, <1>4, <3>1
    <3> QED
      BY <1>1, <1>8, <3>1, <3>2, <3>3 DEF Told
  <2> QED
    BY <1>1, <2>1, <2>2
<1> QED
  BY <1>10, <1>11, <1>12, <1>13 DEF LInv

LEMMA StepLInv == LInv /\ [LimiterNext]_limiterVars => LInv'
<1>1. LInv /\ UNCHANGED limiterVars => LInv'
  BY DEF LInv, limiterVars, LimiterTypeOK, InOrder, EndOfHistory, Recorded, Expired, WindowRespected, Told, Opens
<1> QED
  BY <1>1, TickLInv, AdmitLInv, RefuseLInv DEF LimiterNext

\* Between two refusals with no admission in between, and between a refusal
\* and the next admission, the invariant leaves no room for another opening.
LEMMA HonestRefusals == LInv => RefusalIsHonest
<1> SUFFICES ASSUME LInv, NEW r \in refused
             PROVE  /\ r.past < Len(history[r.key]) =>
                         LET early == ToldInstant(r) - history[r.key][r.past + 1]
                         IN  2 * early <= TICKS \/ (r.after = 1 /\ early < TICKS)
                    /\ \A q \in refused :
                         q.key = r.key /\ q.past = r.past /\ q.at >= ToldInstant(r)
                           => 2 * (q.at - ToldInstant(r)) < TICKS /\ q.after = 1
  BY DEF RefusalIsHonest
<1> DEFINE h == history[r.key]
           L == LIMIT[r.key[2]]
           oldest == h[r.past - L + 1]
           per == PER[r.key[2]]
           opens == Opens(r)
           span == r.after * TICKS
<1>1. /\ r.key \in Keys /\ r.at \in Nat /\ r.after \in Nat \ {0} /\ r.past \in Nat
      /\ h \in Seq(Nat) /\ L \in Nat \ {0} /\ per \in Nat \ {0}
      /\ TICKS \in Nat \ {0}
  BY KeyFacts, LimitsArePositive DEF LInv, LimiterTypeOK
<1>2. /\ r.past \in L .. Len(h) /\ opens \in Nat /\ r.at < opens
      /\ r.after = RetryAfterHeader(opens - r.at)
      /\ opens = oldest + per
  BY DEF LInv, Told, Opens
<1>3. Len(h) \in Nat
  <2> HIDE DEF h
  <2> QED
    BY <1>1
<1>4. /\ span \in Nat /\ 2 * ((opens - r.at) - span) <= TICKS
      /\ r.after # 1 => 2 * (span - (opens - r.at)) <= TICKS
      /\ r.after = 1 => span = TICKS
  <2>1. opens - r.at \in Nat \ {0}
    <3> HIDE DEF opens
    <3> QED
      BY <1>1, <1>2
  <2> QED
    BY <1>2, <2>1, HeaderFacts
<1>5. ToldInstant(r) = r.at + span
  BY DEF ToldInstant
<1>6. ASSUME r.past < Len(h)
      PROVE  \/ 2 * (ToldInstant(r) - h[r.past + 1]) <= TICKS
             \/ r.after = 1 /\ ToldInstant(r) - h[r.past + 1] < TICKS
  <2>1. r.past - L + 1 \in 1 .. Len(h) /\ r.past - L + 1 + L = r.past + 1 /\ r.past + 1 \in 1 .. Len(h)
    <3>1. L \in Nat \ {0} /\ r.past \in Nat /\ Len(h) \in Nat /\ r.past >= L /\ r.past < Len(h)
      BY <1>1, <1>2, <1>3, <1>6
    <3> HIDE DEF h, L
    <3> QED
      BY <3>1
  <2>2. h[r.past + 1] - oldest >= per
    <3>1. \A i \in 1 .. Len(h) : i + L <= Len(h) => h[i + L] - h[i] >= per
      BY <1>1 DEF LInv, WindowRespected
    <3>2. (r.past - L + 1) + L <= Len(h)
      BY <2>1
    <3> HIDE DEF h, L, per
    <3> QED
      BY <2>1, <3>1, <3>2 DEF oldest
  <2>3. h[r.past + 1] \in Nat /\ oldest \in Nat
    BY <1>1, <2>1, ElementOfSeq
  <2> DEFINE next == h[r.past + 1]
  <2>4. /\ next \in Nat /\ oldest \in Nat /\ per \in Nat /\ next - oldest >= per
        /\ opens = oldest + per /\ opens \in Nat /\ r.at < opens
    BY <1>1, <1>2, <2>2, <2>3
  <2> HIDE DEF next, oldest, per, opens, span
  <2>5. 2 * (ToldInstant(r) - next) <= TICKS \/ (r.after = 1 /\ ToldInstant(r) - next < TICKS)
    BY <1>1, <1>4, <1>5, <2>4
  <2> QED
    BY <2>5 DEF next
<1>7. ASSUME NEW q \in refused, q.key = r.key, q.past = r.past, q.at >= ToldInstant(r)
      PROVE  2 * (q.at - ToldInstant(r)) < TICKS /\ q.after = 1
  <2>1. q.at < opens /\ q.after = RetryAfterHeader(opens - q.at)
    BY <1>7 DEF LInv, Told, Opens
  <2>2. q.at \in Nat
    BY DEF LInv, LimiterTypeOK
  <2>3. /\ 2 * (q.at - ToldInstant(r)) < TICKS
        /\ opens - q.at \in Nat \ {0} /\ 2 * (opens - q.at) <= TICKS
    <3> DEFINE told == ToldInstant(r)
               asked == q.at
               start == r.at
    <3>1. /\ told = start + span /\ start \in Nat /\ span \in Nat /\ opens \in Nat
          /\ asked \in Nat /\ asked >= told /\ asked < opens
          /\ 2 * ((opens - start) - span) <= TICKS
      BY <1>1, <1>2, <1>4, <1>5, <1>7, <2>1, <2>2
    <3> HIDE DEF opens, span, told, asked, start
    <3>2. 2 * (asked - told) < TICKS /\ opens - asked \in Nat \ {0} /\ 2 * (opens - asked) <= TICKS
      BY <1>1, <3>1
    <3> QED
      BY <3>2 DEF told, asked
  <2> QED
    BY <2>1, <2>3, HeaderFacts
<1> QED
  BY <1>6, <1>7

\* A refusal drops expired events of a key whose last event stays.
LEMMA RefusalKeepsLast ==
  ASSUME LInv, NEW k \in Keys, Refuse(k)
  PROVE  /\ DOMAIN events' = DOMAIN events
         /\ \A j \in DOMAIN events' : Len(events[j]) > 0
              => Len(events'[j]) > 0 /\ events'[j][Len(events'[j])] = events[j][Len(events[j])]
<1> DEFINE s == Recorded(k)
<1>1. PICK d \in 0 .. Len(s) : Kept(k) = SubSeq(s, d + 1, Len(s))
  BY KeptIsSuffix
<1>2. s \in Seq(Nat) /\ Len(s) \in Nat
  <2>1. s \in Seq(Nat)
    BY DEF LInv, EndOfHistory
  <2> HIDE DEF s
  <2> QED
    BY <2>1
<1> DEFINE t == SubSeq(s, d + 1, Len(s))
<1>3. Len(t) = Len(s) - d /\ \A i \in 1 .. Len(t) : t[i] = s[d + i]
  BY <1>2, SuffixFacts
<1>4. Len(t) > 0
  <2>1. LIMIT[k[2]] \in Nat \ {0} /\ ~(Len(t) < LIMIT[k[2]])
    BY <1>1, KeyFacts DEF Refuse, Admits
  <2> HIDE DEF t, s
  <2> QED
    BY <1>2, <1>3, <2>1
<1>5. k \in DOMAIN events /\ s = events[k]
  <2>1. s # <<>>
    <3> HIDE DEF s
    <3>1. Len(<<>>) = 0
      BY EmptySeq
    <3> HIDE DEF t
    <3> QED
      BY <1>2, <1>3, <1>4, <3>1
  <2> QED
    BY <2>1 DEF Recorded
<1>6. events' = With(k, t)
  BY <1>1 DEF Refuse
<1> HIDE DEF t, s
<1>7. t[Len(t)] = s[Len(s)]
  <2>1. Len(t) \in 1 .. Len(t) /\ d + Len(t) = Len(s)
    BY <1>2, <1>3, <1>4
  <2> QED
    BY <1>3, <2>1
<1>8. /\ DOMAIN events' = DOMAIN events
      /\ \A j \in DOMAIN events : events'[j] = IF j = k THEN t ELSE events[j]
  BY <1>5, <1>6 DEF With
<1> QED
  BY <1>4, <1>5, <1>7, <1>8

\* An admission sweeps a table that is too large: what it leaves has an event
\* in its window, and no event is later than the clock.
LEMMA AdmissionSweeps ==
  ASSUME LInv, NEW k \in Keys, Admit(k), Cardinality(DOMAIN events') > SWEEP_AT,
         NEW e \in DOMAIN events', NEW j \in Keys, NEW i \in 1 .. Len(history'[j])
  PROVE  /\ Len(events'[e]) > 0
         /\ history'[j][i] - events'[e][Len(events'[e])] < PER[e[2]]
<1>0. LInv'
  BY AdmitLInv
<1>1. now' = now /\ now \in Nat
  BY DEF LInv, LimiterTypeOK, Admit
<1> DEFINE w == With(k, Append(Kept(k), now))
<1>2. /\ events' = [l \in {m \in DOMAIN w : ~Idle(m, w[m])} |-> w[l]]
  BY DEF Admit, Swept
<1> HIDE DEF w
<1>3. ~Idle(e, events'[e])
  BY <1>2
<1>4. events'[e] \in Seq(Nat) /\ e \in Keys /\ history'[j] \in Seq(Nat) /\ history'[j][i] <= now
  BY <1>0, <1>1 DEF LInv, LimiterTypeOK, InOrder
<1> DEFINE s == events'[e]
           last == s[Len(s)]
<1>5. Len(s) \in Nat /\ Len(s) # 0 /\ ~(now - last >= PER[e[2]])
  <2>1. Len(s) # 0 /\ ~(now - last >= PER[e[2]])
    BY <1>3 DEF Idle, Expired
  <2>2. Len(s) \in Nat
    <3> HIDE DEF s
    <3> QED
      BY <1>4 DEF s
  <2> QED
    BY <2>1, <2>2
<1>6. history'[j][i] \in Nat /\ PER[e[2]] \in Nat
  BY <1>4, KeyFacts, ElementOfSeq
<1>7. last \in Nat
  <2>1. Len(s) \in 1 .. Len(s)
    BY <1>5
  <2> QED
    BY <1>4, <2>1, ElementOfSeq
<1> DEFINE x == history'[j][i]
           per == PER[e[2]]
<1>8. /\ x \in Nat /\ per \in Nat /\ last \in Nat /\ now \in Nat
      /\ x <= now /\ ~(now - last >= per)
  BY <1>1, <1>4, <1>5, <1>6, <1>7
<1> HIDE DEF x, per, last
<1>9. x - last < per
  BY <1>8
<1> QED
  BY <1>5, <1>9 DEF x, per, last, s

LEMMA StepKeepsActive ==
  LInv /\ OnlyActiveEntriesPastSweep /\ [LimiterNext]_limiterVars => OnlyActiveEntriesPastSweep'
<1> SUFFICES ASSUME LInv, OnlyActiveEntriesPastSweep, [LimiterNext]_limiterVars
             PROVE  OnlyActiveEntriesPastSweep'
  OBVIOUS
<1>1. CASE Tick \/ UNCHANGED limiterVars
  BY <1>1 DEF Tick, limiterVars, OnlyActiveEntriesPastSweep
<1>2. ASSUME NEW k \in Keys, Admit(k) PROVE OnlyActiveEntriesPastSweep'
  <2> SUFFICES ASSUME Cardinality(DOMAIN events') > SWEEP_AT, NEW e \in DOMAIN events'
               PROVE  /\ Len(events'[e]) > 0
                      /\ \A j \in Keys : \A i \in 1 .. Len(history'[j]) :
                           history'[j][i] - events'[e][Len(events'[e])] < PER[e[2]]
    BY DEF OnlyActiveEntriesPastSweep
  <2>1. now \in Nat /\ history'[k] = Append(history[k], now) /\ history[k] \in Seq(Nat)
    BY <1>2 DEF LInv, LimiterTypeOK, Admit
  <2>2. 1 \in 1 .. Len(history'[k])
    BY <2>1, AppendProperties, LenProperties
  <2> QED
    BY <1>2, <2>2, AdmissionSweeps
<1>3. ASSUME NEW k \in Keys, Refuse(k) PROVE OnlyActiveEntriesPastSweep'
  <2>1. history' = history
    BY <1>3 DEF Refuse
  <2> QED
    BY <1>3, <2>1, RefusalKeepsLast DEF OnlyActiveEntriesPastSweep
<1> QED
  BY <1>1, <1>2, <1>3 DEF LimiterNext
-----------------------------------------------------------------------------
\* What a call does to the limiter is one of its own steps, or nothing: the
\* endpoints use it as they find it.
LEMMA CallsStepTheLimiter ==
  [Next]_vars => [LimiterNext]_limiterVars
<1>1. ASSUME NEW c \in Calls, NEW u \in Users, NEW r \in Requests, Request(c, u, r)
      PROVE  [LimiterNext]_limiterVars
  <2>1. <<u, Bucket(r.kind)>> \in Keys
    <3>1. \/ r \in [kind : Kinds \ {"room_image"}, ask : Asks \cup {Blank}]
          \/ r \in [kind : {"room_image"}, ask : Seq(Items) \ {<<>>}]
      BY RequestsAreValid
    <3>2. r.kind \in Kinds
      BY <3>1 DEF Kinds
    <3> QED
      BY <3>2, BucketsCoverKinds DEF Keys
  <2> QED
    BY <1>1, <2>1 DEF Request, RefuseToken, NoProvider, OverLimit, EnterWithSentence,
                      EnterService, EnterImage, LimiterNext, limiterVars
<1>2. ASSUME NEW c \in Calls, Handler(c) \/ Leave(c)
      PROVE  UNCHANGED limiterVars
  BY <1>2 DEF Handler, Leave, DirectoryAnswers, ModelAnswers, UpstreamFails, CatalogueAnswers,
              HistoryAnswers, PurchasesAnswer, ProductHidden, ProductSeen, PhotoAnswers,
              ImageAnswers, limiterVars
<1>3. ASSUME Outside
      PROVE  [LimiterNext]_limiterVars
  BY <1>3 DEF Outside, Passes, ShowOrHide, ChangeLook, ListOrDelist, Edit, LimiterNext, limiterVars
<1>4. UNCHANGED vars => UNCHANGED limiterVars
  BY DEF vars
<1> QED
  BY <1>1, <1>2, <1>3, <1>4 DEF Next

\* Whatever the endpoints do, the limiter they share behaves as it does alone.
THEOREM CallsImplementLimiter == Spec => LimiterSpec
<1>1. Init => LimiterInit
  BY DEF Init
<1> QED
  BY <1>1, CallsStepTheLimiter, PTL DEF Spec, LimiterSpec

\* The inductive invariant, for the limiter alone.
THEOREM LimiterInvariance == LimiterSpec => []LInv
BY InitLInv, StepLInv, PTL DEF LimiterSpec

\* No window of any customer and bucket holds more admitted calls than its
\* limit, for the endpoints as they are.
THEOREM NoWindowOverfull == Spec => []WindowRespected
<1>1. LInv => WindowRespected
  BY DEF LInv
<1> QED
  BY CallsImplementLimiter, LimiterInvariance, <1>1, PTL

\* What a refused caller is told is the bucket's opening to half a second: who
\* waits as told is refused at most once more, if nobody else is admitted.
THEOREM RefusalsAreHonest == Spec => []RefusalIsHonest
BY CallsImplementLimiter, LimiterInvariance, HonestRefusals, PTL

\* A table larger than the sweep's threshold holds active entries only: what
\* customers who left once wrote does not stay.
THEOREM SweepBoundsTable == Spec => []OnlyActiveEntriesPastSweep
<1>1. LimiterInit => OnlyActiveEntriesPastSweep
  BY FS_EmptySet, LimitsArePositive DEF LimiterInit, OnlyActiveEntriesPastSweep
<1> QED
  BY <1>1, CallsImplementLimiter, LimiterInvariance, StepKeepsActive, PTL DEF LimiterSpec

-----------------------------------------------------------------------------
(* Sequences of anything, and the caches' operations on them.              *)

Distinct(s) == \A i, j \in 1 .. Len(s) : s[i].key = s[j].key => i = j

LEMMA SubSeqFacts ==
  ASSUME NEW s, IsSeq(s), NEW m \in Nat \ {0}, NEW n \in 0 .. Len(s)
  PROVE  LET t == SubSeq(s, m, n) IN
         /\ t \in Seq(Range(s))
         /\ Len(t) = IF m <= n THEN n - m + 1 ELSE 0
         /\ \A i \in 1 .. Len(t) : m + i - 1 \in 1 .. Len(s) /\ t[i] = s[m + i - 1]
<1>1. Len(s) \in Nat /\ \A i \in 1 .. Len(s) : s[i] \in Range(s)
  BY SeqFacts DEF IsSeq
<1>2. \A i \in m .. n : s[i] \in Range(s)
  BY <1>1
<1> QED
  BY <1>1, <1>2, SubSeqProperties

\* One thing is taken out of a cache, and nothing else.
LEMMA RemovalFacts ==
  ASSUME NEW s, IsSeq(s), NEW p \in 1 .. Len(s)
  PROVE  LET t == RemoveAt(s, p) IN
         /\ t \in Seq(Range(s))
         /\ Len(t) = Len(s) - 1
         /\ \A i \in 1 .. Len(t) :
              LET was == IF i < p THEN i ELSE i + 1
              IN  was \in 1 .. Len(s) /\ was # p /\ t[i] = s[was]
<1> DEFINE a == SubSeq(s, 1, p - 1)
           b == SubSeq(s, p + 1, Len(s))
<1>1. Len(s) \in Nat /\ p - 1 \in 0 .. Len(s) /\ Len(s) \in 0 .. Len(s) /\ p + 1 \in Nat \ {0}
  BY SeqFacts DEF IsSeq
<1>2. /\ a \in Seq(Range(s)) /\ Len(a) = p - 1
      /\ \A i \in 1 .. Len(a) : a[i] = s[i]
  <2> DEFINE m == 1
             n == p - 1
  <2>0. m \in Nat \ {0} /\ n \in 0 .. Len(s) /\ a = SubSeq(s, m, n)
    BY <1>1
  <2> HIDE DEF a, m, n
  <2>1. /\ a \in Seq(Range(s)) /\ Len(a) = IF m <= n THEN n - m + 1 ELSE 0
        /\ \A i \in 1 .. Len(a) : a[i] = s[m + i - 1]
    BY <2>0, SubSeqFacts
  <2>2. Len(a) = p - 1 /\ \A i \in 1 .. Len(a) : m + i - 1 = i
    BY <1>1, <2>1 DEF m, n
  <2> QED
    BY <2>1, <2>2
<1>3. /\ b \in Seq(Range(s)) /\ Len(b) = Len(s) - p
      /\ \A i \in 1 .. Len(b) : b[i] = s[p + i]
  <2> DEFINE m == p + 1
             n == Len(s)
  <2>0. m \in Nat \ {0} /\ n \in 0 .. Len(s) /\ b = SubSeq(s, m, n)
    BY <1>1
  <2> HIDE DEF b, m, n
  <2>1. /\ b \in Seq(Range(s)) /\ Len(b) = IF m <= n THEN n - m + 1 ELSE 0
        /\ \A i \in 1 .. Len(b) : b[i] = s[m + i - 1]
    BY <2>0, SubSeqFacts
  <2>2. Len(b) = Len(s) - p
    BY <1>1, <2>1 DEF m, n
  <2>3. ASSUME NEW i \in 1 .. Len(b) PROVE m + i - 1 = p + i
    BY <1>1, <2>2 DEF m
  <2> QED
    BY <2>1, <2>2, <2>3
<1> DEFINE t == RemoveAt(s, p)
<1>4. t = a \o b
  BY DEF RemoveAt
<1> HIDE DEF a, b, t
<1>5. /\ t \in Seq(Range(s)) /\ Len(t) = Len(a) + Len(b)
      /\ \A i \in 1 .. Len(t) : t[i] = IF i <= Len(a) THEN a[i] ELSE b[i - Len(a)]
  <2>1. a \in Seq(Range(s)) /\ b \in Seq(Range(s))
    BY <1>2, <1>3
  <2>2. /\ a \o b \in Seq(Range(s)) /\ Len(a \o b) = Len(a) + Len(b)
        /\ \A i \in 1 .. Len(a) + Len(b) :
             (a \o b)[i] = IF i <= Len(a) THEN a[i] ELSE b[i - Len(a)]
    BY <2>1, ConcatProperties
  <2> QED
    BY <1>4, <2>2
<1>6. ASSUME NEW i \in 1 .. Len(t)
      PROVE  LET was == IF i < p THEN i ELSE i + 1
             IN  was \in 1 .. Len(s) /\ was # p /\ t[i] = s[was]
  <2>1. CASE i < p
    BY <1>1, <1>2, <1>3, <1>5, <2>1
  <2>2. CASE ~(i < p)
    <3>1. i - Len(a) \in 1 .. Len(b) /\ p + (i - Len(a)) = i + 1 /\ ~(i <= Len(a))
      BY <1>1, <1>2, <1>3, <1>5, <2>2
    <3>2. t[i] = s[i + 1]
      BY <1>3, <1>5, <3>1
    <3> QED
      BY <1>1, <1>2, <1>3, <1>5, <2>2, <3>2
  <2> QED
    BY <2>1, <2>2
<1>7. Len(t) = Len(s) - 1
  BY <1>1, <1>2, <1>3, <1>5
<1> QED
  BY <1>5, <1>6, <1>7 DEF t

LEMMA OthersFacts ==
  ASSUME NEW cache, IsSeq(cache), Distinct(cache), NEW key
  PROVE  LET t == Others(cache, key) IN
         /\ IsSeq(t) /\ Distinct(t)
         /\ Range(t) \subseteq Range(cache)
         /\ \A e \in Range(t) : e.key # key
         /\ Len(t) <= Len(cache)
         /\ FreshEntries(cache, key) # {} => Len(t) < Len(cache)
<1> DEFINE Places == {i \in 1 .. Len(cache) : cache[i].key = key}
<1>0. Len(cache) \in Nat /\ \A e : e \in Range(cache) <=> \E i \in 1 .. Len(cache) : e = cache[i]
  BY SeqFacts DEF IsSeq
<1>1. CASE Places = {}
  <2>1. Others(cache, key) = cache
    BY <1>1 DEF Others
  <2>2. FreshEntries(cache, key) = {}
    BY <1>1 DEF FreshEntries, Entries
  <2>3. \A e \in Range(cache) : e.key # key
    BY <1>0, <1>1
  <2> QED
    BY <1>0, <2>1, <2>2, <2>3
<1>2. CASE Places # {}
  <2> DEFINE p == CHOOSE i \in Places : TRUE
             t == RemoveAt(cache, p)
  <2>1. p \in Places /\ Others(cache, key) = t
    BY <1>2 DEF Others
  <2>2. p \in 1 .. Len(cache) /\ cache[p].key = key
    BY <2>1
  <2> HIDE DEF Places, p
  <2>3. /\ t \in Seq(Range(cache)) /\ Len(t) = Len(cache) - 1
        /\ \A i \in 1 .. Len(t) :
             LET was == IF i < p THEN i ELSE i + 1
             IN  was \in 1 .. Len(cache) /\ was # p /\ t[i] = cache[was]
    BY <2>2, RemovalFacts
  <2>4. IsSeq(t) /\ \A e : e \in Range(t) <=> \E i \in 1 .. Len(t) : e = t[i]
    BY <2>3, SeqFacts
  <2> HIDE DEF t
  <2> DEFINE Was(i) == IF i < p THEN i ELSE i + 1
  <2>5. \A i \in 1 .. Len(t) : Was(i) \in 1 .. Len(cache) /\ Was(i) # p /\ t[i] = cache[Was(i)]
    BY <2>3
  <2>6. \A i, j \in 1 .. Len(t) : Was(i) = Was(j) => i = j
    BY <1>0, <2>2, <2>3
  <2> HIDE DEF Was
  <2>7. Distinct(t)
    BY <2>5, <2>6 DEF Distinct
  <2>8. ASSUME NEW e \in Range(t) PROVE e \in Range(cache) /\ e.key # key
    <3>1. PICK i \in 1 .. Len(t) : e = t[i]
      BY <2>4
    <3>2. e = cache[Was(i)] /\ Was(i) \in 1 .. Len(cache) /\ Was(i) # p
      BY <2>5, <3>1
    <3> QED
      BY <1>0, <2>2, <3>2 DEF Distinct
  <2> QED
    BY <1>0, <2>1, <2>3, <2>4, <2>7, <2>8
<1> QED
  BY <1>1, <1>2

LEMMA AddedFacts ==
  ASSUME NEW s, IsSeq(s), Distinct(s), NEW e, \A x \in Range(s) : x.key # e.key
  PROVE  Distinct(Append(s, e))
<1> DEFINE t == Append(s, e)
<1>1. /\ Len(t) = Len(s) + 1 /\ Len(s) \in Nat
      /\ \A i \in 1 .. Len(s) : t[i] = s[i] /\ s[i] \in Range(s)
      /\ t[Len(s) + 1] = e
  BY AppendFacts, SeqFacts DEF IsSeq
<1> HIDE DEF t
<1>2. Distinct(t)
  BY <1>1 DEF Distinct
<1> QED
  BY <1>2 DEF t

\* get keeps what the cache held, and may drop one entry.
LEMMA GetFacts ==
  ASSUME NEW cache, IsSeq(cache), Distinct(cache), NEW key
  PROVE  LET t == CacheGet(cache, key) IN
         /\ IsSeq(t) /\ Distinct(t)
         /\ Range(t) \subseteq Range(cache)
         /\ Len(t) <= Len(cache)
<1> DEFINE rest == Others(cache, key)
<1>1. /\ IsSeq(rest) /\ Distinct(rest)
      /\ Range(rest) \subseteq Range(cache)
      /\ \A e \in Range(rest) : e.key # key
      /\ Len(rest) <= Len(cache) /\ Len(rest) \in Nat /\ Len(cache) \in Nat
      /\ FreshEntries(cache, key) # {} => Len(rest) < Len(cache)
  BY OthersFacts, SeqFacts DEF IsSeq
<1> HIDE DEF rest
<1>2. CASE FreshEntries(cache, key) = {}
  BY <1>1, <1>2 DEF CacheGet, rest
<1>3. CASE FreshEntries(cache, key) # {}
  <2> DEFINE e == CHOOSE e \in FreshEntries(cache, key) : TRUE
  <2>1. CacheGet(cache, key) = Append(rest, e)
    BY <1>3 DEF CacheGet, rest
  <2>2. e \in FreshEntries(cache, key)
    BY <1>3
  <2>3. e.key = key /\ e \in Range(cache)
    BY <2>2, SeqFacts DEF FreshEntries, Entries, IsSeq
  <2> HIDE DEF e
  <2>4. Distinct(Append(rest, e))
    BY <1>1, <2>3, AddedFacts
  <2>5. /\ IsSeq(Append(rest, e)) /\ Len(Append(rest, e)) = Len(rest) + 1
        /\ Range(Append(rest, e)) = Range(rest) \cup {e}
    BY <1>1, AppendFacts
  <2> QED
    BY <1>1, <1>3, <2>1, <2>3, <2>4, <2>5
<1> QED
  BY <1>2, <1>3

\* put adds one entry to what the cache held, and stays within its size.
LEMMA PutFacts ==
  ASSUME NEW cache, IsSeq(cache), Distinct(cache), NEW key, NEW value, NEW max \in Nat \ {0}, Caching
  PROVE  LET t == CachePut(cache, key, value, max) IN
         /\ IsSeq(t) /\ Distinct(t)
         /\ Range(t) \subseteq Range(cache) \cup {[key |-> key, at |-> now, value |-> value]}
         /\ Len(t) <= max
<1> DEFINE rest == Others(cache, key)
           new == [key |-> key, at |-> now, value |-> value]
           all == Append(rest, new)
<1>1. /\ IsSeq(rest) /\ Distinct(rest) /\ Len(rest) \in Nat
      /\ Range(rest) \subseteq Range(cache)
      /\ \A e \in Range(rest) : e.key # new.key
  BY OthersFacts, SeqFacts DEF IsSeq
<1> HIDE DEF rest
<1>2. Distinct(all) /\ IsSeq(all) /\ Len(all) = Len(rest) + 1 /\ Range(all) = Range(rest) \cup {new}
  <2> HIDE DEF new
  <2> QED
    BY <1>1, AddedFacts, AppendFacts
<1> DEFINE from == IF Len(all) > max THEN Len(all) - max + 1 ELSE 1
           t == SubSeq(all, from, Len(all))
<1>3. CachePut(cache, key, value, max) = t
  BY DEF CachePut, rest
<1>4. Len(all) \in 0 .. Len(all) /\ from \in Nat \ {0}
  BY <1>1, <1>2
<1> HIDE DEF all, from
<1>5. /\ t \in Seq(Range(all))
      /\ Len(t) = IF from <= Len(all) THEN Len(all) - from + 1 ELSE 0
      /\ \A i \in 1 .. Len(t) : from + i - 1 \in 1 .. Len(all) /\ t[i] = all[from + i - 1]
  BY <1>2, <1>4, SubSeqFacts
<1>6. IsSeq(t) /\ \A e : e \in Range(t) <=> \E i \in 1 .. Len(t) : e = t[i]
  BY <1>5, SeqFacts
<1>7. Len(t) <= max
  BY <1>1, <1>2, <1>5 DEF from
<1>8. Len(t) \in Nat /\ \A i \in 1 .. Len(all) : all[i] \in Range(all)
  BY <1>2, <1>5, SeqFacts DEF IsSeq
<1> HIDE DEF t
<1>9. Distinct(t)
  <2> SUFFICES ASSUME NEW i \in 1 .. Len(t), NEW j \in 1 .. Len(t), t[i].key = t[j].key
               PROVE  i = j
    BY DEF Distinct
  <2>1. /\ from + i - 1 \in 1 .. Len(all) /\ t[i] = all[from + i - 1]
        /\ from + j - 1 \in 1 .. Len(all) /\ t[j] = all[from + j - 1]
    BY <1>5
  <2>2. from + i - 1 = from + j - 1
    BY <1>2, <2>1 DEF Distinct
  <2> QED
    BY <1>4, <1>8, <2>2
<1>10. Range(t) \subseteq Range(all)
  BY <1>5, <1>6, <1>8
<1> QED
  BY <1>1, <1>2, <1>3, <1>6, <1>7, <1>9, <1>10
-----------------------------------------------------------------------------
(* What holds of every cache and of every call.                            *)

CacheOk(cache, max) ==
  /\ IsSeq(cache) /\ Distinct(cache) /\ Len(cache) <= max
  /\ \A e \in Range(cache) : e.at = e.value.made /\ e.at \in Nat /\ e.at <= now
  /\ ~Caching => cache = <<>>

\* An entry is kept under what its value was made from.
SoundParse(e) ==
  /\ e.value.sort = "taste" => e.key = TasteKey(e.value.user)
  /\ e.value.sort = "service" => e.key = ServiceKey(e.value.offered, e.value.ask)
  /\ e.value.sort \in {"search", "room_plan", "furnishing"}
       => e.key = ParseKey(e.value.sort, e.value.ask) /\ e.value.offered = {}

SoundImage(e) ==
  e.value.sort = "room_image" => e.key = ImageKey(e.value.pieces, e.value.photos)

ParsesGood == CacheOk(parses, MAX_PARSES) /\ \A e \in Range(parses) : SoundParse(e)
ImagesGood == CacheOk(images, MAX_IMAGES) /\ \A e \in Range(images) : SoundImage(e)

Fields == {"stage", "kind", "user", "ask", "todo", "version", "pieces", "photos",
           "offered", "used", "status"}

Statused == {0, 200, 401, 404, 422, 429, 502, 503}

\* A value, used now, is not older than the time to live.
FreshNow(made) == now > made => now - made < config.ttl

FitsCall(x, v) ==
  \/ v.sort = "taste" /\ v.user = x.user
  \/ v.sort = "room_image" /\ v.pieces = x.pieces /\ v.photos = x.photos
  \/ v.sort = x.kind /\ v.ask = x.ask /\ v.offered = x.offered

Matched(pieces, photos) ==
  LET Numbered == {i \in 1 .. Len(pieces) : pieces[i].photo # 0}
  IN  /\ {pieces[i].photo : i \in Numbered} = 1 .. Len(photos)
      /\ Cardinality(Numbered) = Len(photos)
      /\ \A i \in Numbered : photos[pieces[i].photo]
           = Photo(pieces[i].product, pieces[i].version, pieces[i].colour)

CallOk(x) ==
  /\ DOMAIN x = Fields
  /\ x.status \in Statused
  /\ x.stage \in {"directory", "model", "product", "photo", "image"} => x.used = {}
  /\ x.stage = "directory" => x.kind = "service"
  /\ x.stage = "model" => x.kind \in {"search", "room_plan", "furnishing", "service"}
  /\ x.kind # "service" => x.offered = {}
  /\ IsSeq(x.pieces) /\ IsSeq(x.photos) /\ Matched(x.pieces, x.photos)
  /\ \A a \in x.used : a.at > a.value.made => a.at - a.value.made < config.ttl
  /\ \A a \in x.used : FitsCall(x, a.value)

CallsGood == DOMAIN calls = Calls /\ \A c \in Calls : CallOk(calls[c])

CInv == ParsesGood /\ ImagesGood /\ CallsGood

LEMMA EmptyFacts == IsSeq(<<>>) /\ Distinct(<<>>) /\ Range(<<>>) = {} /\ Matched(<<>>, <<>>)
<1>1. <<>> \in Seq({}) /\ Len(<<>>) = 0
  BY EmptySeq
<1>2. IsSeq(<<>>) /\ \A e : e \in Range(<<>>) <=> \E i \in 1 .. Len(<<>>) : e = <<>>[i]
  BY <1>1, SeqFacts
<1>3. {i \in 1 .. Len(<<>>) : <<>>[i].photo # 0} = {}
  BY <1>1
<1> QED
  BY <1>1, <1>2, <1>3, FS_EmptySet DEF Distinct, Matched

LEMMA GetKeeps ==
  ASSUME NEW cache, NEW max, CacheOk(cache, max), NEW key, max \in Nat
  PROVE  LET t == IF Caching THEN CacheGet(cache, key) ELSE cache IN
         CacheOk(t, max) /\ Range(t) \subseteq Range(cache)
<1> DEFINE t == CacheGet(cache, key)
<1>1. /\ IsSeq(t) /\ Distinct(t) /\ Range(t) \subseteq Range(cache)
      /\ Len(t) <= Len(cache) /\ Len(t) \in Nat /\ Len(cache) \in Nat /\ Len(cache) <= max
  BY GetFacts, SeqFacts DEF CacheOk, IsSeq
<1> HIDE DEF t
<1>2. Caching => CacheOk(t, max)
  BY <1>1 DEF CacheOk
<1> QED
  BY <1>1, <1>2 DEF t

LEMMA PutKeeps ==
  ASSUME NEW cache, NEW max \in Nat \ {0}, CacheOk(cache, max), NEW key, NEW value,
         value.made = now, now \in Nat
  PROVE  LET t == CachePut(cache, key, value, max) IN
         /\ CacheOk(t, max)
         /\ Range(t) \subseteq Range(cache) \cup {[key |-> key, at |-> now, value |-> value]}
<1> DEFINE t == CachePut(cache, key, value, max)
<1>1. CASE ~Caching
  BY <1>1 DEF CachePut
<1>2. CASE Caching
  <2>1. /\ IsSeq(t) /\ Distinct(t) /\ Len(t) <= max
        /\ Range(t) \subseteq Range(cache) \cup {[key |-> key, at |-> now, value |-> value]}
    BY <1>2, PutFacts DEF CacheOk
  <2> HIDE DEF t
  <2>2. \A e \in Range(t) : e.at = e.value.made /\ e.at \in Nat /\ e.at <= now
    BY <2>1 DEF CacheOk
  <2>3. CacheOk(t, max)
    BY <1>2, <2>1, <2>2 DEF CacheOk
  <2> QED
    BY <2>1, <2>3 DEF t
<1> QED
  BY <1>1, <1>2

\* What the cache of parses is asked for, and what is put in it.
LEMMA ParsesRead ==
  ASSUME CInv, NEW key, parses' = IF Caching THEN CacheGet(parses, key) ELSE parses,
         now' = now, config' = config
  PROVE  ParsesGood'
<1> DEFINE t == IF Caching THEN CacheGet(parses, key) ELSE parses
<1>1. CacheOk(t, MAX_PARSES) /\ Range(t) \subseteq Range(parses)
  BY GetKeeps, CachesHoldSomething DEF CInv, ParsesGood
<1>2. parses' = t
  OBVIOUS
<1> HIDE DEF t
<1>3. CacheOk(parses, MAX_PARSES)'
  BY <1>1, <1>2 DEF CacheOk, Caching
<1>4. \A e \in Range(t) : SoundParse(e)
  BY <1>1 DEF CInv, ParsesGood
<1> QED
  BY <1>2, <1>3, <1>4 DEF ParsesGood, SoundParse

LEMMA ParsesWritten ==
  ASSUME CInv, now \in Nat, NEW key, NEW value, value.made = now,
         SoundParse([key |-> key, at |-> now, value |-> value]),
         parses' = CachePut(parses, key, value, MAX_PARSES), now' = now, config' = config
  PROVE  ParsesGood'
<1> DEFINE t == CachePut(parses, key, value, MAX_PARSES)
           new == [key |-> key, at |-> now, value |-> value]
<1>1. CacheOk(t, MAX_PARSES) /\ Range(t) \subseteq Range(parses) \cup {new}
  BY PutKeeps, CachesHoldSomething DEF CInv, ParsesGood
<1>2. parses' = t /\ SoundParse(new)
  OBVIOUS
<1> HIDE DEF t, new
<1>3. CacheOk(parses, MAX_PARSES)'
  BY <1>1, <1>2 DEF CacheOk, Caching
<1>4. \A e \in Range(t) : SoundParse(e)
  BY <1>1, <1>2 DEF CInv, ParsesGood
<1> QED
  BY <1>2, <1>3, <1>4 DEF ParsesGood, SoundParse

LEMMA ImagesRead ==
  ASSUME CInv, NEW key, images' = IF Caching THEN CacheGet(images, key) ELSE images,
         now' = now, config' = config
  PROVE  ImagesGood'
<1> DEFINE t == IF Caching THEN CacheGet(images, key) ELSE images
<1>1. CacheOk(t, MAX_IMAGES) /\ Range(t) \subseteq Range(images)
  BY GetKeeps, CachesHoldSomething DEF CInv, ImagesGood
<1>2. images' = t
  OBVIOUS
<1> HIDE DEF t
<1>3. CacheOk(images, MAX_IMAGES)'
  BY <1>1, <1>2 DEF CacheOk, Caching
<1>4. \A e \in Range(t) : SoundImage(e)
  BY <1>1 DEF CInv, ImagesGood
<1> QED
  BY <1>2, <1>3, <1>4 DEF ImagesGood, SoundImage

\* Neither cache is touched.
LEMMA CachesStay ==
  /\ CInv /\ parses' = parses /\ now' = now /\ config' = config => ParsesGood'
  /\ CInv /\ images' = images /\ now' = now /\ config' = config => ImagesGood'
BY DEF CInv, ParsesGood, ImagesGood, CacheOk, Caching, SoundParse, SoundImage

\* One call moves, to a state that is as it should be.
LEMMA CallSet ==
  ASSUME CInv, NEW c \in Calls, NEW y, Set(c, y), CallOk(y), config' = config
  PROVE  CallsGood'
<1>1. DOMAIN calls' = Calls /\ \A d \in Calls : calls'[d] = IF d = c THEN y ELSE calls[d]
  BY DEF CInv, CallsGood, Set
<1>2. \A d \in Calls : CallOk(calls'[d])
  BY <1>1 DEF CInv, CallsGood
<1> QED
  BY <1>1, <1>2 DEF CallsGood, CallOk, FitsCall, Matched, Photo

LEMMA CallsStay ==
  ASSUME CallsGood, calls' = calls, config' = config
  PROVE  CallsGood'
<1>1. DOMAIN calls' = Calls /\ \A c \in Calls : CallOk(calls'[c])
  BY DEF CallsGood
<1> QED
  BY <1>1 DEF CallsGood, CallOk, FitsCall, Matched, Photo

LEMMA RepliedOk ==
  ASSUME NEW x, CallOk(x), NEW status \in Statused
  PROVE  CallOk(Replied(x, status))
BY DEF CallOk, Replied, Fields, FitsCall

\* A value is used: the call is over, or goes on to the catalogue.
LEMMA UsedOk ==
  ASSUME NEW x, CallOk(x), NEW v, FreshNow(v.made), FitsCall(x, v)
  PROVE  CallOk(Replied(Using(x, v), 200)) /\ CallOk(AfterParse(Using(x, v)))
<1> DEFINE new == [value |-> v, at |-> now]
           y == Replied(Using(x, v), 200)
           z == [Using(x, v) EXCEPT !.stage = "catalogue"]
<1>1. \A a \in x.used \cup {new} :
        /\ FitsCall(x, a.value)
        /\ a.at > a.value.made => a.at - a.value.made < config.ttl
  BY DEF CallOk, FreshNow
<1>2. /\ DOMAIN y = Fields /\ y.status = 200 /\ y.stage = "done" /\ y.used = x.used \cup {new}
      /\ y.kind = x.kind /\ y.offered = x.offered /\ y.user = x.user /\ y.ask = x.ask
      /\ y.pieces = x.pieces /\ y.photos = x.photos
  BY DEF CallOk, Fields, Using, Replied
<1>3. /\ DOMAIN z = Fields /\ z.status = x.status /\ z.stage = "catalogue" /\ z.used = x.used \cup {new}
      /\ z.kind = x.kind /\ z.offered = x.offered /\ z.user = x.user /\ z.ask = x.ask
      /\ z.pieces = x.pieces /\ z.photos = x.photos
  BY DEF CallOk, Fields, Using
<1> HIDE DEF y, z, new
<1>4. CallOk(y)
  BY <1>1, <1>2 DEF CallOk, FitsCall, Statused
<1>5. CallOk(z)
  BY <1>1, <1>3 DEF CallOk, FitsCall
<1> QED
  BY <1>4, <1>5 DEF AfterParse, y, z
-----------------------------------------------------------------------------
(* What is found, added and failed.                                        *)

LEMMA ImagesWritten ==
  ASSUME CInv, now \in Nat, NEW key, NEW value, value.made = now,
         SoundImage([key |-> key, at |-> now, value |-> value]),
         images' = CachePut(images, key, value, MAX_IMAGES), now' = now, config' = config
  PROVE  ImagesGood'
<1> DEFINE t == CachePut(images, key, value, MAX_IMAGES)
           new == [key |-> key, at |-> now, value |-> value]
<1>1. CacheOk(t, MAX_IMAGES) /\ Range(t) \subseteq Range(images) \cup {new}
  BY PutKeeps, CachesHoldSomething DEF CInv, ImagesGood
<1>2. images' = t /\ SoundImage(new)
  OBVIOUS
<1> HIDE DEF t, new
<1>3. CacheOk(images, MAX_IMAGES)'
  BY <1>1, <1>2 DEF CacheOk, Caching
<1>4. \A e \in Range(t) : SoundImage(e)
  BY <1>1, <1>2 DEF CInv, ImagesGood
<1> QED
  BY <1>2, <1>3, <1>4 DEF ImagesGood, SoundImage

\* A value that is found is fresh, and is the value of an entry of that key.
LEMMA Found ==
  ASSUME NEW cache, NEW max, CacheOk(cache, max), now \in Nat, NEW key, NEW sort,
         NEW v \in Cached(cache, key, sort)
  PROVE  /\ FreshNow(v.made) /\ v.sort = sort
         /\ \E e \in Range(cache) : e.key = key /\ v = e.value
<1>1. PICK e \in FreshEntries(cache, key) : v = e.value /\ v.sort = sort
  BY DEF Cached
<1>2. PICK i \in 1 .. Len(cache) : e = cache[i] /\ cache[i].key = key
  BY <1>1 DEF FreshEntries, Entries
<1>3. e \in Range(cache)
  BY <1>2, SeqFacts DEF CacheOk, IsSeq
<1>4. e.at = e.value.made /\ now - e.at < config.ttl
  BY <1>1, <1>3 DEF CacheOk, FreshEntries
<1> QED
  BY <1>1, <1>2, <1>3, <1>4 DEF FreshNow

LEMMA NothingYet == CallOk(NoCall)
<1>1. /\ DOMAIN NoCall = Fields /\ NoCall.status = 0 /\ NoCall.stage = "idle"
      /\ NoCall.kind = "none" /\ NoCall.offered = {} /\ NoCall.used = {}
      /\ NoCall.pieces = <<>> /\ NoCall.photos = <<>>
  BY DEF NoCall, Fields
<1> QED
  BY <1>1, EmptyFacts DEF CallOk, Statused

LEMMA CallBegins ==
  ASSUME NEW u, NEW r
  PROVE  LET x == NewCall(u, r) IN
         CallOk(x) /\ x.kind = r.kind /\ x.ask = r.ask /\ x.used = {} /\ x.offered = {}
<1> DEFINE x == NewCall(u, r)
<1>1. /\ DOMAIN x = Fields /\ x.status = 0 /\ x.stage = "idle"
      /\ x.kind = r.kind /\ x.ask = r.ask /\ x.offered = {} /\ x.used = {}
      /\ x.pieces = <<>> /\ x.photos = <<>>
  BY DEF NewCall, NoCall, Fields
<1> HIDE DEF x
<1>2. CallOk(x)
  BY <1>1, EmptyFacts DEF CallOk, Statused
<1> QED
  BY <1>1, <1>2 DEF x

LEMMA FailureStatuses ==
  /\ AuthFailures \subseteq Statused
  /\ \A stage : Failures(stage) \subseteq Statused
BY DEF AuthFailures, Failures, ModelFailures, ImageFailures, CatalogueFailures, AuthStatus,
       CatalogueStatus, ModelStatus, ImageStatus, ReadStatus, Statused

\* The kinds whose answer is kept among the parses.
Parsed == {"search", "room_plan", "furnishing", "service"}

\* A parse that is found answers the sentence, and the services, of the call.
LEMMA ParseFits ==
  ASSUME CInv, now \in Nat, NEW x, x.kind \in Parsed, x.kind # "service" => x.offered = {},
         NEW key,
         key = IF x.kind = "service" THEN ServiceKey(x.offered, x.ask) ELSE ParseKey(x.kind, x.ask),
         NEW v \in Cached(parses, key, x.kind)
  PROVE  FreshNow(v.made) /\ FitsCall(x, v)
<1>1. PICK e \in Range(parses) : e.key = key /\ v = e.value /\ v.sort = x.kind /\ FreshNow(v.made)
  BY Found DEF CInv, ParsesGood
<1>2. SoundParse(e)
  BY DEF CInv, ParsesGood
<1>3. CASE x.kind = "service"
  BY <1>1, <1>2, <1>3 DEF SoundParse, ServiceKey, FitsCall
<1>4. CASE x.kind # "service"
  BY <1>1, <1>2, <1>4 DEF SoundParse, ParseKey, FitsCall, Parsed
<1> QED
  BY <1>1, <1>3, <1>4

\* Whatever the cache says, the call goes on as it should.
LEMMA ReadParseKeeps ==
  ASSUME CInv, now \in Nat, NEW c \in Calls, NEW x, CallOk(x), x.used = {}, x.kind \in Parsed,
         NEW key,
         key = IF x.kind = "service" THEN ServiceKey(x.offered, x.ask) ELSE ParseKey(x.kind, x.ask),
         ReadParse(c, x, key, x.kind), now' = now, config' = config
  PROVE  ParsesGood' /\ CallsGood'
<1>1. ParsesGood'
  BY ParsesRead DEF ReadParse
<1>2. CASE \E v \in Cached(parses, key, x.kind) : Set(c, AfterParse(Using(x, v)))
  <2>1. PICK v \in Cached(parses, key, x.kind) : Set(c, AfterParse(Using(x, v)))
    BY <1>2
  <2>2. FreshNow(v.made) /\ FitsCall(x, v)
    BY ParseFits DEF CallOk
  <2>3. CallOk(AfterParse(Using(x, v)))
    BY <2>2, UsedOk
  <2> QED
    BY <1>1, <2>1, <2>3, CallSet
<1>3. CASE Set(c, Replied(x, 422))
  BY <1>1, <1>3, CallSet, RepliedOk DEF Statused
<1>4. CASE Set(c, [x EXCEPT !.stage = "model"])
  <2> DEFINE y == [x EXCEPT !.stage = "model"]
  <2>1. /\ DOMAIN y = Fields /\ y.status = x.status /\ y.stage = "model" /\ y.used = {}
        /\ y.kind = x.kind /\ y.offered = x.offered /\ y.user = x.user /\ y.ask = x.ask
        /\ y.pieces = x.pieces /\ y.photos = x.photos
    BY DEF CallOk, Fields
  <2> HIDE DEF y
  <2>2. CallOk(y)
    BY <2>1 DEF CallOk, Parsed
  <2> QED
    BY <1>1, <1>4, <2>2, CallSet DEF y
<1> QED
  BY <1>1, <1>2, <1>3, <1>4 DEF ReadParse
-----------------------------------------------------------------------------
(* One lemma for the steps of each stage.                                  *)

\* The customers' requests: refused, or on their way.
LEMMA RefusalKeeps ==
  ASSUME CInv, NEW c \in Calls, NEW u, NEW r,
         RefuseToken(c, u, r) \/ NoProvider(c, u, r) \/ OverLimit(c, u, r)
  PROVE  CInv'
<1>1. parses' = parses /\ images' = images /\ now' = now /\ config' = config
  BY DEF RefuseToken, NoProvider, OverLimit, Refuse, limiterVars, world
<1>2. PICK status \in Statused : Set(c, Replied(NewCall(u, r), status))
  BY FailureStatuses DEF RefuseToken, NoProvider, OverLimit, Statused
<1>3. CallOk(Replied(NewCall(u, r), status))
  BY CallBegins, RepliedOk
<1> QED
  BY <1>1, <1>2, <1>3, CachesStay, CallSet DEF CInv

LEMMA EntryKeeps ==
  ASSUME CInv, now \in Nat, NEW c \in Calls, NEW u, NEW r,
         EnterWithSentence(c, u, r) \/ EnterService(c, u, r) \/ EnterImage(c, u, r)
  PROVE  CInv'
<1> DEFINE x == NewCall(u, r)
<1>0. images' = images /\ now' = now /\ config' = config
  BY DEF EnterWithSentence, EnterService, EnterImage, Admit, world
<1>1. CallOk(x) /\ x.kind = r.kind /\ x.ask = r.ask /\ x.used = {} /\ x.offered = {}
  BY CallBegins
<1>2. CASE EnterWithSentence(c, u, r)
  <2>1. ReadParse(c, x, ParseKey(x.kind, x.ask), x.kind) /\ x.kind \in Parsed /\ x.kind # "service"
    BY <1>1, <1>2 DEF EnterWithSentence, Parsed
  <2> HIDE DEF x
  <2>2. ParsesGood' /\ CallsGood'
    BY <1>0, <1>1, <2>1, ReadParseKeeps
  <2> QED
    BY <1>0, <2>2, CachesStay DEF CInv
<1>3. CASE EnterService(c, u, r)
  <2> DEFINE y == [x EXCEPT !.stage = "directory"]
  <2>1. Set(c, y) /\ x.kind = "service" /\ parses' = parses
    BY <1>1, <1>3 DEF EnterService
  <2> HIDE DEF x
  <2>2. /\ DOMAIN y = Fields /\ y.status = x.status /\ y.stage = "directory" /\ y.used = {}
        /\ y.kind = x.kind /\ y.offered = x.offered /\ y.pieces = x.pieces /\ y.photos = x.photos
    BY <1>1 DEF CallOk, Fields
  <2> HIDE DEF y
  <2>3. CallOk(y)
    BY <1>1, <2>1, <2>2 DEF CallOk
  <2> QED
    BY <1>0, <2>1, <2>3, CachesStay, CallSet DEF CInv
<1>4. CASE EnterImage(c, u, r)
  <2> DEFINE y == [x EXCEPT !.stage = "product", !.todo = Merged(r.ask)]
  <2>1. Set(c, y) /\ parses' = parses
    BY <1>4 DEF EnterImage
  <2> HIDE DEF x
  <2>2. /\ DOMAIN y = Fields /\ y.status = x.status /\ y.stage = "product" /\ y.used = {}
        /\ y.kind = x.kind /\ y.offered = x.offered /\ y.pieces = x.pieces /\ y.photos = x.photos
    BY <1>1 DEF CallOk, Fields
  <2> HIDE DEF y
  <2>3. CallOk(y)
    BY <1>1, <2>2 DEF CallOk
  <2> QED
    BY <1>0, <2>1, <2>3, CachesStay, CallSet DEF CInv
<1> QED
  BY <1>2, <1>3, <1>4

LEMMA DirectoryKeeps ==
  ASSUME CInv, now \in Nat, NEW c \in Calls, DirectoryAnswers(c)
  PROVE  CInv'
<1>0. images' = images /\ now' = now /\ config' = config
  BY DEF DirectoryAnswers, limiterVars, world
<1>1. CallOk(calls[c]) /\ calls[c].kind = "service" /\ calls[c].used = {} /\ calls[c].stage = "directory"
  BY DEF CInv, CallsGood, CallOk, DirectoryAnswers, At
<1>2. CASE Reply(c, 503) /\ UNCHANGED parses
  <2>1. CallOk(Replied(calls[c], 503))
    BY <1>1, RepliedOk DEF Statused
  <2> QED
    BY <1>0, <1>2, <2>1, CachesStay, CallSet DEF CInv, Reply
<1>3. ASSUME NEW offered,
             ReadParse(c, [calls[c] EXCEPT !.offered = offered],
                       ServiceKey(offered, calls[c].ask), "service")
      PROVE  CInv'
  <2> DEFINE x == calls[c]
             y == [x EXCEPT !.offered = offered]
  <2> HIDE DEF x
  <2>1. CallOk(x) /\ x.kind = "service" /\ x.used = {} /\ x.stage = "directory"
    BY <1>1 DEF x
  <2>2. /\ DOMAIN y = Fields /\ y.status = x.status /\ y.stage = "directory" /\ y.used = {}
        /\ y.kind = "service" /\ y.offered = offered /\ y.ask = x.ask
        /\ y.pieces = x.pieces /\ y.photos = x.photos
    BY <2>1 DEF CallOk, Fields
  <2>3. ReadParse(c, y, ServiceKey(y.offered, y.ask), y.kind)
    BY <1>3, <2>2 DEF x
  <2> HIDE DEF y
  <2>4. CallOk(y)
    BY <2>1, <2>2 DEF CallOk
  <2>5. ParsesGood' /\ CallsGood'
    BY <1>0, <2>2, <2>3, <2>4, ReadParseKeeps DEF Parsed
  <2> QED
    BY <1>0, <2>5, CachesStay DEF CInv
<1> QED
  BY <1>2, <1>3 DEF DirectoryAnswers

LEMMA ModelKeeps ==
  ASSUME CInv, now \in Nat, NEW c \in Calls, ModelAnswers(c)
  PROVE  CInv'
<1> DEFINE x == calls[c]
           value == [sort |-> x.kind, ask |-> x.ask, offered |-> x.offered, made |-> now]
           key == IF x.kind = "service" THEN ServiceKey(x.offered, x.ask)
                  ELSE ParseKey(x.kind, x.ask)
<1>0. images' = images /\ now' = now /\ config' = config
  BY DEF ModelAnswers, limiterVars, world
<1>1. /\ parses' = CachePut(parses, key, value, MAX_PARSES)
      /\ Set(c, AfterParse(Using(x, value)))
      /\ x.stage = "model"
  BY DEF ModelAnswers, At
<1> HIDE DEF x
<1>2. CallOk(x) /\ x.kind \in Parsed /\ (x.kind # "service" => x.offered = {})
  <2>1. CallOk(x)
    BY DEF CInv, CallsGood, x
  <2> QED
    BY <1>1, <2>1 DEF CallOk, Parsed
<1>3. SoundParse([key |-> key, at |-> now, value |-> value])
  BY <1>2 DEF SoundParse, Parsed
<1>4. FreshNow(value.made) /\ FitsCall(x, value)
  BY DEF FreshNow, FitsCall
<1>5. value.made = now
  OBVIOUS
<1> HIDE DEF value, key
<1>6. CallsGood'
  BY <1>0, <1>1, <1>2, <1>4, UsedOk, CallSet
<1>7. ParsesGood'
  BY <1>0, <1>1, <1>3, <1>5, ParsesWritten
<1> QED
  BY <1>0, <1>6, <1>7, CachesStay DEF CInv

LEMMA FailureKeeps ==
  ASSUME CInv, NEW c \in Calls, UpstreamFails(c) \/ ProductHidden(c)
  PROVE  CInv'
<1>0. parses' = parses /\ images' = images /\ now' = now /\ config' = config
  BY DEF UpstreamFails, ProductHidden, limiterVars, world
<1>1. PICK status \in Statused : Set(c, Replied(calls[c], status))
  BY FailureStatuses DEF UpstreamFails, ProductHidden, Reply, Statused
<1>2. CallOk(Replied(calls[c], status))
  BY RepliedOk DEF CInv, CallsGood
<1> QED
  BY <1>0, <1>1, <1>2, CachesStay, CallSet DEF CInv

\* The taste profile: found, kept, or still to be made.
LEMMA TasteKeeps ==
  ASSUME CInv, now \in Nat, NEW c \in Calls, KeepTaste(c), now' = now, config' = config
  PROVE  ParsesGood' /\ CallsGood'
<1> DEFINE x == calls[c]
           value == [sort |-> "taste", user |-> x.user, made |-> now]
<1>1. /\ parses' = CachePut(parses, TasteKey(x.user), value, MAX_PARSES)
      /\ Set(c, Replied(Using(x, value), 200))
  BY DEF KeepTaste
<1>2. CallOk(x)
  BY DEF CInv, CallsGood
<1> HIDE DEF x
<1>3. SoundParse([key |-> TasteKey(x.user), at |-> now, value |-> value]) /\ value.made = now
  BY DEF SoundParse
<1>4. FreshNow(value.made) /\ FitsCall(x, value)
  BY DEF FreshNow, FitsCall
<1> HIDE DEF value
<1>5. CallsGood'
  BY <1>1, <1>2, <1>4, UsedOk, CallSet
<1>6. ParsesGood'
  BY <1>1, <1>3, ParsesWritten
<1> QED
  BY <1>5, <1>6

\* A call with its products goes on to another stage of the same kind.
LEMMA Moves ==
  ASSUME NEW x, CallOk(x), NEW stage \in {"history", "lookup"}
  PROVE  CallOk([x EXCEPT !.stage = stage])
<1> DEFINE y == [x EXCEPT !.stage = stage]
<1>1. /\ DOMAIN y = Fields /\ y.status = x.status /\ y.stage = stage /\ y.used = x.used
      /\ y.kind = x.kind /\ y.offered = x.offered /\ y.user = x.user /\ y.ask = x.ask
      /\ y.pieces = x.pieces /\ y.photos = x.photos
  BY DEF CallOk, Fields
<1> HIDE DEF y
<1>2. CallOk(y)
  BY <1>1 DEF CallOk, FitsCall
<1> QED
  BY <1>2 DEF y

LEMMA CatalogueKeeps ==
  ASSUME CInv, now \in Nat, NEW c \in Calls, CatalogueAnswers(c)
  PROVE  CInv'
<1> DEFINE x == calls[c]
           key == TasteKey(x.user)
<1>0. images' = images /\ now' = now /\ config' = config
  BY DEF CatalogueAnswers, limiterVars, world
<1>1. CallOk(x)
  BY DEF CInv, CallsGood
<1>2. CASE x.kind = "room_plan"
  <2>1. parses' = parses /\ Set(c, Replied(x, 200))
    BY <1>2 DEF CatalogueAnswers, Reply
  <2>2. CallOk(Replied(x, 200))
    BY <1>1, RepliedOk DEF Statused
  <2> QED
    BY <1>0, <2>1, <2>2, CachesStay, CallSet DEF CInv
<1>3. CASE x.kind # "room_plan"
  <2>1. /\ parses' = IF Caching THEN CacheGet(parses, key) ELSE parses
        /\ \/ \E v \in Cached(parses, key, "taste") : Set(c, Replied(Using(x, v), 200))
           \/ Set(c, [x EXCEPT !.stage = "history"])
    BY <1>3 DEF CatalogueAnswers
  <2> HIDE DEF x
  <2>2. ParsesGood'
    BY <1>0, <2>1, ParsesRead
  <2>3. ASSUME NEW v \in Cached(parses, key, "taste"), Set(c, Replied(Using(x, v), 200))
        PROVE  CallsGood'
    <3>1. PICK e \in Range(parses) : e.key = key /\ v = e.value /\ v.sort = "taste" /\ FreshNow(v.made)
      BY Found DEF CInv, ParsesGood
    <3>2. SoundParse(e)
      BY DEF CInv, ParsesGood
    <3>3. FitsCall(x, v)
      BY <3>1, <3>2 DEF SoundParse, TasteKey, FitsCall
    <3> QED
      BY <1>0, <1>1, <2>3, <3>1, <3>3, UsedOk, CallSet
  <2>4. CASE Set(c, [x EXCEPT !.stage = "history"])
    BY <1>0, <1>1, <2>2, <2>4, Moves, CallSet, CachesStay DEF CInv
  <2> QED
    BY <1>0, <2>1, <2>2, <2>3, <2>4, CachesStay DEF CInv
<1> QED
  BY <1>2, <1>3

LEMMA HistoryKeeps ==
  ASSUME CInv, now \in Nat, NEW c \in Calls, HistoryAnswers(c) \/ PurchasesAnswer(c)
  PROVE  CInv'
<1>0. images' = images /\ now' = now /\ config' = config
  BY DEF HistoryAnswers, PurchasesAnswer, limiterVars, world
<1>1. CASE KeepTaste(c)
  BY <1>0, <1>1, TasteKeeps, CachesStay DEF CInv
<1>2. CASE Set(c, [calls[c] EXCEPT !.stage = "lookup"]) /\ UNCHANGED parses
  <2>1. CallOk([calls[c] EXCEPT !.stage = "lookup"])
    BY Moves DEF CInv, CallsGood
  <2> QED
    BY <1>0, <1>2, <2>1, CallSet, CachesStay DEF CInv
<1> QED
  BY <1>1, <1>2 DEF HistoryAnswers, PurchasesAnswer

LEMMA ImageKeeps ==
  ASSUME CInv, now \in Nat, NEW c \in Calls, ImageAnswers(c)
  PROVE  CInv'
<1> DEFINE x == calls[c]
           value == [sort |-> "room_image", pieces |-> x.pieces, photos |-> x.photos, made |-> now]
           key == ImageKey(x.pieces, x.photos)
<1>0. parses' = parses /\ now' = now /\ config' = config
  BY DEF ImageAnswers, limiterVars, world
<1>1. /\ images' = CachePut(images, key, value, MAX_IMAGES)
      /\ Set(c, Replied(Using(x, value), 200))
  BY DEF ImageAnswers
<1>2. CallOk(x)
  BY DEF CInv, CallsGood
<1> HIDE DEF x
<1>3. SoundImage([key |-> key, at |-> now, value |-> value]) /\ value.made = now
  BY DEF SoundImage
<1>4. FreshNow(value.made) /\ FitsCall(x, value)
  BY DEF FreshNow, FitsCall
<1> HIDE DEF value, key
<1>5. CallsGood'
  BY <1>0, <1>1, <1>2, <1>4, UsedOk, CallSet
<1>6. ImagesGood'
  BY <1>0, <1>1, <1>3, ImagesWritten
<1> QED
  BY <1>0, <1>5, <1>6, CachesStay DEF CInv

\* The pieces with a photo of their own, by their places.
Numbered(pieces) == {i \in 1 .. Len(pieces) : pieces[i].photo # 0}

LEMMA NumberedIsFinite ==
  ASSUME NEW pieces, IsSeq(pieces)
  PROVE  IsFiniteSet(Numbered(pieces))
<1>1. Len(pieces) \in Nat
  BY SeqFacts DEF IsSeq
<1>2. IsFiniteSet(1 .. Len(pieces))
  BY <1>1, FS_Interval
<1> QED
  BY <1>2, FS_Subset DEF Numbered

\* A piece whose photo was skipped changes nothing for the others.
LEMMA PieceSkipped ==
  ASSUME NEW pieces, NEW photos, IsSeq(pieces), IsSeq(photos), Matched(pieces, photos),
         NEW piece, piece.photo = 0
  PROVE  Matched(Append(pieces, piece), photos)
<1> DEFINE more == Append(pieces, piece)
<1>1. /\ Len(more) = Len(pieces) + 1 /\ Len(pieces) \in Nat
      /\ \A i \in 1 .. Len(pieces) : more[i] = pieces[i]
      /\ more[Len(pieces) + 1] = piece
  BY AppendFacts, SeqFacts DEF IsSeq
<1> HIDE DEF more
<1>2. Numbered(more) = Numbered(pieces)
  BY <1>1 DEF Numbered
<1>3. \A i \in Numbered(pieces) : more[i] = pieces[i]
  BY <1>1 DEF Numbered
<1>4. {more[i].photo : i \in Numbered(more)} = {pieces[i].photo : i \in Numbered(pieces)}
  BY <1>2, <1>3
<1>5. /\ {pieces[i].photo : i \in Numbered(pieces)} = 1 .. Len(photos)
      /\ Cardinality(Numbered(pieces)) = Len(photos)
      /\ \A i \in Numbered(pieces) : photos[pieces[i].photo]
           = Photo(pieces[i].product, pieces[i].version, pieces[i].colour)
  BY DEF Matched, Numbered
<1>6. /\ {more[i].photo : i \in Numbered(more)} = 1 .. Len(photos)
      /\ Cardinality(Numbered(more)) = Len(photos)
      /\ \A i \in Numbered(more) : photos[more[i].photo]
           = Photo(more[i].product, more[i].version, more[i].colour)
  BY <1>2, <1>3, <1>4, <1>5
<1>7. Matched(more, photos)
  BY <1>6 DEF Matched, Numbered
<1> QED
  BY <1>7 DEF more

\* A fetched photo is the last one, and so is the number of its piece.
LEMMA PieceShown ==
  ASSUME NEW pieces, NEW photos, IsSeq(pieces), IsSeq(photos), Matched(pieces, photos),
         NEW piece, piece.photo = Len(photos) + 1,
         NEW photo, photo = Photo(piece.product, piece.version, piece.colour)
  PROVE  Matched(Append(pieces, piece), Append(photos, photo))
<1> DEFINE more == Append(pieces, piece)
           shown == Append(photos, photo)
           last == Len(pieces) + 1
<1>1. /\ Len(more) = last /\ Len(pieces) \in Nat
      /\ \A i \in 1 .. Len(pieces) : more[i] = pieces[i]
      /\ more[last] = piece
  BY AppendFacts, SeqFacts DEF IsSeq
<1>2. /\ Len(shown) = Len(photos) + 1 /\ Len(photos) \in Nat
      /\ \A i \in 1 .. Len(photos) : shown[i] = photos[i]
      /\ shown[Len(photos) + 1] = photo
  BY AppendFacts, SeqFacts DEF IsSeq
<1> HIDE DEF more, shown
<1>3. Numbered(more) = Numbered(pieces) \cup {last} /\ last \notin Numbered(pieces)
  BY <1>1, <1>2 DEF Numbered
<1>4. \A i \in Numbered(pieces) : more[i] = pieces[i]
  BY <1>1 DEF Numbered
<1> HIDE DEF last
<1>5. /\ {pieces[i].photo : i \in Numbered(pieces)} = 1 .. Len(photos)
      /\ Cardinality(Numbered(pieces)) = Len(photos)
      /\ \A i \in Numbered(pieces) : photos[pieces[i].photo]
           = Photo(pieces[i].product, pieces[i].version, pieces[i].colour)
  BY DEF Matched, Numbered
<1>6. Cardinality(Numbered(more)) = Len(shown)
  BY <1>2, <1>3, <1>5, NumberedIsFinite, FS_AddElement
<1>7. {more[i].photo : i \in Numbered(more)} = 1 .. Len(shown)
  <2>1. {more[i].photo : i \in Numbered(more)}
          = {pieces[i].photo : i \in Numbered(pieces)} \cup {Len(photos) + 1}
    BY <1>1, <1>3, <1>4
  <2>2. 1 .. Len(shown) = (1 .. Len(photos)) \cup {Len(photos) + 1}
    BY <1>2
  <2> QED
    BY <1>5, <2>1, <2>2
<1>8. ASSUME NEW i \in Numbered(more)
      PROVE  shown[more[i].photo] = Photo(more[i].product, more[i].version, more[i].colour)
  <2>1. CASE i = last
    BY <1>1, <1>2, <2>1
  <2>2. CASE i \in Numbered(pieces)
    <3>1. pieces[i].photo \in 1 .. Len(photos)
      BY <1>5, <2>2
    <3> QED
      BY <1>2, <1>4, <1>5, <2>2, <3>1
  <2> QED
    BY <1>3, <2>1, <2>2
<1>9. Matched(more, shown)
  BY <1>6, <1>7, <1>8 DEF Matched, Numbered
<1> QED
  BY <1>9 DEF more, shown

\* One more piece, and after the last one the cache of pictures is asked.
LEMMA AddPieceKeeps ==
  ASSUME CInv, now \in Nat, NEW c \in Calls, NEW x, CallOk(x), x.used = {},
         NEW piece, NEW photos, IsSeq(photos), Matched(Append(x.pieces, piece), photos),
         AddPiece(c, x, piece, photos), now' = now, config' = config
  PROVE  ImagesGood' /\ CallsGood'
<1> DEFINE next == [x EXCEPT !.stage = "product", !.todo = Tail(@),
                             !.pieces = Append(@, piece), !.photos = photos]
           key == ImageKey(next.pieces, photos)
<1>1. \/ Set(c, next) /\ images' = images
      \/ /\ images' = IF Caching THEN CacheGet(images, key) ELSE images
         /\ \/ \E v \in Cached(images, key, "room_image") : Set(c, Replied(Using(next, v), 200))
            \/ Set(c, [next EXCEPT !.stage = "image"])
  BY DEF AddPiece
<1>2. /\ DOMAIN next = Fields /\ next.status = x.status /\ next.stage = "product" /\ next.used = {}
      /\ next.kind = x.kind /\ next.offered = x.offered
      /\ next.pieces = Append(x.pieces, piece) /\ next.photos = photos
  BY DEF CallOk, Fields
<1> HIDE DEF next
<1>3. IsSeq(next.pieces)
  BY <1>2, AppendFacts DEF CallOk
<1>4. CallOk(next)
  BY <1>2, <1>3 DEF CallOk
<1>5. CASE Set(c, next) /\ images' = images
  BY <1>4, <1>5, CallSet, CachesStay
<1>6. ASSUME images' = IF Caching THEN CacheGet(images, key) ELSE images,
             NEW v \in Cached(images, key, "room_image"), Set(c, Replied(Using(next, v), 200))
      PROVE  ImagesGood' /\ CallsGood'
  <2>1. PICK e \in Range(images) : /\ e.key = key /\ v = e.value /\ v.sort = "room_image"
                                   /\ FreshNow(v.made)
    BY Found DEF CInv, ImagesGood
  <2>2. SoundImage(e)
    BY DEF CInv, ImagesGood
  <2>3. FitsCall(next, v)
    BY <1>2, <2>1, <2>2 DEF SoundImage, ImageKey, FitsCall
  <2> QED
    BY <1>4, <1>6, <2>1, <2>3, UsedOk, CallSet, ImagesRead
<1>7. ASSUME images' = IF Caching THEN CacheGet(images, key) ELSE images,
             Set(c, [next EXCEPT !.stage = "image"])
      PROVE  ImagesGood' /\ CallsGood'
  <2> DEFINE y == [next EXCEPT !.stage = "image"]
  <2>1. /\ DOMAIN y = Fields /\ y.status = next.status /\ y.stage = "image" /\ y.used = {}
        /\ y.kind = next.kind /\ y.offered = next.offered
        /\ y.pieces = next.pieces /\ y.photos = next.photos
    BY <1>2 DEF Fields
  <2> HIDE DEF y
  <2>2. CallOk(y)
    BY <1>4, <2>1 DEF CallOk
  <2> QED
    BY <1>7, <2>2, CallSet, ImagesRead DEF y
<1> QED
  BY <1>1, <1>5, <1>6, <1>7

\* The product's row is seen: its photo is awaited, or it is a piece without.
LEMMA ProductKeeps ==
  ASSUME CInv, now \in Nat, NEW c \in Calls, ProductSeen(c)
  PROVE  CInv'
<1> DEFINE x == calls[c]
           seen == [x EXCEPT !.version = look[Head(x.todo).product]]
           y == [seen EXCEPT !.stage = "photo"]
           piece == PieceOf(seen, 0)
<1>1. /\ parses' = parses /\ now' = now /\ config' = config /\ x.stage = "product"
      /\ \/ Set(c, y) /\ images' = images
         \/ AddPiece(c, seen, piece, seen.photos)
  BY DEF ProductSeen, limiterVars, world, At
<1>2. CallOk(x)
  BY DEF CInv, CallsGood
<1>3. piece.photo = 0
  BY DEF PieceOf
<1> HIDE DEF x, piece
<1>4. /\ DOMAIN seen = Fields /\ seen.status = x.status /\ seen.stage = x.stage /\ seen.used = x.used
      /\ seen.kind = x.kind /\ seen.offered = x.offered /\ seen.pieces = x.pieces /\ seen.photos = x.photos
  BY <1>2 DEF CallOk, Fields
<1> HIDE DEF seen
<1>5. CallOk(seen) /\ seen.used = {} /\ IsSeq(seen.pieces) /\ IsSeq(seen.photos)
      /\ Matched(seen.pieces, seen.photos)
  BY <1>1, <1>2, <1>4 DEF CallOk
<1>6. CASE Set(c, y) /\ images' = images
  <2>1. /\ DOMAIN y = Fields /\ y.status = seen.status /\ y.stage = "photo" /\ y.used = seen.used
        /\ y.kind = seen.kind /\ y.offered = seen.offered /\ y.pieces = seen.pieces
        /\ y.photos = seen.photos
    BY <1>4 DEF Fields
  <2> HIDE DEF y
  <2>2. CallOk(y)
    BY <1>1, <1>4, <1>5, <2>1 DEF CallOk
  <2> QED
    BY <1>1, <1>6, <2>2, CallSet, CachesStay DEF CInv
<1>7. CASE AddPiece(c, seen, piece, seen.photos)
  <2>1. Matched(Append(seen.pieces, piece), seen.photos)
    BY <1>3, <1>5, PieceSkipped
  <2>2. ImagesGood' /\ CallsGood'
    BY <1>1, <1>5, <1>7, <2>1, AddPieceKeeps
  <2> QED
    BY <1>1, <2>2, CachesStay DEF CInv
<1> QED
  BY <1>1, <1>6, <1>7

LEMMA PhotoKeeps ==
  ASSUME CInv, now \in Nat, NEW c \in Calls, PhotoAnswers(c)
  PROVE  CInv'
<1> DEFINE x == calls[c]
           item == Head(x.todo)
           photo == Photo(item.product, x.version, ColourOf(item))
           photos == Append(x.photos, photo)
<1>0. /\ parses' = parses /\ now' = now /\ config' = config /\ x.stage = "photo"
      /\ \/ AddPiece(c, x, PieceOf(x, Len(photos)), photos)
         \/ AddPiece(c, x, PieceOf(x, 0), x.photos)
  BY DEF PhotoAnswers, limiterVars, world, At
<1>1. CallOk(x)
  BY DEF CInv, CallsGood
<1> HIDE DEF x
<1>2. IsSeq(x.pieces) /\ IsSeq(x.photos) /\ Matched(x.pieces, x.photos) /\ x.used = {}
  BY <1>0, <1>1 DEF CallOk
<1>3. CASE AddPiece(c, x, PieceOf(x, Len(photos)), photos)
  <2> DEFINE piece == PieceOf(x, Len(photos))
  <2>1. IsSeq(photos) /\ Len(photos) = Len(x.photos) + 1
    BY <1>2, AppendFacts
  <2>2. piece.photo = Len(photos) /\ photo = Photo(piece.product, piece.version, piece.colour)
    BY DEF PieceOf
  <2> HIDE DEF piece, photo
  <2>3. Matched(Append(x.pieces, piece), photos)
    BY <1>2, <2>1, <2>2, PieceShown
  <2>4. AddPiece(c, x, piece, photos)
    BY <1>3 DEF piece
  <2> HIDE DEF photos
  <2>5. ImagesGood' /\ CallsGood'
    BY <1>0, <1>1, <1>2, <2>1, <2>3, <2>4, AddPieceKeeps
  <2> QED
    BY <1>0, <2>5, CachesStay DEF CInv
<1>4. CASE AddPiece(c, x, PieceOf(x, 0), x.photos)
  <2> DEFINE piece == PieceOf(x, 0)
  <2>1. piece.photo = 0
    BY DEF PieceOf
  <2> HIDE DEF piece
  <2>2. Matched(Append(x.pieces, piece), x.photos)
    BY <1>2, <2>1, PieceSkipped
  <2>3. AddPiece(c, x, piece, x.photos)
    BY <1>4 DEF piece
  <2>4. ImagesGood' /\ CallsGood'
    BY <1>0, <1>1, <1>2, <2>2, <2>3, AddPieceKeeps
  <2> QED
    BY <1>0, <2>4, CachesStay DEF CInv
<1> QED
  BY <1>0, <1>3, <1>4

\* Time passes, and what the calls will read is edited.
LEMMA OutsideKeeps ==
  ASSUME CInv, now \in Nat, Outside
  PROVE  CInv'
<1>1. /\ parses' = parses /\ images' = images /\ calls' = calls /\ config' = config
      /\ now' \in Nat /\ now <= now'
  <2>1. CASE Passes
    BY <2>1 DEF Passes, Tick, world
  <2>2. CASE Edit
    BY <2>2 DEF Edit, limiterVars
  <2> QED
    BY <2>1, <2>2 DEF Outside, ShowOrHide, ChangeLook, ListOrDelist
<1>2. ParsesGood'
  BY <1>1 DEF CInv, ParsesGood, CacheOk, Caching, SoundParse
<1>3. ImagesGood'
  BY <1>1 DEF CInv, ImagesGood, CacheOk, Caching, SoundImage
<1>4. CallsGood'
  BY <1>1, CallsStay DEF CInv
<1> QED
  BY <1>2, <1>3, <1>4 DEF CInv

LEMMA InitCInv == Init => CInv
<1> SUFFICES ASSUME Init PROVE CInv
  OBVIOUS
<1>1. parses = <<>> /\ images = <<>> /\ Len(<<>>) = 0
  BY EmptySeq DEF Init
<1>2. ParsesGood /\ ImagesGood
  BY <1>1, EmptyFacts, CachesHoldSomething DEF ParsesGood, ImagesGood, CacheOk
<1>3. CallsGood
  BY NothingYet DEF Init, CallsGood
<1> QED
  BY <1>2, <1>3 DEF CInv

LEMMA StepCInv == LInv /\ CInv /\ [Next]_vars => CInv'
<1> SUFFICES ASSUME LInv, CInv, [Next]_vars PROVE CInv'
  OBVIOUS
<1>0. now \in Nat
  BY DEF LInv, LimiterTypeOK
<1>1. ASSUME NEW c \in Calls, Leave(c) PROVE CInv'
  <2>1. Set(c, NoCall) /\ parses' = parses /\ images' = images /\ now' = now /\ config' = config
    BY <1>1 DEF Leave, limiterVars, world
  <2> QED
    BY <2>1, NothingYet, CallSet, CachesStay DEF CInv
<1>2. ASSUME NEW c \in Calls, NEW u \in Users, NEW r \in Requests, Request(c, u, r) PROVE CInv'
  BY <1>0, <1>2, RefusalKeeps, EntryKeeps DEF Request
<1>3. ASSUME NEW c \in Calls, Handler(c) PROVE CInv'
  BY <1>0, <1>3, DirectoryKeeps, ModelKeeps, FailureKeeps, CatalogueKeeps, HistoryKeeps,
     ProductKeeps, PhotoKeeps, ImageKeeps DEF Handler
<1>4. CASE Outside
  BY <1>0, <1>4, OutsideKeeps
<1>5. CASE UNCHANGED vars
  <2>1. /\ parses' = parses /\ images' = images /\ calls' = calls /\ config' = config /\ now' = now
    BY <1>5 DEF vars, limiterVars, world
  <2>2. CallsGood'
    BY <2>1, CallsStay DEF CInv
  <2> QED
    BY <2>1, <2>2, CachesStay DEF CInv
<1> QED
  BY <1>1, <1>2, <1>3, <1>4, <1>5 DEF Next
-----------------------------------------------------------------------------
\* The inductive invariant of the caches and the calls, on top of the
\* limiter's: entries are kept under what they were made from, and what a
\* call has used was fresh and fits it.
THEOREM CallInvariance == Spec => [](LInv /\ CInv)
<1>1. Spec => []LInv
  BY CallsImplementLimiter, LimiterInvariance, PTL
<1> QED
  BY <1>1, InitCInv, StepCInv, PTL DEF Spec

\* The limiter's table and both caches stay well formed: a key is held once,
\* and no cache outgrows its size.
THEOREM CallTypes == Spec => []TypeOK
<1>1. LInv /\ CInv => TypeOK
  <2> SUFFICES ASSUME LInv, CInv PROVE TypeOK
    OBVIOUS
  <2>1. ASSUME NEW cache, NEW max, CacheOk(cache, max) PROVE WellFormed(cache, max)
    <3>1. \A i \in 1 .. Len(cache) : cache[i] \in Range(cache)
      BY <2>1, SeqFacts DEF CacheOk, IsSeq
    <3> QED
      BY <2>1, <3>1 DEF CacheOk, WellFormed, Distinct
  <2>2. WellFormed(parses, MAX_PARSES) /\ WellFormed(images, MAX_IMAGES)
    BY <2>1 DEF CInv, ParsesGood, ImagesGood
  <2>3. ~Caching => parses = <<>> /\ images = <<>>
    BY DEF CInv, ParsesGood, ImagesGood, CacheOk
  <2>4. \A c \in Calls : calls[c].status \in {0, 200, 401, 404, 422, 429, 502, 503}
    BY DEF CInv, CallsGood, CallOk, Statused
  <2> QED
    BY <2>2, <2>3, <2>4 DEF LInv, TypeOK
<1> QED
  BY <1>1, CallInvariance, PTL

\* No reply rests on an answer or a profile that was a whole time to live old
\* when it was used.
THEOREM AnswersAreFresh == Spec => []FreshAnswers
<1>1. CInv => FreshAnswers
  BY DEF CInv, CallsGood, CallOk, FreshAnswers
<1> QED
  BY <1>1, CallInvariance, PTL

\* A reply rests on what its own call asked and read, whoever filled the cache.
THEOREM AnswersFit == Spec => []AnswersFitTheCall
<1>1. CInv => AnswersFitTheCall
  BY DEF CInv, CallsGood, CallOk, FitsCall, AnswersFitTheCall
<1> QED
  BY <1>1, CallInvariance, PTL

\* A piece is described with the number of its own photo, whichever photos
\* could not be fetched.
THEOREM PhotosMatch == Spec => []PhotosMatchPieces
<1>1. CInv => PhotosMatchPieces
  BY DEF CInv, CallsGood, CallOk, Matched, PhotosMatchPieces
<1> QED
  BY <1>1, CallInvariance, PTL
=============================================================================
