----------------------- MODULE HistoricDownloadProofs -----------------------
(***************************************************************************)
(* The broker's limit on historic requests is kept for every limit, window *)
(* and sequence of downloads, and the packs of a download fit together,    *)
(* and to the bars the database has, for every market and request size.    *)
(***************************************************************************)
EXTENDS HistoricDownload, SequenceTheorems, FiniteSetTheorems, TLAPS

Remembered == Len(sended_requests)
Forgotten  == Len(log) - Remembered

(* The manager remembers the last of the requests.                         *)
RemembersLast ==
  /\ log \in Seq(Int) /\ Len(log) <= Limit + 1
  /\ sended_requests \in Seq(Int) /\ Remembered <= Len(log)
  /\ \A i \in 1..Remembered : sended_requests[i] = log[Forgotten + i]

(* Requests are past, and what the manager has forgotten is more than a    *)
(* window old.                                                             *)
PastInv ==
  /\ now \in Nat /\ wake \in Nat
  /\ \A i \in 1..Len(log) : log[i] <= now
  /\ \A i \in 1..Forgotten : now - log[i] > Window

(* From the count on fewer than Limit requests are remembered; with one    *)
(* less than Limit the next waits until the first is a window old, and     *)
(* is then old enough to be forgotten by the next count.                   *)
CountInv ==
  /\ at \in {"count", "sleep", "send"} => Remembered < Limit
  /\ at \in {"answer", "idle"} => Remembered <= Limit
  /\ at = "sleep"  /\ Remembered = Limit - 1 => wake - sended_requests[1] >= Window
  /\ at = "send"   /\ Remembered = Limit - 1 => now - sended_requests[1] >= Window
  /\ at = "answer" /\ Remembered = Limit => 0 - sended_requests[1] >= Window
  /\ at = "idle"   /\ Remembered = Limit => now - sended_requests[1] > Window

PacingInv ==
  /\ at \in {"idle", "count", "sleep", "send", "answer"}
  /\ RemembersLast /\ PastInv /\ CountInv /\ WindowLimit

-----------------------------------------------------------------------------
LEMMA Remainder ==
  ASSUME NEW d \in Int
  PROVE  /\ P!seconds(d) \in Int /\ P!seconds(d) >= 0
         /\ 0 <= d /\ d < DayLength => P!seconds(d) = d
BY PacingAssumption DEF P!PacingAssumption, P!seconds

LEMMA LastOfIsSuffix ==
  ASSUME NEW s \in Seq(Int), NEW n \in Nat
  PROVE  /\ P!LastOf(s, n) \in Seq(Int)
         /\ Len(P!LastOf(s, n)) = IF Len(s) <= n THEN Len(s) ELSE n
         /\ \A i \in 1..Len(P!LastOf(s, n)) :
              P!LastOf(s, n)[i] = s[Len(s) - Len(P!LastOf(s, n)) + i]
<1>1. CASE Len(s) <= n
  BY <1>1 DEF P!LastOf
<1>2. CASE Len(s) > n
  <2> DEFINE from == Len(s) - n + 1
  <2>1. \A i \in from..Len(s) : s[i] \in Int
    BY <1>2
  <2>2. /\ SubSeq(s, from, Len(s)) \in Seq(Int)
        /\ Len(SubSeq(s, from, Len(s))) = IF from <= Len(s) THEN Len(s) - from + 1 ELSE 0
        /\ \A i \in 1..Len(s) - from + 1 : SubSeq(s, from, Len(s))[i] = s[from + i - 1]
    <3> HIDE DEF from
    <3> from \in Int
      BY DEF from
    <3> QED
      BY <2>1, SubSeqProperties
  <2>3. P!LastOf(s, n) = SubSeq(s, from, Len(s))
    BY <1>2 DEF P!LastOf
  <2>4. Len(P!LastOf(s, n)) = n
    BY <1>2, <2>2, <2>3
  <2>5. ASSUME NEW i \in 1..n
        PROVE  P!LastOf(s, n)[i] = s[Len(s) - n + i]
    <3>1. from + i - 1 = Len(s) - n + i /\ i \in 1..Len(s) - from + 1
      BY <1>2
    <3> QED
      BY <2>2, <2>3, <3>1
  <2> QED
    BY <1>2, <2>2, <2>3, <2>4, <2>5
<1> QED
  BY <1>1, <1>2

LEMMA NotedAppends ==
  ASSUME NEW s \in Seq(Int), now \in Int
  PROVE  /\ P!noted(s) \in Seq(Int) /\ Len(P!noted(s)) = Len(s) + 1
         /\ \A i \in 1..Len(s) : P!noted(s)[i] = s[i] - now
         /\ P!noted(s)[Len(s) + 1] = 0
BY DEF P!noted

-----------------------------------------------------------------------------
(* One lemma per action of the pacing.                                     *)

LEMMA PacingInit ==
  ASSUME P!Init PROVE PacingInv
BY PacingAssumption
   DEF P!PacingAssumption, P!Init, PacingInv, RemembersLast, PastInv, CountInv, WindowLimit, P!WindowLimit,
       Remembered, Forgotten

LEMMA TickKeeps ==
  ASSUME PacingInv, NEW bound, P!tick(bound) PROVE PacingInv'
<1>1. /\ now' = now + 1 /\ UNCHANGED <<sended_requests, at, wake, log>>
      /\ now \in Nat /\ log \in Seq(Int) /\ sended_requests \in Seq(Int)
      /\ Window \in Nat /\ Limit \in Nat \ {0, 1}
  BY PacingAssumption DEF P!PacingAssumption, P!tick, PacingInv, RemembersLast, PastInv
<1>2. RemembersLast' /\ WindowLimit' /\ Remembered' = Remembered /\ Forgotten' = Forgotten
  BY <1>1 DEF PacingInv, RemembersLast, WindowLimit, P!WindowLimit, P!Gap, Remembered, Forgotten
<1>3. Remembered \in Nat /\ Forgotten \in Nat /\ Forgotten <= Len(log)
  BY <1>1 DEF PacingInv, RemembersLast, Remembered, Forgotten
<1>4. PastInv'
  <2>1. \A i \in 1..Len(log) : log[i] \in Int /\ log[i] <= now
    BY <1>1 DEF PacingInv, PastInv
  <2>2. \A i \in 1..Forgotten : i \in 1..Len(log) /\ now - log[i] > Window
    BY <1>1, <1>3 DEF PacingInv, PastInv
  <2>3. \A i \in 1..Len(log) : log[i] <= now + 1
    BY <1>1, <2>1
  <2>4. now + 1 \in Nat /\ wake \in Nat
    BY <1>1 DEF PacingInv, PastInv
  <2>5. now' = now + 1 /\ wake' = wake /\ log' = log /\ Forgotten' = Forgotten
    BY <1>1, <1>2
  <2>6. \A i \in 1..Len(log') : log'[i] <= now'
    BY <2>3, <2>5
  <2>7. \A i \in 1..Forgotten' : now' - log'[i] > Window
    BY <1>1, <1>3, <2>1, <2>2, <2>5
  <2> QED BY <2>4, <2>5, <2>6, <2>7 DEF PastInv
<1>5. CountInv'
  <2>1. Remembered > 0 => sended_requests[1] \in Int
    BY <1>1, <1>3 DEF Remembered
  <2> DEFINE first == sended_requests[1]
             m == Remembered
  <2>2. /\ m \in Nat /\ (m > 0 => first \in Int) /\ first' = first /\ m' = m
        /\ at \in {"count", "sleep", "send"} => m < Limit
        /\ at \in {"answer", "idle"} => m <= Limit
        /\ at = "sleep"  /\ m = Limit - 1 => wake - first >= Window
        /\ at = "send"   /\ m = Limit - 1 => now - first >= Window
        /\ at = "answer" /\ m = Limit => 0 - first >= Window
        /\ at = "idle"   /\ m = Limit => now - first > Window
    BY <1>1, <1>2, <1>3, <2>1 DEF PacingInv, CountInv
  <2> HIDE DEF first, m
  <2>3. /\ at = "send" /\ m = Limit - 1 => now + 1 - first >= Window
        /\ at = "idle" /\ m = Limit => now + 1 - first > Window
    BY <1>1, <2>2
  <2> QED BY <1>1, <2>2, <2>3 DEF CountInv, first, m
<1> QED BY <1>1, <1>2, <1>4, <1>5 DEF PacingInv

(* The oldest of Limit requests is always among those that are forgotten.  *)
LEMMA CountKeeps ==
  ASSUME PacingInv, P!remove_outdated_data PROVE PacingInv'
<1> USE PacingAssumption DEF P!PacingAssumption
<1>1. PICK n \in 0..Len(sended_requests) :
        /\ P!Outdated(n)
        /\ sended_requests' = SubSeq(sended_requests, n + 1, Len(sended_requests))
  BY DEF P!remove_outdated_data
<1>2. /\ at = "idle" /\ at' = "count" /\ UNCHANGED <<now, wake, log>>
  BY DEF P!remove_outdated_data
<1>3. /\ sended_requests' \in Seq(Int) /\ Remembered' = Remembered - n
      /\ \A i \in 1..Remembered' : sended_requests'[i] = sended_requests[n + i]
  <2>1. \A i \in n + 1..Len(sended_requests) : sended_requests[i] \in Int
    BY <1>1 DEF PacingInv, RemembersLast
  <2> DEFINE L == Len(sended_requests)
             q == SubSeq(sended_requests, n + 1, L)
  <2>2. L \in Nat /\ n \in Nat /\ n <= L
    BY DEF PacingInv, RemembersLast
  <2>3. /\ q \in Seq(Int) /\ Len(q) = IF n + 1 <= L THEN L - (n + 1) + 1 ELSE 0
        /\ \A i \in 1..L - (n + 1) + 1 : q[i] = sended_requests[n + 1 + i - 1]
    <3> HIDE DEF L
    <3>1. n + 1 \in Int /\ L \in Int /\ \A i \in n + 1..L : sended_requests[i] \in Int
      BY <2>1, <2>2 DEF L
    <3> QED
      BY <3>1, SubSeqProperties
  <2>4. sended_requests' = q /\ Len(q) = L - n
    BY <1>1, <2>2, <2>3
  <2>5. ASSUME NEW i \in 1..L - n PROVE q[i] = sended_requests[n + i]
    <3>1. n + 1 + i - 1 = n + i /\ i \in 1..L - (n + 1) + 1
      BY <2>2
    <3> QED
      BY <2>3, <3>1
  <2> HIDE DEF q
  <2> QED
    BY <2>3, <2>4, <2>5 DEF Remembered
<1>4. /\ Remembered \in Nat /\ Forgotten \in Nat /\ Len(log) \in Nat /\ n \in 0..Remembered
      /\ Forgotten + Remembered = Len(log)
      /\ \A i \in 1..Remembered : sended_requests[i] = log[Forgotten + i]
  BY DEF PacingInv, RemembersLast, Remembered, Forgotten
<1>5. Forgotten' = Forgotten + n
  BY <1>2, <1>3, <1>4 DEF Forgotten
<1>6. RemembersLast'
  <2>1. ASSUME NEW i \in 1..Remembered'
        PROVE  sended_requests'[i] = log[Forgotten + n + i]
    <3>1. n + i \in 1..Remembered /\ Forgotten + (n + i) = Forgotten + n + i
      BY <1>3, <1>4
    <3> QED
      BY <1>3, <1>4, <3>1
  <2> QED
    BY <1>2, <1>3, <1>4, <1>5, <2>1 DEF PacingInv, RemembersLast
<1>7. PastInv'
  <2> SUFFICES ASSUME NEW i \in 1..Forgotten + n PROVE now - log[i] > Window
    BY <1>2, <1>5 DEF PacingInv, PastInv
  <2>1. CASE i <= Forgotten
    BY <1>4, <2>1 DEF PacingInv, PastInv
  <2>2. CASE i > Forgotten
    <3>1. /\ i - Forgotten \in 1..n /\ i - Forgotten \in 1..Remembered
          /\ Forgotten + (i - Forgotten) = i
      BY <1>4, <2>2
    <3>2. sended_requests[i - Forgotten] = log[i]
      BY <1>4, <3>1
    <3> QED
      BY <1>1, <3>1, <3>2 DEF P!Outdated
  <2> QED
    BY <1>4, <2>1, <2>2
<1>8. Remembered' < Limit
  <2>1. Remembered = Limit => n > 0
    BY <1>1, <1>2 DEF PacingInv, CountInv, RemembersLast, PastInv, P!Outdated, Remembered
  <2> QED
    BY <1>1, <1>2, <1>3, <2>1 DEF PacingInv, CountInv, RemembersLast, Remembered
<1> QED
  BY <1>2, <1>6, <1>7, <1>8, <1>3, <1>4
     DEF PacingInv, CountInv, WindowLimit, P!WindowLimit, P!Gap

(* The time slept reaches to the end of the window of the first request,   *)
(* also when that is past and timedelta.seconds wraps.                     *)
LEMMA AllowedKeeps ==
  ASSUME PacingInv, P!request_allowed PROVE PacingInv'
<1> USE PacingAssumption DEF P!PacingAssumption
<1>1. /\ at = "count" /\ at' = "sleep" /\ UNCHANGED <<now, sended_requests, log>>
  BY DEF P!request_allowed
<1>2. /\ wake' \in Nat
      /\ Remembered = Limit - 1 => wake' - sended_requests[1] >= Window
  <2> DEFINE d == Window - (now - sended_requests[1])
             gap == P!seconds(Spacing - (now - sended_requests[Remembered]))
             w == IF Remembered = Limit - 1 THEN P!seconds(d)
                  ELSE IF Remembered > 0 /\ gap < Spacing THEN gap ELSE 0
  <2>1. wake' = now + w
    BY DEF P!request_allowed, Remembered
  <2>2. CASE Remembered = Limit - 1
    <3>1. sended_requests[1] \in Int /\ sended_requests[1] <= now /\ now \in Nat
      BY <2>2 DEF PacingInv, RemembersLast, PastInv, Remembered, Forgotten
    <3>2. d \in Int /\ d < DayLength
      BY <3>1
    <3>3. P!seconds(d) \in Int /\ P!seconds(d) >= 0 /\ (0 <= d => P!seconds(d) = d)
      BY <3>2, Remainder
    <3> QED
      BY <2>1, <2>2, <3>1, <3>3
  <2>3. CASE Remembered # Limit - 1 /\ Remembered > 0
    <3>1. sended_requests[Remembered] \in Int /\ now \in Nat
      BY <2>3 DEF PacingInv, RemembersLast, PastInv, Remembered
    <3>2. gap \in Int /\ gap >= 0
      BY <3>1, Remainder
    <3> QED
      BY <2>1, <2>3, <3>1, <3>2
  <2>4. CASE Remembered # Limit - 1 /\ ~(Remembered > 0)
    BY <2>1, <2>4 DEF PacingInv, PastInv
  <2> QED
    BY <2>2, <2>3, <2>4
<1> QED
  BY <1>1, <1>2
     DEF PacingInv, RemembersLast, PastInv, CountInv, Remembered, Forgotten, WindowLimit, P!WindowLimit, P!Gap

LEMMA SleepKeeps ==
  ASSUME PacingInv, P!sleep PROVE PacingInv'
BY PacingAssumption
   DEF P!PacingAssumption, P!sleep, PacingInv, RemembersLast, PastInv, CountInv, Remembered, Forgotten,
       WindowLimit, P!WindowLimit, P!Gap

(* The request is sent: it and the Limit before it take a window, for the  *)
(* first of these has been forgotten.                                      *)
LEMMA SentKeeps ==
  ASSUME PacingInv, P!request_sended PROVE PacingInv'
<1> USE PacingAssumption DEF P!PacingAssumption
<1>1. /\ at = "send" /\ at' = "answer" /\ now' = 0 /\ wake' = 0
      /\ sended_requests' = P!noted(sended_requests)
      /\ log' = P!LastOf(P!noted(log), Limit + 1)
  BY DEF P!request_sended
<1> DEFINE n == Len(log)
           m == Remembered
           k == n + 1 - Len(log')
<1>2. /\ n \in Nat /\ m \in Nat /\ m <= n /\ n <= Limit + 1 /\ m < Limit /\ now \in Nat
      /\ log \in Seq(Int) /\ sended_requests \in Seq(Int)
  BY <1>1 DEF PacingInv, RemembersLast, PastInv, CountInv, Remembered
<1>3. /\ sended_requests' \in Seq(Int) /\ Remembered' = m + 1
      /\ \A i \in 1..m : sended_requests'[i] = sended_requests[i] - now
      /\ sended_requests'[m + 1] = 0
  <2>1. /\ P!noted(sended_requests) \in Seq(Int) /\ Len(P!noted(sended_requests)) = m + 1
        /\ \A i \in 1..m : P!noted(sended_requests)[i] = sended_requests[i] - now
        /\ P!noted(sended_requests)[m + 1] = 0
    BY <1>2, NotedAppends DEF Remembered
  <2> QED
    BY <1>1, <2>1 DEF Remembered
<1>4. /\ P!noted(log) \in Seq(Int) /\ Len(P!noted(log)) = n + 1
      /\ \A i \in 1..n : P!noted(log)[i] = log[i] - now
      /\ P!noted(log)[n + 1] = 0
  BY <1>2, NotedAppends
<1>5. /\ log' \in Seq(Int) /\ Len(log') = IF n + 1 <= Limit + 1 THEN n + 1 ELSE Limit + 1
      /\ \A i \in 1..Len(log') : log'[i] = P!noted(log)[k + i]
  <2>1. Limit + 1 \in Nat
    OBVIOUS
  <2> DEFINE s == P!noted(log)
  <2>2. s \in Seq(Int) /\ Len(s) = n + 1 /\ log' = P!LastOf(s, Limit + 1)
    BY <1>1, <1>4
  <2> HIDE DEF s
  <2>3. /\ log' \in Seq(Int)
        /\ Len(log') = IF Len(s) <= Limit + 1 THEN Len(s) ELSE Limit + 1
        /\ \A i \in 1..Len(log') : log'[i] = s[Len(s) - Len(log') + i]
    BY <2>1, <2>2, LastOfIsSuffix
  <2> QED
    BY <2>2, <2>3 DEF s
<1>6. /\ k \in Nat /\ Len(log') \in Nat /\ Len(log') = n + 1 - k /\ m + 1 <= Len(log')
  BY <1>2, <1>5
<1>7. /\ \A i \in 1..Len(log') - 1 : log'[i] = log[k + i] - now
      /\ log'[Len(log')] = 0
  <2> HIDE DEF n, m, k
  <2>1. ASSUME NEW i \in 1..Len(log') - 1 PROVE log'[i] = log[k + i] - now
    <3>1. i \in 1..Len(log') /\ k + i \in 1..n
      BY <1>2, <1>6
    <3> QED
      BY <1>4, <1>5, <3>1
  <2>2. k + Len(log') = n + 1 /\ Len(log') \in 1..Len(log')
    BY <1>2, <1>6
  <2> QED
    BY <1>4, <1>5, <2>1, <2>2
<1> HIDE DEF n, m, k
<1>8. \A i \in 1..n : log[i] \in Int /\ log[i] <= now
  BY DEF PacingInv, RemembersLast, PastInv, n
<1>9. \A i \in 1..n - m : now - log[i] > Window
  BY DEF PacingInv, PastInv, Forgotten, n, m
<1>10. \A i \in 1..m : sended_requests[i] = log[n - m + i]
  BY DEF PacingInv, RemembersLast, Forgotten, Remembered, n, m
<1>11. Forgotten' = n - m - k
  BY <1>2, <1>3, <1>6 DEF Forgotten
<1>12. RemembersLast'
  <2> SUFFICES ASSUME NEW i \in 1..m + 1
               PROVE  sended_requests'[i] = log'[n - m - k + i]
    BY <1>3, <1>5, <1>6, <1>11, <1>2 DEF RemembersLast
  <2>1. CASE i = m + 1
    BY <2>1, <1>2, <1>3, <1>6, <1>7
  <2>2. CASE i # m + 1
    <3>1. /\ i \in 1..m /\ n - m - k + i \in 1..Len(log') - 1
          /\ k + (n - m - k + i) = n - m + i
      BY <2>2, <1>2, <1>6
    <3> QED
      BY <3>1, <1>3, <1>7, <1>10
  <2> QED
    BY <2>1, <2>2
<1>13. PastInv'
  <2>1. \A i \in 1..Len(log') : log'[i] <= now'
    <3> SUFFICES ASSUME NEW i \in 1..Len(log') PROVE log'[i] <= 0
      BY <1>1
    <3>1. CASE i = Len(log')
      BY <3>1, <1>7
    <3>2. CASE i # Len(log')
      <4>1. i \in 1..Len(log') - 1 /\ k + i \in 1..n
        BY <3>2, <1>2, <1>6
      <4> QED
        BY <4>1, <1>2, <1>7, <1>8
    <3> QED
      BY <3>1, <3>2
  <2>2. \A i \in 1..Forgotten' : now' - log'[i] > Window
    <3> SUFFICES ASSUME NEW i \in 1..n - m - k PROVE 0 - log'[i] > Window
      BY <1>1, <1>11
    <3>1. i \in 1..Len(log') - 1 /\ k + i \in 1..n - m /\ k + i \in 1..n
      BY <1>2, <1>6
    <3> QED
      BY <3>1, <1>2, <1>7, <1>8, <1>9
  <2> QED
    BY <1>1, <2>1, <2>2 DEF PastInv
<1>14. CountInv'
  <2>1. m = Limit - 1 => 1 \in 1..m /\ now - sended_requests[1] >= Window
    BY <1>1, <1>2 DEF PacingInv, CountInv, m
  <2>2. Remembered' = Limit => 0 - sended_requests'[1] >= Window
    <3> SUFFICES ASSUME m = Limit - 1 PROVE 0 - sended_requests'[1] >= Window
      BY <1>2, <1>3
    <3>1. sended_requests'[1] = sended_requests[1] - now /\ sended_requests[1] \in Int
      BY <1>2, <1>3, <2>1 DEF m, Remembered
    <3> QED
      BY <1>2, <2>1, <3>1
  <2> QED
    BY <1>1, <1>2, <1>3, <2>2 DEF CountInv
<1>15. WindowLimit'
  <2> SUFFICES ASSUME NEW i \in 1..Len(log'), i + Limit <= Len(log')
               PROVE  log'[i + Limit] - log'[i] >= Window
    BY DEF WindowLimit, P!WindowLimit, P!Gap
  <2>1. i = 1 /\ Len(log') = Limit + 1
    BY <1>2, <1>5
  <2>2. k + 1 \in 1..n - m /\ k + 1 \in 1..n /\ 1 \in 1..Len(log') - 1
    BY <2>1, <1>2, <1>6
  <2>3. /\ log'[1] = log[k + 1] - now /\ log[k + 1] \in Int /\ now - log[k + 1] > Window
        /\ log'[Limit + 1] = 0
    BY <2>1, <2>2, <1>7, <1>8, <1>9
  <2>4. i + Limit = Limit + 1
    BY <2>1
  <2> QED
    BY <2>1, <2>3, <2>4, <1>2
<1> QED
  BY <1>1, <1>12, <1>13, <1>14, <1>15 DEF PacingInv

LEMMA AnswerKeeps ==
  ASSUME PacingInv, P!get_historical_request_data PROVE PacingInv'
BY PacingAssumption
   DEF P!PacingAssumption, P!get_historical_request_data, PacingInv, RemembersLast, PastInv, CountInv,
       Remembered, Forgotten, WindowLimit, P!WindowLimit, P!Gap

-----------------------------------------------------------------------------
LEMMA PacingStep ==
  ASSUME PacingInv, [DownloadNext]_allVars
  PROVE  PacingInv'
<1>1. ASSUME request_allowed_check PROVE PacingInv'
  BY <1>1, CountKeeps, AllowedKeeps, SleepKeeps DEF request_allowed_check
<1>2. ASSUME send_request PROVE PacingInv'
  BY <1>2, SentKeeps DEF send_request
<1>3. ASSUME read_answer PROVE PacingInv'
  BY <1>3, AnswerKeeps DEF read_answer
<1>4. ASSUME tick PROVE PacingInv'
  BY <1>4, TickKeeps DEF tick
<1>5. ASSUME UNCHANGED pacingVars PROVE PacingInv'
  BY <1>5 DEF pacingVars, PacingInv, RemembersLast, PastInv, CountInv, Remembered, Forgotten,
              WindowLimit, P!WindowLimit, P!Gap
<1> QED
  BY <1>1, <1>2, <1>3, <1>4, <1>5 DEF DownloadNext, Unpaced, allVars, pacingVars

(* "checks if there are no more than 60 requests in 10 minutes"            *)
(* (tws.py:450-451): over all downloads that share a manager no window     *)
(* holds more than Limit requests, and the manager never remembers so many *)
(* that its test for the limit is stepped over.                            *)
THEOREM PacingIsKept == DownloadSpec => []PacingKept
<1>1. DownloadInit => PacingInv
  BY PacingInit DEF DownloadInit
<1>2. PacingInv /\ [DownloadNext]_allVars => PacingInv'
  BY PacingStep
<1>3. PacingInv => PacingKept
  BY PacingAssumption
     DEF P!PacingAssumption, PacingInv, CountInv, PacingKept, LimitNotSkipped, P!LimitNotSkipped, RemembersLast,
         Remembered
<1> QED
  BY <1>1, <1>2, <1>3, PTL DEF DownloadSpec

-----------------------------------------------------------------------------
(* Sets of bars are finite, so they have a first and a last bar and can be *)
(* put in order.  Each of these is shown for a set that is as small as a   *)
(* counterexample can be.                                                  *)

LEMMA Smallest ==
  ASSUME NEW F \in SUBSET SUBSET Bars, F # {}
  PROVE  \E T \in F : \A U \in F : U \subseteq T => U = T
<1>1. FiniteSubsetsOf(Bars) = SUBSET Bars
  BY DataAssumption, FS_FiniteSubsetsOfFinite DEF DataAssumption
<1>2. IsWellFoundedOn(StrictSubsetOrdering(Bars), SUBSET Bars)
  BY <1>1, FS_StrictSubsetOrderingWellFounded
<1>3. PICK T \in F : \A U \in F : <<U, T>> \notin StrictSubsetOrdering(Bars)
  BY <1>2, WFMin
<1> QED BY <1>3 DEF StrictSubsetOrdering

LEMMA BarsAreEven ==
  /\ Bars \subseteq Nat
  /\ \A a, b \in Bars : a < b => a + 2 <= b
BY DataAssumption DEF DataAssumption

LEMMA NotBetween ==
  ASSUME NEW a \in Bars, NEW b \in Bars, a >= b - 3, a < b
  PROVE  a + 2 = b
BY DataAssumption DEF DataAssumption

LEMMA FirstBar ==
  ASSUME NEW S \in SUBSET Bars, S # {}
  PROVE  SetMin(S) \in S /\ \A b \in S : SetMin(S) <= b
<1> DEFINE HasFirst(T) == \E x \in T : \A y \in T : x <= y
           F == {T \in SUBSET Bars : T # {} /\ ~HasFirst(T)}
<1>1. SUFFICES ASSUME F # {} PROVE FALSE
  <2>1. HasFirst(S)
    BY <1>1
  <2> QED BY <2>1 DEF SetMin
<1>2. F \in SUBSET SUBSET Bars
  OBVIOUS
<1> HIDE DEF F
<1>3. PICK T \in F : \A U \in F : U \subseteq T => U = T
  BY <1>1, <1>2, Smallest
<1>4. T \in SUBSET Bars /\ T # {} /\ ~HasFirst(T)
  BY DEF F
<1>5. PICK x \in T : TRUE
  BY <1>4
<1> DEFINE U == {y \in T : y < x}
<1>6. U \subseteq T /\ U # T /\ U \in SUBSET Bars
  <2>1. x \in Nat
    BY <1>4, <1>5, BarsAreEven
  <2>2. x \notin U
    BY <2>1
  <2> QED BY <1>4, <1>5, <2>2
<1>7. U \notin F
  BY <1>3, <1>6
<1>8. U = {} \/ HasFirst(U)
  BY <1>6, <1>7 DEF F
<1>9. HasFirst(T)
  BY <1>4, <1>5, <1>8, BarsAreEven
<1> QED BY <1>4, <1>9

LEMMA LastBar ==
  ASSUME NEW S \in SUBSET Bars, S # {}
  PROVE  SetMax(S) \in S /\ \A b \in S : SetMax(S) >= b
<1> DEFINE HasLast(T) == \E x \in T : \A y \in T : x >= y
           F == {T \in SUBSET Bars : T # {} /\ ~HasLast(T)}
<1>1. SUFFICES ASSUME F # {} PROVE FALSE
  <2>1. HasLast(S)
    BY <1>1
  <2> QED BY <2>1 DEF SetMax
<1>2. F \in SUBSET SUBSET Bars
  OBVIOUS
<1> HIDE DEF F
<1>3. PICK T \in F : \A U \in F : U \subseteq T => U = T
  BY <1>1, <1>2, Smallest
<1>4. T \in SUBSET Bars /\ T # {} /\ ~HasLast(T)
  BY DEF F
<1>5. PICK x \in T : TRUE
  BY <1>4
<1> DEFINE U == {y \in T : y > x}
<1>6. U \subseteq T /\ U # T /\ U \in SUBSET Bars
  <2>1. x \in Nat
    BY <1>4, <1>5, BarsAreEven
  <2>2. x \notin U
    BY <2>1
  <2> QED BY <1>4, <1>5, <2>2
<1>7. U \notin F
  BY <1>3, <1>6
<1>8. U = {} \/ HasLast(U)
  BY <1>6, <1>7 DEF F
<1>9. HasLast(T)
  BY <1>4, <1>5, <1>8, BarsAreEven
<1> QED BY <1>4, <1>9

Ordered(s, n) == \A i, j \in 1..n : i < j => s[i] < s[j]

LEMMA CanBeSorted ==
  ASSUME NEW S \in SUBSET Bars
  PROVE  \E s \in [1..Cardinality(S) -> S] : Ordered(s, Cardinality(S))
<1> DEFINE Sortable(T) == \E s \in [1..Cardinality(T) -> T] : Ordered(s, Cardinality(T))
           F == {T \in SUBSET Bars : ~Sortable(T)}
<1>1. SUFFICES ASSUME F # {} PROVE FALSE
  OBVIOUS
<1> F \in SUBSET SUBSET Bars
  OBVIOUS
<1> HIDE DEF F
<1>2. PICK T \in F : \A U \in F : U \subseteq T => U = T
  BY <1>1, Smallest
<1>0. T \in SUBSET Bars /\ ~Sortable(T)
  BY DEF F
<1>3. T # {}
  <2>1. Cardinality({}) = 0
    BY FS_EmptySet
  <2>2. <<>> \in [1..0 -> {}] /\ Ordered(<<>>, 0)
    <3>1. 1..0 = {}
      OBVIOUS
    <3>2. <<>> \in [1..0 -> {}]
      BY <3>1
    <3> QED BY <3>1, <3>2 DEF Ordered
  <2>3. Sortable({})
    BY <2>1, <2>2
  <2> QED BY <1>0, <2>3
<1> DEFINE m == SetMax(T)
           U == T \ {m}
<1>4. m \in T /\ \A b \in T : m >= b
  BY <1>0, <1>3, LastBar
<1>5. /\ IsFiniteSet(T) /\ Cardinality(U) \in Nat
      /\ Cardinality(T) = Cardinality(U) + 1
  <2>1. IsFiniteSet(T) /\ IsFiniteSet(U)
    BY <1>0, DataAssumption, FS_Subset DEF DataAssumption
  <2> HIDE DEF m
  <2>2. Cardinality(U) = Cardinality(T) - 1
    BY <1>4, <2>1, FS_RemoveElement
  <2> QED BY <2>1, <2>2, FS_CardinalityType
<1>6. Sortable(U)
  <2>1. U \in SUBSET Bars /\ U \subseteq T /\ U # T
    BY <1>0, <1>4
  <2>2. U \notin F
    BY <1>2, <2>1
  <2> QED BY <2>1, <2>2 DEF F
<1> DEFINE n == Cardinality(U)
<1>7. PICK s \in [1..n -> U] : Ordered(s, n)
  BY <1>6
<1>8. n \in Nat /\ Cardinality(T) = n + 1 /\ (\A b \in U : b \in Nat /\ b < m) /\ T \subseteq Nat /\ m \in Nat
  <2>1. T \subseteq Nat
    BY <1>0, BarsAreEven
  <2>2. \A b \in U : b \in T /\ b # m
    OBVIOUS
  <2>3. m \in T /\ \A b \in T : m >= b
    BY <1>4
  <2> HIDE DEF m, U
  <2>4. \A b \in U : b \in Nat /\ b < m
    <3> SUFFICES ASSUME NEW b \in U PROVE b \in Nat /\ b < m
      OBVIOUS
    <3>1. b \in Nat /\ m \in Nat /\ m >= b /\ b # m
      BY <2>1, <2>2, <2>3
    <3> QED BY <3>1
  <2> QED BY <1>5, <2>1, <2>3, <2>4
<1>9. T = U \union {m}
  BY <1>4
<1> HIDE DEF n, m, U
<1> DEFINE g == [i \in 1..n + 1 |-> IF i = n + 1 THEN m ELSE s[i]]
<1>10. g \in [1..n + 1 -> T]
  BY <1>7, <1>8, <1>9
<1>11. Ordered(g, n + 1)
  BY <1>7, <1>8 DEF Ordered
<1>12. Sortable(T)
  BY <1>8, <1>10, <1>11
<1> QED BY <1>0, <1>12

LEMMA InTheirOrder ==
  ASSUME NEW S \in SUBSET Bars
  PROVE  /\ Sorted(S) \in Seq(S) /\ Len(Sorted(S)) = Cardinality(S)
         /\ Ordered(Sorted(S), Len(Sorted(S)))
         /\ BarsOf(Sorted(S)) = S
<1> DEFINE s == Sorted(S)
           n == Cardinality(S)
<1>1. s \in [1..n -> S] /\ Ordered(s, n)
  BY CanBeSorted DEF Sorted, Ordered
<1>2. IsFiniteSet(S) /\ n \in Nat
  BY DataAssumption, FS_Subset, FS_CardinalityType DEF DataAssumption
<1> HIDE DEF s, n
<1>3. s \in Injection(1..n, S)
  <2>1. \A i, j \in 1..n : s[i] = s[j] => i = j
    <3> SUFFICES ASSUME NEW i \in 1..n, NEW j \in 1..n, s[i] = s[j], i < j PROVE FALSE
      BY <1>2
    <3>1. s[i] < s[j] /\ s[i] \in Nat
      BY <1>1, BarsAreEven DEF Ordered
    <3> QED BY <3>1
  <2> QED BY <1>1, <2>1 DEF Injection, IsInjective
<1>4. s \in Surjection(1..n, S)
  <2>1. Cardinality(1..n) = n
    BY <1>2, FS_Interval
  <2> QED BY <1>2, <1>3, <2>1, FS_Injection DEF n
<1>5. s \in Seq(S) /\ Len(s) = n
  BY <1>1, <1>2
<1> QED BY <1>1, <1>4, <1>5 DEF s, n, BarsOf, Surjection

-----------------------------------------------------------------------------
(* The download: the invariant of its data.                                *)

(* A request that is waited for, and what the answer says of the market.   *)
RequestInv ==
  /\ pc \in {"loop", "wait"} => size # None
  /\ pc = "wait" =>
       /\ end > start
       /\ status \in {"SENDED", "RECEIVING DATA", "FINISHED", "ERROR"}
       /\ status \in {"RECEIVING DATA", "FINISHED"} => rows = Pack /\ rows # {}
       /\ status = "ERROR" /\ error = "no data" => Pack = {}
       /\ status = "ERROR" /\ error = "exceeded max lookback" => end - size < Lookback

(* Of two bars of the market that follow each other one is in S.           *)
OneBarHoles(S, first, last) ==
  \A b \in Bars : first <= b /\ b <= last => b \in S \/ b + 2 \in S

(* The next pack ends where the first that was received begins, or one bar *)
(* before.                                                                 *)
Joined ==
  /\ InOrder
  /\ received # Empty =>
       /\ end = received[1] - 3
       /\ OneBarHoles(BarsOf(received), received[1], received[Len(received)])

DataInv == TypeOK /\ RequestInv /\ Joined

(* The module's abbreviations of numbers.                                  *)
LEMMA Numbers ==
  /\ First \in Int /\ Big \in Nat /\ Small \in Nat /\ Lookback \in Nat /\ Day \in Nat
  /\ 0 < Small /\ Small < Big /\ Day = 2 * Big
  /\ \A k \in 1..Len(Ends) : Ends[k] \in Int
BY DataAssumption DEF DataAssumption, Day

LEMMA DataStarts == Init => DataInv
<1> SUFFICES ASSUME Init PROVE DataInv
  OBVIOUS
<1>1. TypeOK
  BY DataAssumption DEF DataAssumption, Init, TypeOK, Empty, None
<1>2. RequestInv
  BY DEF Init, RequestInv
<1>3. Joined
  BY DEF Init, Joined, InOrder, Empty
<1> QED BY <1>1, <1>2, <1>3 DEF DataInv

LEMMA SizeIsNumber == size \in {Big, Small, None} => size \in Nat /\ size <= Big
BY Numbers DEF None

(* An error leaves what was received; only the end or the size may move,   *)
(* the end only when nothing was received.                                 *)
ErrorRead ==
  \/ pacing_violation \/ exceeded_max_lookback \/ query_returned_no_data \/ request_error
LEMMA Errors ==
  ASSUME DataInv, ErrorRead
  PROVE  /\ pc = "wait" /\ pc' \in {"loop", "done", "failed"}
         /\ UNCHANGED <<start, verbose, received, requestVars, db, calls, pacing>>
         /\ size' \in {Big, Small, None} /\ (pc' = "loop" => size' # None)
         /\ end' \in Int /\ (received # Empty => end' = end)
         /\ UNCHANGED early \/ Stops(TRUE) \/ Stops(FALSE)
<1>0. /\ size \in {Big, Small, None} /\ end \in Int /\ (pc = "wait" => size # None)
      /\ look_back_corr(size) \in Int
  <2>1. size \in {Big, Small, None} /\ end \in Int /\ (pc = "wait" => size # None)
    BY DEF DataInv, TypeOK
  <2> QED BY <2>1, SizeIsNumber, Numbers DEF look_back_corr
<1>5. UNCHANGED early \/ Stops(TRUE) \/ Stops(FALSE)
  BY DEF ErrorRead, pacing_violation, exceeded_max_lookback, query_returned_no_data, request_error, NoData
<1> USE DEF Error, requestVars
<1>1. CASE pacing_violation
  BY <1>0, <1>1, <1>5 DEF pacing_violation, NoData, NextRound
<1>2. CASE exceeded_max_lookback
  BY <1>0, <1>2, <1>5 DEF exceeded_max_lookback, NoData, NextRound, reduce_request_size
<1>3. CASE query_returned_no_data
  <2>1. /\ pc = "wait" /\ UNCHANGED <<verbose, status, error, rows, db, calls, pacing, received, start, size>>
        /\ \/ pc' = "done" /\ end' = end
           \/ received = Empty /\ end' = end - look_back_corr(size) /\ pc' \in {"loop", "done"}
    BY <1>3 DEF query_returned_no_data, NoData, NextRound, Return
  <2>2. /\ pc' \in {"loop", "done", "failed"} /\ size' \in {Big, Small, None} /\ size' # None
        /\ end' \in Int /\ (received # Empty => end' = end)
    BY <1>0, <2>1
  <2> QED BY <1>5, <2>1, <2>2
<1>4. CASE request_error
  BY <1>0, <1>4, <1>5 DEF request_error, NoData, NextRound, Return
<1> QED BY <1>1, <1>2, <1>3, <1>4 DEF ErrorRead

(* Where downloads stopped is remembered.                                  *)
LEMMA StopsTypes ==
  ASSUME DataInv, end' \in Int, UNCHANGED early \/ Stops(TRUE) \/ Stops(FALSE)
  PROVE  early' \subseteq [from : Int, to : Int, accepted : BOOLEAN] /\ early \subseteq early'
<1>1. early \subseteq [from : Int, to : Int, accepted : BOOLEAN] /\ start \in Int
  BY DEF DataInv, TypeOK
<1>2. ASSUME NEW a \in BOOLEAN, Stops(a)
      PROVE  early' \subseteq [from : Int, to : Int, accepted : BOOLEAN] /\ early \subseteq early'
  <2>1. [from |-> start, to |-> end', accepted |-> a] \in [from : Int, to : Int, accepted : BOOLEAN]
    BY <1>1
  <2> QED BY <1>1, <1>2, <2>1 DEF Stops
<1> QED BY <1>1, <1>2

(* A pack is put in front: it ends before what was received begins, and    *)
(* holds every bar of the market from its first to its end.                *)
LEMMA PackJoins ==
  ASSUME DataInv, pack_received
  PROVE  /\ TypeOK' /\ Joined'
         /\ received' # Empty
         /\ received = Empty => received'[Len(received')] = SetMax(rows)
         /\ received # Empty => received'[Len(received')] = received[Len(received)]
         /\ BarsOf(received') = rows \union BarsOf(received)
<1> DEFINE s == Sorted(rows)
           n == Len(s)
           m == Len(received)
<1>1. /\ rows = Between(end - size, end) /\ rows # {} /\ rows \in SUBSET Bars
      /\ end \in Int /\ size \in Nat /\ received \in Seq(Bars)
  BY SizeIsNumber DEF DataInv, TypeOK, RequestInv, pack_received, Pack, Between
<1>2. s \in Seq(rows) /\ Ordered(s, n) /\ BarsOf(s) = rows
  BY <1>1, InTheirOrder
<1>4. SetMin(rows) \in rows /\ SetMin(rows) \in Nat /\ \A b \in rows : SetMin(rows) <= b
  BY <1>1, FirstBar, BarsAreEven
<1>5. SetMax(rows) \in rows /\ SetMax(rows) \in Nat /\ \A b \in rows : SetMax(rows) >= b
  BY <1>1, LastBar, BarsAreEven
<1>3. received' = s \o received /\ end' = SetMin(rows) - 3
  <2>1. received' = s \o received /\ end' = SetMin(rows) - 1 - 2
    BY DEF pack_received
  <2> QED BY <1>4, <2>1
<1> HIDE DEF s
<1>6. n \in Nat /\ n # 0
  <2>1. n = 0 => BarsOf(s) = {}
    BY <1>2 DEF BarsOf
  <2> QED BY <1>1, <1>2, <2>1
<1>7. s[1] = SetMin(rows) /\ s[n] = SetMax(rows)
  <2>1. PICK i \in 1..n : s[i] = SetMin(rows)
    BY <1>2, <1>4 DEF BarsOf
  <2>2. PICK j \in 1..n : s[j] = SetMax(rows)
    BY <1>2, <1>5 DEF BarsOf
  <2>3. /\ s[1] \in rows /\ s[1] \in Nat /\ s[n] \in rows /\ s[n] \in Nat
        /\ SetMin(rows) <= s[1] /\ s[n] <= SetMax(rows)
    <3>1. s[1] \in rows /\ s[n] \in rows
      BY <1>2, <1>6
    <3> QED BY <1>1, <1>4, <1>5, <3>1, BarsAreEven
  <2>4. i = 1
    <3> SUFFICES ASSUME i # 1 PROVE FALSE
      OBVIOUS
    <3>1. s[1] < s[i]
      BY <1>2, <1>6 DEF Ordered
    <3> QED BY <1>4, <2>1, <2>3, <3>1
  <2>5. j = n
    <3> SUFFICES ASSUME j # n PROVE FALSE
      OBVIOUS
    <3>1. s[j] < s[n]
      BY <1>2, <1>6 DEF Ordered
    <3> QED BY <1>5, <2>2, <2>3, <3>1
  <2> QED BY <2>1, <2>2, <2>4, <2>5
<1>8. /\ received' \in Seq(Bars) /\ Len(received') = n + m /\ m \in Nat
      /\ \A i \in 1..n : received'[i] = s[i]
      /\ \A i \in n + 1..n + m : received'[i] = received[i - n]
  BY <1>1, <1>2, <1>3, <1>6
<1>9. /\ received'[1] = SetMin(rows)
      /\ received = Empty => received'[n + m] = SetMax(rows)
      /\ received # Empty => received'[n + m] = received[m]
  BY <1>1, <1>6, <1>7, <1>8 DEF Empty
<1>10. BarsOf(received') = rows \union BarsOf(received)
  <2>1. ASSUME NEW i \in 1..n PROVE s[i] \in BarsOf(received')
    <3>1. i \in 1..n + m
      BY <1>8
    <3> QED BY <1>8, <3>1 DEF BarsOf
  <2>2. ASSUME NEW i \in 1..m PROVE received[i] \in BarsOf(received')
    <3>1. i + n \in 1..n + m /\ i + n \in n + 1..n + m /\ i + n - n = i
      BY <1>6, <1>8
    <3> QED BY <1>8, <3>1 DEF BarsOf
  <2>3. ASSUME NEW i \in 1..n + m PROVE received'[i] \in rows \union BarsOf(received)
    <3>1. CASE i \in 1..n
      BY <1>2, <1>8, <3>1 DEF BarsOf
    <3>2. CASE i \notin 1..n
      <4>1. i \in n + 1..n + m /\ i - n \in 1..m
        BY <1>6, <1>8, <3>2
      <4> QED BY <1>1, <1>8, <4>1 DEF BarsOf
    <3> QED BY <3>1, <3>2
  <2>4. rows \subseteq BarsOf(received')
    BY <1>2, <2>1 DEF BarsOf
  <2>5. BarsOf(received) \subseteq BarsOf(received')
    BY <1>1, <2>2 DEF BarsOf
  <2>6. BarsOf(received') \subseteq rows \union BarsOf(received)
    BY <1>8, <2>3 DEF BarsOf
  <2> QED BY <2>4, <2>5, <2>6
<1>11. TypeOK'
  <2>1. /\ pc' = "loop" /\ status' = "DATA REMOVED" /\ end' \in Int
        /\ UNCHANGED <<start, size, rows, db, calls, early>>
    <3>1. end' \in Int
      BY <1>3, <1>4
    <3> QED BY <3>1 DEF pack_received, NextRound
  <2>2. received' \in Seq(Bars)
    BY <1>8
  <2>3. TypeOK
    BY DEF DataInv
  <2> QED BY <2>1, <2>2, <2>3 DEF TypeOK
<1>12. received # Empty => m # 0 /\ end = received[1] - 3
  BY <1>1 DEF DataInv, Joined, Empty
<1>13. \A i \in 1..m : received[i] \in Nat /\ received[1] <= received[i] /\ received[i] <= received[m]
  <2> SUFFICES ASSUME NEW i \in 1..m
               PROVE  received[i] \in Nat /\ received[1] <= received[i] /\ received[i] <= received[m]
    OBVIOUS
  <2>0. 1 \in 1..m /\ m \in 1..m
    BY <1>8
  <2>1. received[i] \in Nat /\ received[1] \in Nat /\ received[m] \in Nat
    <3>1. received[i] \in Bars /\ received[1] \in Bars /\ received[m] \in Bars
      BY <1>1, <2>0
    <3> QED BY <3>1, BarsAreEven
  <2>2. i # 1 => received[1] < received[i]
    BY <1>1 DEF DataInv, Joined, InOrder
  <2>3. i # m => received[i] < received[m]
    BY <1>1 DEF DataInv, Joined, InOrder
  <2> QED BY <2>1, <2>2, <2>3
<1>14. \A i \in 1..n : s[i] \in Nat /\ s[i] < end /\ SetMin(rows) <= s[i]
  <2> SUFFICES ASSUME NEW i \in 1..n PROVE s[i] \in Nat /\ s[i] < end /\ SetMin(rows) <= s[i]
    OBVIOUS
  <2>1. s[i] \in rows
    BY <1>2
  <2> QED BY <1>1, <1>4, <2>1, BarsAreEven DEF Between
<1>15. InOrder'
  <2> SUFFICES ASSUME NEW i \in 1..n + m, NEW j \in 1..n + m, i < j
               PROVE  received'[i] < received'[j]
    BY <1>8 DEF InOrder
  <2>1. CASE j <= n
    <3>1. i \in 1..n /\ j \in 1..n
      BY <1>6, <1>8, <2>1
    <3> QED BY <1>2, <1>8, <3>1 DEF Ordered
  <2>2. CASE i <= n /\ n < j
    <3>1. i \in 1..n /\ j \in n + 1..n + m /\ j - n \in 1..m
      BY <1>6, <1>8, <2>2
    <3>2. received # Empty /\ 1 \in 1..m
      BY <1>8, <3>1 DEF Empty
    <3>3. /\ received'[i] \in Nat /\ received'[i] < end
          /\ received'[j] \in Nat /\ received[1] <= received'[j] /\ received[1] \in Nat
      BY <1>8, <1>13, <1>14, <3>1, <3>2
    <3> QED BY <1>1, <1>12, <3>2, <3>3
  <2>3. CASE n < i
    <3>1. /\ i \in n + 1..n + m /\ j \in n + 1..n + m
          /\ i - n \in 1..m /\ j - n \in 1..m /\ i - n < j - n
      BY <1>6, <1>8, <2>3
    <3>2. received[i - n] < received[j - n]
      BY <1>1, <3>1 DEF DataInv, Joined, InOrder
    <3> QED BY <1>8, <3>1, <3>2
  <2> QED BY <1>6, <1>8, <2>1, <2>2, <2>3
<1>16. OneBarHoles(BarsOf(received'), received'[1], received'[Len(received')])
  <2> SUFFICES ASSUME NEW b \in Bars, SetMin(rows) <= b, b <= received'[n + m],
                      b \notin BarsOf(received')
               PROVE  b + 2 \in BarsOf(received')
    BY <1>8, <1>9 DEF OneBarHoles
  <2>0. b \in Nat
    BY BarsAreEven
  <2>1. b >= end
    <3>1. SetMin(rows) >= end - size
      BY <1>1, <1>4 DEF Between
    <3>2. b \notin Between(end - size, end)
      BY <1>1, <1>10
    <3> QED BY <1>1, <1>4, <2>0, <3>1, <3>2 DEF Between
  <2>2. received # Empty
    <3> SUFFICES ASSUME received = Empty PROVE FALSE
      OBVIOUS
    <3>1. b <= SetMax(rows) /\ SetMax(rows) < end
      BY <1>1, <1>5, <1>9 DEF Between
    <3> QED BY <1>1, <1>5, <2>0, <2>1, <3>1
  <2>3. /\ m # 0 /\ end = received[1] - 3 /\ b <= received[m]
        /\ received[1] \in BarsOf(received) /\ received[1] \in Nat /\ received[1] \in Bars
    BY <1>1, <1>8, <1>9, <1>12, <1>13, <2>2 DEF BarsOf
  <2>4. CASE received[1] <= b
    BY <1>10, <2>2, <2>3, <2>4 DEF DataInv, Joined, OneBarHoles
  <2>5. CASE b < received[1]
    <3>1. b + 2 <= received[1]
      BY <2>3, <2>5, BarsAreEven
    <3>2. b + 2 = received[1]
      BY <2>0, <2>1, <2>3, <2>5, <3>1, NotBetween
    <3> QED BY <1>10, <2>3, <3>2
  <2> QED BY <2>0, <2>3, <2>4, <2>5
<1>17. received' # Empty
  BY <1>6, <1>8 DEF Empty
<1>18. Joined'
  BY <1>3, <1>9, <1>15, <1>16 DEF Joined
<1> QED BY <1>8, <1>9, <1>10, <1>11, <1>17, <1>18

LEMMA JoinedStays ==
  ASSUME Joined, UNCHANGED received, received # Empty => end' = end
  PROVE  Joined'
BY DEF Joined, InOrder

LEMMA DataStep ==
  ASSUME DataInv, [Next]_vars
  PROVE  DataInv'
<1>0. TypeOK /\ RequestInv /\ Joined
  BY DEF DataInv
<1>1. CASE historical_data_to_db
  <2>1. start' \in Int /\ end' \in Int /\ calls' \in 0..Len(Ends)
    <3>1. db # {} => SetMax(db) \in Int
      <4>1. db \in SUBSET Bars
        BY <1>0 DEF TypeOK
      <4>2. db # {} => SetMax(db) \in db
        BY <4>1, LastBar
      <4>3. \A b \in Bars : b \in Int
        BY BarsAreEven
      <4> QED BY <4>1, <4>2, <4>3
    <3>2. calls + 1 \in 1..Len(Ends) /\ Ends[calls + 1] \in Int
      <4>1. Len(Ends) \in Nat
        BY DataAssumption DEF DataAssumption
      <4>2. calls \in 0..Len(Ends) /\ calls < Len(Ends)
        BY <1>0, <1>1 DEF historical_data_to_db, TypeOK
      <4>3. calls + 1 \in 1..Len(Ends)
        BY <4>1, <4>2
      <4> QED BY <4>3, Numbers
    <3> QED BY <1>1, <3>1, <3>2, Numbers DEF historical_data_to_db
  <2>2. /\ pc' \in {"loop", "failed"} /\ size' = Big /\ received' = Empty
        /\ UNCHANGED <<status, rows, db, early>>
    BY <1>1 DEF historical_data_to_db, requestVars
  <2>3. TypeOK'
    <3>1. received' \in Seq(Bars)
      BY <2>2 DEF Empty
    <3> QED BY <1>0, <2>1, <2>2, <3>1 DEF TypeOK
  <2>4. RequestInv'
    <3>1. size' # None
      BY <2>2, Numbers DEF None
    <3> QED BY <2>2, <3>1 DEF RequestInv
  <2>5. Joined'
    BY <2>2 DEF Joined, InOrder, Empty
  <2> QED BY <2>3, <2>4, <2>5 DEF DataInv
<1>2. CASE insert_records
  <2>1. BarsOf(received) \subseteq Bars
    <3>1. received \in Seq(Bars)
      BY <1>0 DEF TypeOK
    <3>2. \A i \in DOMAIN received : received[i] \in Bars
      BY <3>1
    <3> QED BY <3>2 DEF BarsOf
  <2>2. /\ pc' = "idle" /\ db' = db \union BarsOf(received)
        /\ UNCHANGED <<start, end, size, received, status, rows, calls, early>>
    BY <1>2 DEF insert_records, requestVars
  <2>3. TypeOK'
    BY <1>0, <2>1, <2>2 DEF TypeOK
  <2>4. RequestInv'
    BY <2>2 DEF RequestInv
  <2> QED BY <1>0, <2>2, <2>3, <2>4, JoinedStays DEF DataInv
<1>3. CASE loop_ends
  <2>1. pc' = "done" /\ UNCHANGED <<start, end, size, received, status, rows, db, calls, early>>
    BY <1>3 DEF loop_ends, Return, requestVars
  <2>2. TypeOK' /\ RequestInv'
    BY <1>0, <2>1 DEF TypeOK, RequestInv
  <2> QED BY <1>0, <2>1, <2>2, JoinedStays DEF DataInv
<1>4. CASE req_historical_data
  <2>1. /\ pc = "loop" /\ end > start /\ pc' = "wait" /\ status' = "SENDED" /\ rows' = {}
        /\ UNCHANGED <<start, end, size, received, db, calls, early>>
    BY <1>4 DEF req_historical_data
  <2>2. size # None
    BY <1>0, <2>1 DEF RequestInv
  <2>3. TypeOK'
    BY <1>0, <2>1, <2>2 DEF TypeOK
  <2>4. RequestInv'
    BY <2>1, <2>2 DEF RequestInv
  <2> QED BY <1>0, <2>1, <2>3, <2>4, JoinedStays DEF DataInv
<1>5. CASE pack_received
  <2>1. pc' = "loop" /\ UNCHANGED size /\ size # None
    BY <1>0, <1>5 DEF pack_received, NextRound, RequestInv
  <2>2. RequestInv'
    BY <2>1 DEF RequestInv
  <2> QED BY <1>5, <2>2, PackJoins DEF DataInv
<1>6. CASE ErrorRead
  <2>1. /\ pc' \in {"loop", "done", "failed"}
        /\ UNCHANGED <<start, received, status, rows, db, calls>>
        /\ size' \in {Big, Small, None} /\ (pc' = "loop" => size' # None)
        /\ end' \in Int /\ (received # Empty => end' = end)
    BY <1>6, Errors DEF requestVars
  <2>3. early' \subseteq [from : Int, to : Int, accepted : BOOLEAN]
    BY <1>6, Errors, StopsTypes
  <2>2. TypeOK' /\ RequestInv'
    BY <1>0, <2>1, <2>3 DEF TypeOK, RequestInv
  <2> QED BY <1>0, <2>1, <2>2, JoinedStays DEF DataInv
<1>7. CASE handle_historical_data
  <2>1. /\ pc = "wait" /\ status' = "RECEIVING DATA" /\ rows' = Pack /\ Pack # {}
        /\ UNCHANGED <<pc, start, end, size, received, db, calls, early>>
    BY <1>7 DEF handle_historical_data
  <2>2. Pack' = Pack /\ Pack \subseteq Bars
    BY <2>1 DEF Pack, Between
  <2>3. TypeOK' /\ RequestInv'
    BY <1>0, <2>1, <2>2 DEF TypeOK, RequestInv
  <2> QED BY <1>0, <2>1, <2>3, JoinedStays DEF DataInv
<1>8. CASE data_ready
  <2>1. /\ pc = "wait" /\ status = "RECEIVING DATA" /\ status' = "FINISHED"
        /\ UNCHANGED <<pc, start, end, size, received, rows, db, calls, early>>
    BY <1>8 DEF data_ready
  <2>2. Pack' = Pack
    BY <2>1 DEF Pack, Between
  <2>3. TypeOK' /\ RequestInv'
    BY <1>0, <2>1, <2>2 DEF TypeOK, RequestInv
  <2> QED BY <1>0, <2>1, <2>3, JoinedStays DEF DataInv
<1>9. CASE handle_error
  <2>1. /\ pc = "wait" /\ status' = "ERROR"
        /\ error' = "no data" => Pack = {}
        /\ error' = "exceeded max lookback" => end - size < Lookback
        /\ UNCHANGED <<pc, start, end, size, received, rows, db, calls, early>>
    BY <1>9 DEF handle_error, Fails
  <2>2. Pack' = Pack
    BY <2>1 DEF Pack, Between
  <2>3. TypeOK' /\ RequestInv'
    BY <1>0, <2>1, <2>2 DEF TypeOK, RequestInv
  <2> QED BY <1>0, <2>1, <2>3, JoinedStays DEF DataInv
<1>10. CASE UNCHANGED vars
  <2>1. TypeOK' /\ RequestInv' /\ Joined'
    BY <1>0, <1>10 DEF vars, requestVars, TypeOK, RequestInv, Joined, InOrder, Pack, Between
  <2> QED BY <2>1 DEF DataInv
<1> QED
  BY <1>1, <1>2, <1>3, <1>4, <1>5, <1>6, <1>7, <1>8, <1>9, <1>10 DEF Next, historical_data, ErrorRead

LEMMA DownloadsAreDownloads == [DownloadNext]_allVars => [Next]_vars
BY DEF DownloadNext, request_allowed_check, send_request, read_answer, Unpaced, tick, Next, historical_data,
       allVars

-----------------------------------------------------------------------------
(* The database.                                                           *)

(* Where a download stopped with bars, and that is excused.                *)
Excused(e) == e.accepted \/ NothingBefore(e.to)
EarlyAt(a, t) == \E e \in early : e.from = a /\ e.to = t /\ Excused(e)

(* An update asks from the last entry on and goes on until it has met that *)
(* entry, or stops for a reason.                                           *)
MeetsDb ==
  /\ db # {} /\ pc \in {"loop", "wait", "done"} =>
       /\ start = SetMax(db)
       /\ received # Empty => received[Len(received)] >= start
  /\ pc = "done" /\ received # Empty => end <= start \/ EarlyAt(start, end)

LEMMA MeetsStays ==
  ASSUME MeetsDb, UNCHANGED <<db, start, size, received, end, early>>,
         pc' = pc \/ pc' \in {"idle", "failed"} \/ (pc = "loop" /\ pc' = "wait")
  PROVE  MeetsDb'
BY DEF MeetsDb, EarlyAt, Excused, NothingBefore, Between

(* Without an answer the download stops only where there is nothing before. *)
LEMMA NothingLeft ==
  ASSUME DataInv, ErrorRead, received # Empty, pc' = "done"
  PROVE  EarlyAt(start, end)'
<1>1. /\ TypeOK /\ RequestInv /\ pc = "wait" /\ size # None /\ size \in {Big, Small} /\ end \in Int
      /\ UNCHANGED <<start, received>> /\ end' = end
  BY Errors DEF DataInv, RequestInv, TypeOK
<1>2. ASSUME Pack = {} PROVE NothingBefore(end)
  <2>1. Between(end - Small, end) \subseteq Pack
    <3>1. size \in Nat /\ Small <= size
      BY <1>1, Numbers
    <3>2. ASSUME NEW b \in Bars, end - Small <= b PROVE end - size <= b
      BY <1>1, <3>1, <3>2, Numbers, BarsAreEven
    <3> QED BY <3>2 DEF Between, Pack
  <2> QED BY <1>2, <2>1 DEF NothingBefore
<1>3. ASSUME Stops(TRUE) PROVE EarlyAt(start, end)'
  <2>1. [from |-> start, to |-> end, accepted |-> TRUE] \in early'
    BY <1>1, <1>3 DEF Stops
  <2> QED BY <1>1, <2>1 DEF EarlyAt, Excused
<1>4. ASSUME Stops(FALSE), NothingBefore(end) PROVE EarlyAt(start, end)'
  <2>1. [from |-> start, to |-> end, accepted |-> FALSE] \in early'
    BY <1>1, <1>4 DEF Stops
  <2>2. NothingBefore(end')
    BY <1>1, <1>4
  <2> QED BY <1>1, <2>1, <2>2 DEF EarlyAt, Excused, NothingBefore, Between
<1>5. CASE pacing_violation
  <2>1. end \in LastDay /\ Stops(FALSE)
    BY <1>1, <1>5 DEF pacing_violation, NoData, NextRound
  <2> QED BY <1>4, <2>1 DEF NothingBefore
<1>6. CASE exceeded_max_lookback
  <2>1. end - size < Lookback /\ Stops(FALSE)
    BY <1>1, <1>6 DEF exceeded_max_lookback, Error, RequestInv, NoData
  <2>2. end \in LastDay \/ size = Small
    <3>1. end \in LastDay \/ reduce_request_size(size) = None
      BY <1>1, <1>6 DEF exceeded_max_lookback, NoData, NextRound
    <3> QED BY <1>1, <3>1, Numbers DEF reduce_request_size, None
  <2> QED BY <1>4, <2>1, <2>2 DEF NothingBefore
<1>7. CASE query_returned_no_data
  <2>1. Pack = {} /\ Stops(FALSE)
    BY <1>1, <1>7 DEF query_returned_no_data, Error, RequestInv
  <2> QED BY <1>2, <1>4, <2>1
<1>8. CASE request_error
  <2>1. Stops(TRUE) \/ (end \in LastDay /\ Stops(FALSE))
    BY <1>1, <1>8 DEF request_error, NoData, NextRound
  <2> QED BY <1>3, <1>4, <2>1 DEF NothingBefore
<1> QED BY <1>5, <1>6, <1>7, <1>8 DEF ErrorRead

LEMMA MeetsStep ==
  ASSUME DataInv, MeetsDb, [Next]_vars
  PROVE  MeetsDb'
<1>0. TypeOK /\ RequestInv /\ Joined
  BY DEF DataInv
<1>1. CASE historical_data_to_db
  BY <1>1 DEF historical_data_to_db, MeetsDb
<1>2. CASE insert_records
  BY <1>2 DEF insert_records, MeetsDb
<1>3. CASE loop_ends
  BY <1>3 DEF loop_ends, Return, MeetsDb
<1>4. CASE req_historical_data
  BY <1>4, MeetsStays DEF req_historical_data
<1>5. CASE pack_received
  <2>1. /\ pc = "wait" /\ pc' = "loop" /\ UNCHANGED <<start, size, db>>
    BY <1>5 DEF pack_received, NextRound
  <2> SUFFICES ASSUME db # {} PROVE received'[Len(received')] >= start
    BY <2>1 DEF MeetsDb
  <2>2. CASE received # Empty
    <3>1. received'[Len(received')] = received[Len(received)]
      BY <1>5, <2>2, PackJoins
    <3> QED BY <2>1, <2>2, <3>1 DEF MeetsDb
  <2>3. CASE received = Empty
    <3>1. received'[Len(received')] = SetMax(rows)
      BY <1>5, <2>3, PackJoins
    <3>2. rows = Pack /\ rows # {} /\ rows \in SUBSET Bars
      BY <1>0, <1>5, <2>1 DEF pack_received, RequestInv, TypeOK
    <3>3. SetMax(rows) \in rows /\ \A b \in rows : SetMax(rows) >= b
      BY <3>2, LastBar
    <3>4. start \in Bars /\ end > start /\ end \in Int /\ size \in Nat
      <4>1. start = SetMax(db) /\ db \in SUBSET Bars
        BY <1>0, <2>1 DEF MeetsDb, TypeOK
      <4>2. start \in Bars
        BY <4>1, LastBar
      <4> QED BY <1>0, <2>1, <4>2, SizeIsNumber DEF TypeOK, RequestInv
    <3>5. SetMax(rows) \in Nat /\ start \in Nat /\ SetMax(rows) >= end - size
      BY <3>2, <3>3, <3>4, BarsAreEven DEF Pack, Between
    <3>6. CASE start >= end - size
      <4>1. start \in rows
        BY <3>2, <3>4, <3>5, <3>6 DEF Pack, Between
      <4> QED BY <3>1, <3>3, <4>1
    <3> QED BY <3>1, <3>4, <3>5, <3>6
  <2> QED BY <2>2, <2>3
<1>6. CASE ErrorRead
  <2>1. /\ pc = "wait" /\ pc' \in {"loop", "done", "failed"} /\ UNCHANGED <<start, received, db>>
    BY <1>6, Errors
  <2>2. pc' = "done" /\ received # Empty => EarlyAt(start, end)'
    BY <1>6, NothingLeft
  <2> QED BY <2>1, <2>2 DEF MeetsDb
<1>7. CASE handle_historical_data \/ data_ready \/ handle_error
  BY <1>7, MeetsStays DEF handle_historical_data, data_ready, handle_error
<1>8. CASE UNCHANGED vars
  BY <1>8, MeetsStays DEF vars, requestVars
<1> QED
  BY <1>1, <1>2, <1>3, <1>4, <1>5, <1>6, <1>7, <1>8 DEF Next, historical_data, ErrorRead

(* The holes of a set of bars, over any two of its bars, but for those in E. *)
HolesBut(S, E, first, last) ==
  \A b \in Bars : first <= b /\ b <= last => b \in S \/ b + 2 \in S \/ b \in E
NoWideHoles(S, E) == \A a, c \in S : HolesBut(S, E, a, c)

LEMMA HolesOfSet ==
  ASSUME NEW S \in SUBSET Bars, S # {}, NEW E
  PROVE  (\A b \in Between(SetMin(S), SetMax(S)) : {b, b + 2} \intersect S # {} \/ b \in E) <=> NoWideHoles(S, E)
<1>1. \A b \in Bars : b \in Nat
  BY BarsAreEven
<1> DEFINE f == SetMin(S)
           l == SetMax(S)
<1>2. f \in S /\ l \in S /\ \A b \in S : f <= b /\ b <= l
  <2>1. \A b \in S : f <= b /\ l >= b
    BY <1>1, FirstBar, LastBar
  <2>2. f \in S /\ l \in S
    BY <1>1, FirstBar, LastBar
  <2> HIDE DEF f, l
  <2> QED BY <1>1, <2>1, <2>2
<1> HIDE DEF f, l
<1>3. ASSUME \A b \in Between(f, l) : {b, b + 2} \intersect S # {} \/ b \in E
      PROVE  NoWideHoles(S, E)
  <2> SUFFICES ASSUME NEW a \in S, NEW c \in S, NEW b \in Bars, a <= b, b <= c
               PROVE  b \in S \/ b + 2 \in S \/ b \in E
    BY DEF NoWideHoles, HolesBut
  <2>1. a \in Nat /\ b \in Nat /\ c \in Nat /\ f \in Nat /\ l \in Nat /\ f <= a /\ c <= l
    BY <1>1, <1>2
  <2>2. b = l \/ b \in Between(f, l)
    BY <2>1 DEF Between
  <2> QED BY <1>2, <1>3, <2>2
<1>4. ASSUME NoWideHoles(S, E), NEW b \in Between(f, l)
      PROVE  {b, b + 2} \intersect S # {} \/ b \in E
  <2>1. b \in Bars /\ f <= b /\ b <= l
    BY <1>1, <1>2 DEF Between
  <2>2. b \in S \/ b + 2 \in S \/ b \in E
    BY <1>2, <1>4, <2>1 DEF NoWideHoles, HolesBut
  <2> QED BY <2>2
<1> QED BY <1>3, <1>4 DEF f, l

(* Two such sets, the second reaching at least as far: they meet, or what   *)
(* is between the first and the start of the second is in E.               *)
LEMMA HolesOfUnion ==
  ASSUME NEW S \in SUBSET Bars, NEW T \in SUBSET Bars, NEW r \in T, NEW q \in T, NEW m \in S, NEW E,
         NoWideHoles(S, E), OneBarHoles(T, r, q),
         \A b \in T : r <= b /\ b <= q, \A b \in S : b <= m,
         m <= q, \A b \in Bars : m < b /\ b < r - 3 => b \in E
  PROVE  NoWideHoles(S \union T, E)
<1> SUFFICES ASSUME NEW a \in S \union T, NEW c \in S \union T, NEW b \in Bars, a <= b, b <= c,
                    b \notin S \union T, b \notin E
             PROVE  b + 2 \in S \union T
  BY DEF NoWideHoles, HolesBut
<1>1. /\ a \in Nat /\ b \in Nat /\ c \in Nat /\ r \in Nat /\ q \in Nat /\ m \in Nat
      /\ r \in Bars /\ m \in Bars
  BY BarsAreEven
<1>2. CASE r <= b
  <2>1. b <= q
    BY <1>1
  <2> QED BY <1>2, <2>1 DEF OneBarHoles
<1>3. CASE b < r
  <2>1. a \in S
    BY <1>1, <1>3
  <2>2. CASE b <= m
    BY <2>1, <2>2 DEF NoWideHoles, HolesBut
  <2>3. CASE m < b
    <3>1. b >= r - 3
      BY <1>1, <2>3
    <3>2. b + 2 = r
      BY <1>1, <1>3, <3>1, NotBetween
    <3> QED BY <3>2
  <2> QED BY <1>1, <2>2, <2>3
<1> QED BY <1>1, <1>2, <1>3

(* The bars before which some download stopped.                            *)
StoppedBars == {b \in Bars : StoppedBefore(b)}

LEMMA HolesStep ==
  ASSUME DataInv, MeetsDb, DbHolesAreOneBar, [Next]_vars
  PROVE  DbHolesAreOneBar'
<1>0. TypeOK /\ Joined /\ TypeOK'
  BY DataStep DEF DataInv
<1>1. ASSUME insert_records PROVE NoWideHoles(db', StoppedBars)
  <2>1. /\ pc = "done" /\ db' = db \union BarsOf(received)
        /\ db \in SUBSET Bars /\ received \in Seq(Bars)
    BY <1>0, <1>1 DEF insert_records, TypeOK
  <2>2. NoWideHoles(db, StoppedBars)
    <3>1. CASE db = {}
      BY <3>1 DEF NoWideHoles
    <3>2. CASE db # {}
      <4>1. \A b \in Between(SetMin(db), SetMax(db)) : {b, b + 2} \intersect db # {} \/ b \in StoppedBars
        BY <3>2 DEF DbHolesAreOneBar, StoppedBars, Between
      <4> QED BY <2>1, <3>2, <4>1, HolesOfSet
    <3> QED BY <3>1, <3>2
  <2>3. CASE received = Empty
    <3>1. BarsOf(received) = {}
      BY <2>3 DEF BarsOf, Empty
    <3> QED BY <2>1, <2>2, <3>1
  <2>4. CASE received # Empty
    <3> DEFINE T == BarsOf(received)
               r == received[1]
               q == received[Len(received)]
    <3>1. T \in SUBSET Bars /\ r \in T /\ q \in T /\ \A b \in T : r <= b /\ b <= q
      <4>1. 1 \in 1..Len(received) /\ Len(received) \in 1..Len(received)
        BY <2>1, <2>4 DEF Empty
      <4>2. ASSUME NEW i \in 1..Len(received)
            PROVE  received[i] \in Bars /\ received[1] <= received[i] /\ received[i] <= received[Len(received)]
        <5>1. received[1] \in Nat /\ received[i] \in Nat /\ received[Len(received)] \in Nat
              /\ received[i] \in Bars
          <6>1. /\ received[1] \in Bars /\ received[i] \in Bars /\ received[Len(received)] \in Bars
            BY <2>1, <4>1
          <6> QED BY <6>1, BarsAreEven
        <5>2. i # 1 => received[1] < received[i]
          BY <1>0, <2>1, <4>1 DEF Joined, InOrder
        <5>3. i # Len(received) => received[i] < received[Len(received)]
          BY <1>0, <2>1, <4>1 DEF Joined, InOrder
        <5> QED BY <5>1, <5>2, <5>3
      <4> QED BY <2>1, <4>1, <4>2 DEF BarsOf
    <3>2. OneBarHoles(T, r, q) /\ end = r - 3
      BY <1>0, <2>4 DEF Joined
    <3> HIDE DEF T, r, q
    <3>3. CASE db = {}
      <4>1. ASSUME NEW a \in T, NEW c \in T, NEW b \in Bars, a <= b, b <= c
            PROVE  b \in T \/ b + 2 \in T
        <5>1. a \in Nat /\ b \in Nat /\ c \in Nat /\ r \in Nat /\ q \in Nat
          BY <3>1, BarsAreEven
        <5>2. r <= b /\ b <= q
          BY <3>1, <4>1, <5>1
        <5> QED BY <3>2, <5>2 DEF OneBarHoles
      <4>2. db' = T
        BY <2>1, <3>3 DEF T
      <4> QED BY <4>1, <4>2 DEF NoWideHoles, HolesBut
    <3>4. CASE db # {}
      <4>1. /\ start = SetMax(db) /\ q >= start /\ (end <= start \/ EarlyAt(start, end))
        BY <2>1, <2>4, <3>4 DEF MeetsDb, q
      <4>2. start \in db /\ \A b \in db : start >= b
        BY <2>1, <3>4, <4>1, LastBar
      <4>3. /\ \A b \in db : b <= start
            /\ start <= q
        <5>1. start \in Nat /\ q \in Nat /\ \A b \in db : b \in Nat
          BY <2>1, <3>1, <4>2, BarsAreEven
        <5> QED BY <4>1, <4>2, <5>1
      <4>4. ASSUME NEW b \in Bars, start < b, b < r - 3 PROVE b \in StoppedBars
        <5>1. start \in Nat /\ b \in Nat /\ r \in Nat
          BY <2>1, <3>1, <4>2, BarsAreEven
        <5>2. EarlyAt(start, end)
          BY <3>2, <4>1, <4>4, <5>1
        <5> QED BY <3>2, <4>4, <5>2 DEF EarlyAt, Excused, StoppedBars, StoppedBefore
      <4>5. NoWideHoles(db \union T, StoppedBars)
        BY <2>1, <2>2, <3>1, <3>2, <4>2, <4>3, <4>4, HolesOfUnion
      <4> QED BY <2>1, <4>5 DEF T
    <3> QED BY <3>3, <3>4
  <2> QED BY <2>3, <2>4
<1>2. CASE insert_records
  <2>1. early' = early
    BY <1>2 DEF insert_records
  <2>2. db' \in SUBSET Bars
    BY <1>0 DEF TypeOK
  <2>3. db' # {} => \A b \in Between(SetMin(db'), SetMax(db')) : {b, b + 2} \intersect db' # {} \/ b \in StoppedBars
    BY <1>1, <1>2, <2>2, HolesOfSet
  <2> QED BY <2>1, <2>3 DEF DbHolesAreOneBar, StoppedBars, StoppedBefore, NothingBefore, Between, SetMin, SetMax
<1>3. CASE UNCHANGED db /\ early \subseteq early'
  BY <1>3 DEF DbHolesAreOneBar, StoppedBefore, NothingBefore, Between, SetMin, SetMax
<1>4. insert_records \/ (UNCHANGED db /\ early \subseteq early')
  <2>1. ErrorRead => UNCHANGED db /\ early \subseteq early'
    BY Errors, StopsTypes
  <2> QED BY <2>1 DEF Next, historical_data, historical_data_to_db, loop_ends, req_historical_data, pack_received,
         ErrorRead, handle_historical_data, data_ready, handle_error, vars
<1> QED BY <1>2, <1>3, <1>4

-----------------------------------------------------------------------------
(* Types of the pacing: the log is in order and ends with the origin of    *)
(* time, which is past when the next request is sent.                      *)
LogInv ==
  /\ \A i, j \in 1..Len(log) : i < j => log[i] < log[j]
  /\ log # <<>> => log[Len(log)] = 0
  /\ at # "answer" /\ log # <<>> => now > 0

LEMMA LogSent ==
  ASSUME PacingInv, LogInv, P!request_sended PROVE LogInv'
<1>1. /\ at = "send" /\ at' = "answer" /\ log' = P!LastOf(P!noted(log), Limit + 1)
  BY DEF P!request_sended
<1>2. log \in Seq(Int) /\ now \in Nat /\ Limit \in Nat /\ Limit + 1 \in Nat
  BY PacingAssumption DEF P!PacingAssumption, PacingInv, RemembersLast, PastInv
<1> DEFINE s == P!noted(log)
           n == Len(log)
           k == n + 1 - Len(log')
<1>3. /\ s \in Seq(Int) /\ Len(s) = n + 1 /\ s[n + 1] = 0
      /\ \A i \in 1..n : s[i] = log[i] - now
  BY <1>2, NotedAppends
<1>4. log' = P!LastOf(s, Limit + 1)
  BY <1>1
<1> HIDE DEF s
<1>5. /\ log' \in Seq(Int) /\ Len(log') = IF n + 1 <= Limit + 1 THEN n + 1 ELSE Limit + 1
      /\ \A i \in 1..Len(log') : log'[i] = s[k + i]
  <2>1. /\ log' \in Seq(Int) /\ Len(log') = IF Len(s) <= Limit + 1 THEN Len(s) ELSE Limit + 1
        /\ \A i \in 1..Len(log') : log'[i] = s[Len(s) - Len(log') + i]
    BY <1>2, <1>3, <1>4, LastOfIsSuffix
  <2>2. n \in Nat /\ Len(log') \in Nat
    BY <1>2, <2>1
  <2>3. Len(s) - Len(log') = k
    BY <1>3, <2>2
  <2> HIDE DEF n, k
  <2> QED BY <1>3, <2>1, <2>3
<1>6. n \in Nat /\ k \in Nat /\ Len(log') \in Nat /\ k + Len(log') = n + 1 /\ Len(log') > 0
  BY <1>2, <1>5
<1>7. \A i, j \in 1..n + 1 : i < j => s[i] < s[j]
  <2> SUFFICES ASSUME NEW i \in 1..n + 1, NEW j \in 1..n + 1, i < j PROVE s[i] < s[j]
    OBVIOUS
  <2>1. i \in 1..n /\ log[i] \in Int
    BY <1>2, <1>6
  <2>2. CASE j = n + 1
    <3>1. log[i] <= log[n] /\ log[n] = 0 /\ now > 0
      <4>1. n \in 1..n /\ log # <<>>
        BY <1>2, <2>1
      <4>2. i # n => log[i] < log[n]
        BY <2>1, <4>1 DEF LogInv
      <4> QED BY <1>1, <2>1, <4>1, <4>2 DEF LogInv
    <3> QED BY <1>2, <1>3, <2>1, <2>2, <3>1
  <2>3. CASE j # n + 1
    <3>1. j \in 1..n /\ log[j] \in Int
      BY <1>2, <1>6, <2>3
    <3>2. log[i] < log[j]
      BY <2>1, <3>1 DEF LogInv
    <3> QED BY <1>2, <1>3, <2>1, <3>1, <3>2
  <2> QED BY <2>2, <2>3
<1> HIDE DEF n, k
<1>8. ASSUME NEW i \in 1..Len(log'), NEW j \in 1..Len(log'), i < j PROVE log'[i] < log'[j]
  <2>1. k + i \in 1..n + 1 /\ k + j \in 1..n + 1 /\ k + i < k + j
    BY <1>6, <1>8
  <2>2. s[k + i] < s[k + j]
    BY <1>7, <2>1
  <2> QED BY <1>5, <2>2
<1>9. log'[Len(log')] = 0
  <2>1. Len(log') \in 1..Len(log')
    BY <1>6
  <2> QED BY <1>3, <1>5, <1>6, <2>1
<1> QED BY <1>1, <1>8, <1>9 DEF LogInv

LEMMA LogStep ==
  ASSUME PacingInv, LogInv, [DownloadNext]_allVars
  PROVE  LogInv'
<1>1. ASSUME request_allowed_check PROVE LogInv'
  BY <1>1 DEF request_allowed_check, P!remove_outdated_data, P!request_allowed, P!sleep, LogInv
<1>2. ASSUME send_request PROVE LogInv'
  BY <1>2, LogSent DEF send_request
<1>3. ASSUME read_answer PROVE LogInv'
  BY <1>3 DEF read_answer, P!get_historical_request_data, LogInv
<1>4. ASSUME tick PROVE LogInv'
  <2>1. UNCHANGED <<at, log>> /\ now' = now + 1
    BY <1>4 DEF tick, P!tick
  <2>2. now \in Nat
    BY DEF PacingInv, PastInv
  <2> QED BY <2>1, <2>2 DEF LogInv
<1>5. ASSUME UNCHANGED pacingVars PROVE LogInv'
  BY <1>5 DEF pacingVars, LogInv
<1> QED BY <1>1, <1>2, <1>3, <1>4, <1>5 DEF DownloadNext, Unpaced, allVars

LEMMA PacingTypes ==
  ASSUME PacingInv, LogInv PROVE P!TypeOK
<1>1. /\ log \in Seq(Int) /\ sended_requests \in Seq(Int) /\ Len(sended_requests) <= Len(log)
      /\ \A i \in 1..Len(sended_requests) :
           sended_requests[i] = log[Len(log) - Len(sended_requests) + i]
      /\ now \in Nat /\ wake \in Nat
      /\ at \in {"idle", "count", "sleep", "send", "answer"}
  BY DEF PacingInv, RemembersLast, PastInv, Remembered, Forgotten
<1>2. sended_requests = P!LastOf(log, Len(sended_requests))
  <2> DEFINE t == P!LastOf(log, Len(sended_requests))
  <2>1. Len(sended_requests) \in Nat
    BY <1>1
  <2>2. /\ t \in Seq(Int)
        /\ Len(t) = IF Len(log) <= Len(sended_requests) THEN Len(log) ELSE Len(sended_requests)
        /\ \A i \in 1..Len(t) : t[i] = log[Len(log) - Len(t) + i]
    BY <1>1, <2>1, LastOfIsSuffix
  <2> HIDE DEF t
  <2>3. Len(t) = Len(sended_requests)
    BY <1>1, <2>2
  <2>4. \A i \in 1..Len(t) : t[i] = sended_requests[i]
    BY <1>1, <2>2, <2>3
  <2>5. t = sended_requests
    BY <1>1, <2>2, <2>3, <2>4, SeqEqual
  <2> QED BY <2>5 DEF t
<1>3. \A i \in 1..Len(log) - 1 : log[i] < log[i + 1]
  <2> SUFFICES ASSUME NEW i \in 1..Len(log) - 1 PROVE log[i] < log[i + 1]
    OBVIOUS
  <2>1. i \in 1..Len(log) /\ i + 1 \in 1..Len(log) /\ i < i + 1
    BY <1>1
  <2> QED BY <2>1 DEF LogInv
<1> QED BY <1>1, <1>2, <1>3 DEF P!TypeOK

-----------------------------------------------------------------------------
(* The bars historical_data has received (historicaldata_new.py:197-258)   *)
(* are in order, none twice, and of two that follow each other in the      *)
(* market one was received, while a download goes on: for every market,    *)
(* size of a pack, look back and sequence of errors.                       *)
THEOREM PacksJoin == DownloadSpec => []Joined
<1>1. DownloadInit => DataInv
  BY DataStarts DEF DownloadInit
<1>2. DataInv /\ [DownloadNext]_allVars => DataInv'
  BY DataStep, DownloadsAreDownloads
<1>3. DataInv => Joined
  BY DEF DataInv
<1> QED BY <1>1, <1>2, <1>3, PTL DEF DownloadSpec

(* The packs of a download fit together, and the database it fills and     *)
(* updates has no hole larger than one bar but where an update stopped, on  *)
(* a market that had been closed for as long as a pack, at the end of the   *)
(* look back or on an error the user accepted (historical_data_to_db,       *)
(* historicaldata_new.py:180-200, 299-330), for every market and however    *)
(* the requests are cut, paced, refused and repeated.                       *)
THEOREM PacksFitTogether == DownloadSpec => []PacksFit
<1> DEFINE IInv == DataInv /\ MeetsDb /\ DbHolesAreOneBar /\ PacingInv /\ LogInv
<1>1. DownloadInit => IInv
  <2> SUFFICES ASSUME DownloadInit PROVE IInv
    OBVIOUS
  <2>1. DataInv /\ PacingInv
    BY DataStarts, PacingInit DEF DownloadInit
  <2>2. MeetsDb /\ DbHolesAreOneBar
    BY DEF DownloadInit, Init, MeetsDb, DbHolesAreOneBar
  <2>3. LogInv
    BY DEF DownloadInit, P!Init, LogInv
  <2> QED BY <2>1, <2>2, <2>3
<1>2. IInv /\ [DownloadNext]_allVars => IInv'
  BY DataStep, MeetsStep, HolesStep, PacingStep, LogStep, DownloadsAreDownloads
<1>3. IInv => PacksFit
  BY PacingTypes DEF DataInv, Joined, PacksFit, DownloadTypeOK
<1> QED BY <1>1, <1>2, <1>3, PTL DEF DownloadSpec
=============================================================================
