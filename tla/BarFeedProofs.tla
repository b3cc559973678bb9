---------------------------- MODULE BarFeedProofs ----------------------------
(* FeedInv with NoLostWakeup is inductive: one feed thread per condition,  *)
(* one thread in the with block of a condition, and no bar published       *)
(* behind the back of a subscriber that is about to wait.                  *)
EXTENDS BarFeed, TLAPS

(* Every step keeps the types. *)
LEMMA FeedTypes == TypeOK /\ ThreadsFit /\ [Next]_vars => TypeOK'
<1> SUFFICES ASSUME TypeOK /\ ThreadsFit, [Next]_vars PROVE TypeOK'
  OBVIOUS
<1> USE FeedAssumption DEF TypeOK, ThreadsFit, Orphaned, FeedStates, SubStates, Inside, nameVars, slotVars, linkVars, twsVars, feedVars, subVars
<1>1. CASE send_bar
  BY <1>1 DEF send_bar
<1>2. ASSUME NEW c \in Clients, subscribe(c) PROVE TypeOK'
  BY <1>2 DEF subscribe
<1>3. ASSUME NEW c \in Clients, client_gone(c) PROVE TypeOK'
  BY <1>3 DEF client_gone, FreeLock
<1>4. ASSUME NEW c \in Clients, has_condition(c) PROVE TypeOK'
  <2>1. CASE condition = 0
    BY <1>4, <2>1 DEF has_condition, Sub
  <2>2. CASE condition # 0
    BY <1>4, <2>2 DEF has_condition, Sub
  <2>3. QED
    BY <1>4, <2>1, <2>2
<1>5. ASSUME NEW c \in Clients, enter(c) PROVE TypeOK'
  <2>1. CASE condition = 0
    BY <1>5, <2>1 DEF enter, Sub
  <2>2. CASE condition # 0
    <3>1. condition \in 1..MaxFeeds
      BY <2>2
    <3>2. sub' = [sub EXCEPT ![c] = "acquire"] /\ mine' = [mine EXCEPT ![c] = condition]
      BY <1>5, <2>2 DEF enter, Sub
    <3>3. QED
      BY <1>5, <3>1, <3>2 DEF enter
  <2>3. QED
    BY <1>5, <2>1, <2>2
<1>6. ASSUME NEW c \in Clients, wait(c) PROVE TypeOK'
  <2>1. CASE condition = mine[c]
    BY <1>6, <2>1 DEF wait, Sub, FreeLock
  <2>2. CASE condition # mine[c]
    BY <1>6, <2>2 DEF wait, Sub, FreeLock
  <2>3. QED
    BY <1>6, <2>1, <2>2
<1>7. ASSUME NEW c \in Clients, wake(c) \/ wake_timeout(c) PROVE TypeOK'
  <2>1. CASE wake(c)
    BY <1>7, <2>1 DEF wake, wake_timeout, Acquire, Sub
  <2>2. CASE wake_timeout(c)
    BY <1>7, <2>2 DEF wake, wake_timeout, Acquire, Sub
  <2>3. QED
    BY <1>7, <2>1, <2>2
<1>8. ASSUME NEW c \in Clients, read_slot(c) PROVE TypeOK'
  <2>1. CASE slot = 0 \/ slot = old[c]
    BY <1>8, <2>1 DEF read_slot, Sub, FreeLock
  <2>2. CASE ~(slot = 0 \/ slot = old[c])
    BY <1>8, <2>2 DEF read_slot, Sub, FreeLock
  <2>3. QED
    BY <1>8, <2>1, <2>2
<1>9. ASSUME NEW c \in Clients, send(c) PROVE TypeOK'
  BY <1>9 DEF send, Sub
<1>10. ASSUME NEW c \in Clients, add_condition(c) PROVE TypeOK'
  <2>1. CASE condition = 0
    <3>1. feeds' = feeds + 1 /\ condition' = feeds + 1 /\ feeds < MaxFeeds /\ sub' = sub
          /\ feed' = [feed EXCEPT ![c] = "request"]
      BY <1>10, <2>1 DEF add_condition, Feed
    <3>2. QED
      BY <1>10, <3>1 DEF add_condition
  <2>2. CASE condition # 0
    BY <1>10, <2>2 DEF add_condition, Feed, Done
  <2>3. QED
    BY <1>10, <2>1, <2>2
<1>11. ASSUME NEW c \in Clients, req_real_time_bars(c) PROVE TypeOK'
  <2>1. /\ feed' = [feed EXCEPT ![c] = "init"] /\ request' = c /\ arrived' = <<>> /\ failed' = FALSE
        /\ UNCHANGED <<nameVars, slotVars, sent, connected, bar, idle, dropped, subVars>>
    BY <1>11 DEF req_real_time_bars, Feed
  <2>2. feed' \in [Clients -> FeedStates] /\ arrived' \in Seq(1..MaxBars)
    BY <2>1
  <2>3. QED
    BY <2>1, <2>2
<1>12. ASSUME NEW c \in Clients, request_raises(c) PROVE TypeOK'
  BY <1>12 DEF request_raises, Feed
<1>13. ASSUME NEW c \in Clients, init_slot(c) PROVE TypeOK'
  <2>1. sub' = [sub EXCEPT ![c] = "enter"] /\ feed' = [feed EXCEPT ![c] = "bar"]
        /\ idle' = [idle EXCEPT ![c] = 0]
    BY <1>13 DEF init_slot, Feed, Done
  <2>2. idle' \in [Clients -> 0..IdleLimit]
    <3>1. 0 \in 0..IdleLimit /\ idle \in [Clients -> 0..IdleLimit]
      OBVIOUS
    <3>2. QED
      BY <2>1, <3>1
  <2>3. sub' \in [Clients -> SubStates] /\ feed' \in [Clients -> FeedStates]
    BY <2>1
  <2>4. /\ slot' = 0 /\ used' = FALSE
        /\ UNCHANGED <<condition, feeds, lock, request, arrived, sent, bar, mine, notified, old, connected, failed>>
    BY <1>13 DEF init_slot
  <2>5. 0 \in 0..MaxBars /\ FALSE \in BOOLEAN
    OBVIOUS
  <2>6. /\ slot' \in 0..MaxBars /\ used' \in BOOLEAN /\ condition' \in 0..feeds' /\ feeds' \in 0..MaxFeeds
    BY <2>4, <2>5
  <2>7. QED
    BY <2>2, <2>3, <2>4, <2>6
<1>14. ASSUME NEW c \in Clients, real_bar_from(c) PROVE TypeOK'
  BY <1>14 DEF real_bar_from, Feed
<1>15. ASSUME NEW c \in Clients, feed_timeout(c) PROVE TypeOK'
  BY <1>15 DEF feed_timeout, Feed
<1>16. ASSUME NEW c \in Clients, key_used_for_reading(c) PROVE TypeOK'
  <2>1. idle[c] \in 0..IdleLimit /\ idle[c] < IdleLimit
    BY <1>16 DEF key_used_for_reading
  <2>2. idle' = [idle EXCEPT ![c] = IF used THEN 0 ELSE idle[c] + 1]
    BY <1>16 DEF key_used_for_reading
  <2>3. idle' \in [Clients -> 0..IdleLimit]
    BY <2>1, <2>2
  <2>4. feed' = [feed EXCEPT ![c] = "cancel"] \/ feed' = [feed EXCEPT ![c] = "publish"]
    BY <1>16 DEF key_used_for_reading, Feed
  <2>5. feed' \in [Clients -> FeedStates]
    BY <2>4
  <2>6. QED
    BY <1>16, <2>3, <2>5 DEF key_used_for_reading
<1>17. ASSUME NEW c \in Clients, publish(c) PROVE TypeOK'
  BY <1>17 DEF publish, Feed
<1>18. ASSUME NEW c \in Clients, stop_real_time_bars(c) PROVE TypeOK'
  BY <1>18 DEF stop_real_time_bars, Feed
<1>19. ASSUME NEW c \in Clients, remove_condition(c) PROVE TypeOK'
  BY <1>19 DEF remove_condition, Feed
<1>20. CASE send_error \/ lose_connection
  BY <1>20 DEF send_error, lose_connection
<1>21. ASSUME NEW c \in Clients, blocks(c) \/ reads_on(c) PROVE TypeOK'
  BY <1>21 DEF blocks, reads_on, Sub
<1>22. ASSUME NEW c \in Clients, is_connected(c) PROVE TypeOK'
  BY <1>22 DEF is_connected, Sub
<1>23. ASSUME NEW c \in Clients, acquire(c) PROVE TypeOK'
  BY <1>23 DEF acquire, Acquire, Sub
<1>24. ASSUME NEW c \in Clients, stop_raises(c) PROVE TypeOK'
  BY <1>24 DEF stop_raises, Feed
<1>25. CASE UNCHANGED vars
  BY <1>25 DEF vars
<1>26. QED
  BY <1>1, <1>2, <1>3, <1>4, <1>5, <1>6, <1>7, <1>8, <1>9, <1>10, <1>11, <1>12, <1>13, <1>14, <1>15, <1>16, <1>17, <1>18, <1>19, <1>25,
     <1>20, <1>21, <1>22, <1>23, <1>24
     DEF Next, Subscriber, FeedThread

(* A thread outside a with block, or inside it, goes on where it is.       *)
LEMMA LockKept ==
  ASSUME TypeOK, LockIsMine, NEW c \in Clients, NEW x, sub[c] \in Inside <=> x \in Inside,
         sub' = [sub EXCEPT ![c] = x], UNCHANGED <<lock, mine>>
  PROVE  LockIsMine'
  BY DEF TypeOK, LockIsMine

(* A thread that leaves a with block frees its lock. *)
LEMMA LockLeft ==
  ASSUME TypeOK, LockIsMine, NEW c \in Clients, NEW x, x \notin Inside,
         sub' = [sub EXCEPT ![c] = x], mine' = mine, FreeLock(c)
  PROVE  LockIsMine'
<1>1. \A k \in 1..MaxFeeds : lock'[k] = IF lock[k] = c THEN Nobody ELSE lock[k]
  BY DEF FreeLock, TypeOK
<1>2. sub'[c] = x /\ \A d \in Clients : d # c => sub'[d] = sub[d]
  BY DEF TypeOK
<1>3. QED
  BY <1>1, <1>2, FeedAssumption DEF LockIsMine

(* A thread enters with a lock that nobody holds. *)
LEMMA LockTaken ==
  ASSUME TypeOK, LockIsMine, NEW c \in Clients, sub[c] \notin Inside, NEW x \in Inside,
         NEW k \in 1..MaxFeeds, mine[c] = k, mine' = mine,
         sub' = [sub EXCEPT ![c] = x], lock[k] = Nobody, lock' = [lock EXCEPT ![k] = c]
  PROVE  LockIsMine'
<1>1. sub'[c] = x /\ \A d \in Clients : d # c => sub'[d] = sub[d]
  BY DEF TypeOK
<1>2. \A l \in 1..MaxFeeds : lock'[l] = IF l = k THEN c ELSE lock[l]
  BY DEF TypeOK
<1>3. \A l \in 1..MaxFeeds : lock[l] # c
  BY DEF LockIsMine
<1>4. \A d \in Clients : ~(sub[d] \in Inside /\ mine[d] = k)
  BY FeedAssumption DEF LockIsMine
<1>5. QED
  BY <1>1, <1>2, <1>3, <1>4 DEF LockIsMine

(* In every step the thread that holds a lock is the one in the with block. *)
LEMMA LockStep == TypeOK /\ ThreadsFit /\ LockIsMine /\ [Next]_vars => LockIsMine'
<1> SUFFICES ASSUME TypeOK, ThreadsFit, LockIsMine, [Next]_vars PROVE LockIsMine'
  OBVIOUS
<1>1. CASE UNCHANGED <<lock, sub, mine>>
  BY <1>1 DEF LockIsMine
<1>2. ASSUME NEW c \in Clients,
             subscribe(c) \/ is_connected(c) \/ has_condition(c) \/ (enter(c) /\ condition = 0)
      PROVE  LockIsMine'
  <2>1. UNCHANGED <<lock, mine>>
    BY <1>2 DEF subscribe, is_connected, has_condition, enter, nameVars, subVars
  <2>2. sub[c] \notin Inside
    BY <1>2 DEF subscribe, is_connected, has_condition, enter, Sub, Inside
  <2>3. PICK x : x \notin Inside /\ sub' = [sub EXCEPT ![c] = x]
    BY <1>2 DEF subscribe, is_connected, has_condition, enter, Sub, Inside
  <2>4. QED
    BY <2>1, <2>2, <2>3, LockKept
<1>3. ASSUME NEW c \in Clients, enter(c), condition # 0 PROVE LockIsMine'
  <2>1. /\ sub[c] = "enter" /\ sub' = [sub EXCEPT ![c] = "acquire"] /\ lock' = lock
        /\ mine' = [mine EXCEPT ![c] = condition]
    BY <1>3 DEF enter, Sub, nameVars
  <2>2. sub[c] \notin Inside /\ sub'[c] \notin Inside
    BY <2>1 DEF TypeOK, Inside
  <2>3. QED
    BY <2>1, <2>2 DEF LockIsMine, TypeOK
<1>4. ASSUME NEW c \in Clients, NEW from, NEW to \in Inside, sub[c] \in {"acquire", "waiting"},
             Acquire(c, from, to)
      PROVE  LockIsMine'
  <2>1. mine[c] \in 1..MaxFeeds
    BY <1>4 DEF TypeOK, ThreadsFit
  <2>2. /\ sub' = [sub EXCEPT ![c] = to] /\ mine' = mine
        /\ lock[mine[c]] = Nobody /\ lock' = [lock EXCEPT ![mine[c]] = c]
    BY <1>4 DEF Acquire, Sub
  <2>3. sub[c] \notin Inside
    BY <1>4 DEF Inside
  <2>4. QED
    BY <2>1, <2>2, <2>3, LockTaken
<1>5. ASSUME NEW c \in Clients, wait(c) \/ client_gone(c) \/ (read_slot(c) /\ (slot = 0 \/ slot = old[c]))
      PROVE  LockIsMine'
  <2>1. FreeLock(c) /\ mine' = mine
    BY <1>5 DEF wait, client_gone, read_slot
  <2>2. PICK x : x \notin Inside /\ sub' = [sub EXCEPT ![c] = x]
    BY <1>5 DEF wait, client_gone, read_slot, Sub, Inside
  <2>3. QED
    BY <2>1, <2>2, LockLeft
<1>6. ASSUME NEW c \in Clients,
             send(c) \/ blocks(c) \/ reads_on(c) \/ (read_slot(c) /\ ~(slot = 0 \/ slot = old[c]))
      PROVE  LockIsMine'
  <2>1. UNCHANGED <<lock, mine>>
    BY <1>6 DEF send, blocks, reads_on, read_slot, nameVars
  <2>2. sub[c] \in Inside
    BY <1>6 DEF send, blocks, reads_on, read_slot, Sub, Inside
  <2>3. PICK x : x \in Inside /\ sub' = [sub EXCEPT ![c] = x]
    BY <1>6 DEF send, blocks, reads_on, read_slot, Sub, Inside
  <2>4. QED
    BY <2>1, <2>2, <2>3, LockKept
<1>7. ASSUME NEW c \in Clients, add_condition(c) \/ init_slot(c) \/ request_raises(c) PROVE LockIsMine'
  <2>1. UNCHANGED <<lock, mine>>
    BY <1>7 DEF add_condition, init_slot, request_raises, nameVars
  <2>2. sub[c] \notin Inside
    BY <1>7 DEF add_condition, init_slot, request_raises, Feed, ThreadsFit, Inside
  <2>3. CASE sub' = sub
    BY <1>1, <2>1, <2>3
  <2>4. CASE sub' # sub
    <3>1. PICK x : x \notin Inside /\ sub' = [sub EXCEPT ![c] = x]
      BY <1>7, <2>4 DEF add_condition, init_slot, request_raises, Done, Inside
    <3>2. QED
      BY <2>1, <2>2, <3>1, LockKept
  <2>5. QED
    BY <2>3, <2>4
<1>8. ASSUME NEW c \in Clients,
             req_real_time_bars(c) \/ real_bar_from(c) \/ feed_timeout(c) \/ key_used_for_reading(c)
               \/ publish(c) \/ stop_real_time_bars(c) \/ stop_raises(c) \/ remove_condition(c)
      PROVE  LockIsMine'
  BY <1>1, <1>8 DEF req_real_time_bars, real_bar_from, feed_timeout, key_used_for_reading, publish,
     stop_real_time_bars, stop_raises, remove_condition, nameVars, subVars
<1>9. CASE send_bar \/ send_error \/ lose_connection \/ UNCHANGED vars
  BY <1>1, <1>9 DEF send_bar, send_error, lose_connection, vars, nameVars, subVars
<1>10. ASSUME NEW c \in Clients, acquire(c) \/ wake(c) \/ wake_timeout(c) PROVE LockIsMine'
  <2>1. CASE acquire(c)
    BY <1>4, <2>1 DEF acquire, Acquire, Sub, Inside
  <2>2. CASE wake(c) \/ wake_timeout(c)
    BY <1>4, <2>2 DEF wake, wake_timeout, Acquire, Sub, Inside
  <2>3. QED
    BY <1>10, <2>1, <2>2
<1>11. QED
  BY <1>2, <1>3, <1>5, <1>6, <1>7, <1>8, <1>9, <1>10
     DEF Next, Subscriber, FeedThread

(* The check for a condition and the making of it are one step, so no     *)
(* second thread becomes a feed (add_condition).                           *)
LEMMA OneStep == TypeOK /\ ThreadsFit /\ OneFeed /\ [Next]_vars => OneFeed'
<1> SUFFICES ASSUME TypeOK /\ ThreadsFit /\ OneFeed, [Next]_vars PROVE OneFeed'
  OBVIOUS
<1> USE FeedAssumption DEF TypeOK, ThreadsFit, Orphaned, OneFeed, Feeding, FeedStates, nameVars, slotVars, linkVars, twsVars, feedVars, subVars
<1>1. CASE send_bar
  BY <1>1 DEF send_bar
<1>2. ASSUME NEW c \in Clients, subscribe(c) PROVE OneFeed'
  BY <1>2 DEF subscribe
<1>3. ASSUME NEW c \in Clients, client_gone(c) PROVE OneFeed'
  BY <1>3 DEF client_gone, FreeLock
<1>4. ASSUME NEW c \in Clients, has_condition(c) PROVE OneFeed'
  <2>1. CASE condition = 0
    BY <1>4, <2>1 DEF has_condition, Sub
  <2>2. CASE condition # 0
    BY <1>4, <2>2 DEF has_condition, Sub
  <2>3. QED
    BY <1>4, <2>1, <2>2
<1>5. ASSUME NEW c \in Clients, enter(c) PROVE OneFeed'
  <2>1. CASE condition = 0
    BY <1>5, <2>1 DEF enter, Sub
  <2>2. CASE condition # 0
    BY <1>5, <2>2 DEF enter, Sub
  <2>3. QED
    BY <1>5, <2>1, <2>2
<1>6. ASSUME NEW c \in Clients, wait(c) PROVE OneFeed'
  <2>1. CASE condition = mine[c]
    BY <1>6, <2>1 DEF wait, Sub, FreeLock
  <2>2. CASE condition # mine[c]
    BY <1>6, <2>2 DEF wait, Sub, FreeLock
  <2>3. QED
    BY <1>6, <2>1, <2>2
<1>7. ASSUME NEW c \in Clients, wake(c) \/ wake_timeout(c) PROVE OneFeed'
  <2>1. CASE wake(c)
    BY <1>7, <2>1 DEF wake, wake_timeout, Acquire, Sub
  <2>2. CASE wake_timeout(c)
    BY <1>7, <2>2 DEF wake, wake_timeout, Acquire, Sub
  <2>3. QED
    BY <1>7, <2>1, <2>2
<1>8. ASSUME NEW c \in Clients, read_slot(c) PROVE OneFeed'
  <2>1. CASE slot = 0 \/ slot = old[c]
    BY <1>8, <2>1 DEF read_slot, Sub, FreeLock
  <2>2. CASE ~(slot = 0 \/ slot = old[c])
    BY <1>8, <2>2 DEF read_slot, Sub, FreeLock
  <2>3. QED
    BY <1>8, <2>1, <2>2
<1>9. ASSUME NEW c \in Clients, send(c) PROVE OneFeed'
  BY <1>9 DEF send, Sub
<1>10. ASSUME NEW c \in Clients, add_condition(c) PROVE OneFeed'
  <2>1. CASE condition = 0
    BY <1>10, <2>1 DEF add_condition, Feed, Done
  <2>2. CASE condition # 0
    <3>1. feed' = [feed EXCEPT ![c] = "none"]
      BY <1>10, <2>2 DEF add_condition, Feed
    <3>2. QED
      BY <3>1
  <2>3. QED
    BY <1>10, <2>1, <2>2
<1>11. ASSUME NEW c \in Clients, req_real_time_bars(c) PROVE OneFeed'
  BY <1>11 DEF req_real_time_bars, Feed
<1>12. ASSUME NEW c \in Clients, request_raises(c) PROVE OneFeed'
  BY <1>12 DEF request_raises, Feed
<1>13. ASSUME NEW c \in Clients, init_slot(c) PROVE OneFeed'
  BY <1>13 DEF init_slot, Feed, Done
<1>14. ASSUME NEW c \in Clients, real_bar_from(c) PROVE OneFeed'
  BY <1>14 DEF real_bar_from, Feed
<1>15. ASSUME NEW c \in Clients, feed_timeout(c) PROVE OneFeed'
  BY <1>15 DEF feed_timeout, Feed
<1>16. ASSUME NEW c \in Clients, key_used_for_reading(c) PROVE OneFeed'
  <2>1. CASE idle'[c] >= IdleLimit
    BY <1>16, <2>1 DEF key_used_for_reading, Feed
  <2>2. CASE ~(idle'[c] >= IdleLimit)
    BY <1>16, <2>2 DEF key_used_for_reading, Feed
  <2>3. QED
    BY <1>16, <2>1, <2>2
<1>17. ASSUME NEW c \in Clients, publish(c) PROVE OneFeed'
  BY <1>17 DEF publish, Feed
<1>18. ASSUME NEW c \in Clients, stop_real_time_bars(c) PROVE OneFeed'
  BY <1>18 DEF stop_real_time_bars, Feed
<1>19. ASSUME NEW c \in Clients, remove_condition(c) PROVE OneFeed'
  BY <1>19 DEF remove_condition, Feed
<1>20. CASE send_error \/ lose_connection
  BY <1>20 DEF send_error, lose_connection
<1>21. ASSUME NEW c \in Clients, blocks(c) \/ reads_on(c) PROVE OneFeed'
  BY <1>21 DEF blocks, reads_on, Sub
<1>22. ASSUME NEW c \in Clients, is_connected(c) PROVE OneFeed'
  BY <1>22 DEF is_connected, Sub
<1>23. ASSUME NEW c \in Clients, acquire(c) PROVE OneFeed'
  BY <1>23 DEF acquire, Acquire, Sub
<1>24. ASSUME NEW c \in Clients, stop_raises(c) PROVE OneFeed'
  BY <1>24 DEF stop_raises, Feed
<1>25. CASE UNCHANGED vars
  BY <1>25 DEF vars
<1>26. QED
  BY <1>1, <1>2, <1>3, <1>4, <1>5, <1>6, <1>7, <1>8, <1>9, <1>10, <1>11, <1>12, <1>13, <1>14, <1>15, <1>16, <1>17, <1>18, <1>19, <1>25,
     <1>20, <1>21, <1>22, <1>23, <1>24
     DEF Next, Subscriber, FeedThread

(* The request the gateway answers is the one of the feed thread.          *)
LEMMA RequestStep == TypeOK /\ ThreadsFit /\ OneFeed /\ RequestsAreRead /\ [Next]_vars => RequestsAreRead'
<1> SUFFICES ASSUME TypeOK /\ ThreadsFit /\ OneFeed /\ RequestsAreRead, [Next]_vars PROVE RequestsAreRead'
  OBVIOUS
<1> USE FeedAssumption DEF TypeOK, OneFeed, RequestsAreRead, Feeding, FeedStates, nameVars, slotVars, linkVars, twsVars, feedVars, subVars
<1>1. CASE send_bar
  BY <1>1 DEF send_bar
<1>2. ASSUME NEW c \in Clients, subscribe(c) PROVE RequestsAreRead'
  BY <1>2 DEF subscribe
<1>3. ASSUME NEW c \in Clients, client_gone(c) PROVE RequestsAreRead'
  BY <1>3 DEF client_gone, FreeLock
<1>4. ASSUME NEW c \in Clients, has_condition(c) PROVE RequestsAreRead'
  <2>1. CASE condition = 0
    BY <1>4, <2>1 DEF has_condition, Sub, ThreadsFit
  <2>2. CASE condition # 0
    BY <1>4, <2>2 DEF has_condition, Sub
  <2>3. QED
    BY <1>4, <2>1, <2>2
<1>5. ASSUME NEW c \in Clients, enter(c) PROVE RequestsAreRead'
  <2>1. CASE condition = 0
    BY <1>5, <2>1 DEF enter, Sub
  <2>2. CASE condition # 0
    BY <1>5, <2>2 DEF enter, Sub
  <2>3. QED
    BY <1>5, <2>1, <2>2
<1>6. ASSUME NEW c \in Clients, wait(c) PROVE RequestsAreRead'
  <2>1. CASE condition = mine[c]
    BY <1>6, <2>1 DEF wait, Sub, FreeLock
  <2>2. CASE condition # mine[c]
    BY <1>6, <2>2 DEF wait, Sub, FreeLock
  <2>3. QED
    BY <1>6, <2>1, <2>2
<1>7. ASSUME NEW c \in Clients, wake(c) \/ wake_timeout(c) PROVE RequestsAreRead'
  <2>1. CASE wake(c)
    BY <1>7, <2>1 DEF wake, wake_timeout, Acquire, Sub
  <2>2. CASE wake_timeout(c)
    BY <1>7, <2>2 DEF wake, wake_timeout, Acquire, Sub
  <2>3. QED
    BY <1>7, <2>1, <2>2
<1>8. ASSUME NEW c \in Clients, read_slot(c) PROVE RequestsAreRead'
  <2>1. CASE slot = 0 \/ slot = old[c]
    BY <1>8, <2>1 DEF read_slot, Sub, FreeLock
  <2>2. CASE ~(slot = 0 \/ slot = old[c])
    BY <1>8, <2>2 DEF read_slot, Sub, FreeLock
  <2>3. QED
    BY <1>8, <2>1, <2>2
<1>9. ASSUME NEW c \in Clients, send(c) PROVE RequestsAreRead'
  BY <1>9 DEF send, Sub
<1>10. ASSUME NEW c \in Clients, add_condition(c) PROVE RequestsAreRead'
  <2>1. CASE condition = 0
    BY <1>10, <2>1 DEF add_condition, Feed, Done
  <2>2. CASE condition # 0
    BY <1>10, <2>2 DEF add_condition, Feed, Done
  <2>3. QED
    BY <1>10, <2>1, <2>2
<1>11. ASSUME NEW c \in Clients, req_real_time_bars(c) PROVE RequestsAreRead'
  BY <1>11 DEF req_real_time_bars, Feed
<1>12. ASSUME NEW c \in Clients, request_raises(c) PROVE RequestsAreRead'
  BY <1>12 DEF request_raises, Feed
<1>13. ASSUME NEW c \in Clients, init_slot(c) PROVE RequestsAreRead'
  BY <1>13 DEF init_slot, Feed, Done
<1>14. ASSUME NEW c \in Clients, real_bar_from(c) PROVE RequestsAreRead'
  BY <1>14 DEF real_bar_from, Feed
<1>15. ASSUME NEW c \in Clients, feed_timeout(c) PROVE RequestsAreRead'
  BY <1>15 DEF feed_timeout, Feed
<1>16. ASSUME NEW c \in Clients, key_used_for_reading(c) PROVE RequestsAreRead'
  <2>1. CASE idle'[c] >= IdleLimit
    BY <1>16, <2>1 DEF key_used_for_reading, Feed
  <2>2. CASE ~(idle'[c] >= IdleLimit)
    BY <1>16, <2>2 DEF key_used_for_reading, Feed
  <2>3. QED
    BY <1>16, <2>1, <2>2
<1>17. ASSUME NEW c \in Clients, publish(c) PROVE RequestsAreRead'
  BY <1>17 DEF publish, Feed
<1>18. ASSUME NEW c \in Clients, stop_real_time_bars(c) PROVE RequestsAreRead'
  BY <1>18 DEF stop_real_time_bars, Feed
<1>19. ASSUME NEW c \in Clients, remove_condition(c) PROVE RequestsAreRead'
  BY <1>19 DEF remove_condition, Feed
<1>20. CASE send_error \/ lose_connection
  BY <1>20 DEF send_error, lose_connection
<1>21. ASSUME NEW c \in Clients, blocks(c) \/ reads_on(c) PROVE RequestsAreRead'
  BY <1>21 DEF blocks, reads_on, Sub
<1>22. ASSUME NEW c \in Clients, is_connected(c) PROVE RequestsAreRead'
  BY <1>22 DEF is_connected, Sub
<1>23. ASSUME NEW c \in Clients, acquire(c) PROVE RequestsAreRead'
  BY <1>23 DEF acquire, Acquire, Sub
<1>24. ASSUME NEW c \in Clients, stop_raises(c) PROVE RequestsAreRead'
  BY <1>24 DEF stop_raises, Feed
<1>25. CASE UNCHANGED vars
  BY <1>25 DEF vars
<1>26. QED
  BY <1>1, <1>2, <1>3, <1>4, <1>5, <1>6, <1>7, <1>8, <1>9, <1>10, <1>11, <1>12, <1>13, <1>14, <1>15, <1>16, <1>17, <1>18, <1>19, <1>25,
     <1>20, <1>21, <1>22, <1>23, <1>24
     DEF Next, Subscriber, FeedThread

(* A condition goes with its feed, unless the request raised.              *)
LEMMA ConditionStep == TypeOK /\ ThreadsFit /\ OneFeed /\ FeedBehindCondition /\ RaisedKeepsCondition /\ [Next]_vars => (FeedBehindCondition /\ RaisedKeepsCondition)'
<1> SUFFICES ASSUME TypeOK /\ ThreadsFit /\ OneFeed /\ FeedBehindCondition /\ RaisedKeepsCondition, [Next]_vars PROVE (FeedBehindCondition /\ RaisedKeepsCondition)'
  OBVIOUS
<1> USE FeedAssumption DEF TypeOK, ThreadsFit, FeedBehindCondition, Orphaned, RaisedKeepsCondition, OneFeed, Feeding, FeedStates, nameVars, slotVars, linkVars, twsVars, feedVars, subVars
<1>1. CASE send_bar
  BY <1>1 DEF send_bar
<1>2. ASSUME NEW c \in Clients, subscribe(c) PROVE (FeedBehindCondition /\ RaisedKeepsCondition)'
  BY <1>2 DEF subscribe
<1>3. ASSUME NEW c \in Clients, client_gone(c) PROVE (FeedBehindCondition /\ RaisedKeepsCondition)'
  BY <1>3 DEF client_gone, FreeLock
<1>4. ASSUME NEW c \in Clients, has_condition(c) PROVE (FeedBehindCondition /\ RaisedKeepsCondition)'
  <2>1. CASE condition = 0
    BY <1>4, <2>1 DEF has_condition, Sub
  <2>2. CASE condition # 0
    BY <1>4, <2>2 DEF has_condition, Sub
  <2>3. QED
    BY <1>4, <2>1, <2>2
<1>5. ASSUME NEW c \in Clients, enter(c) PROVE (FeedBehindCondition /\ RaisedKeepsCondition)'
  <2>1. CASE condition = 0
    BY <1>5, <2>1 DEF enter, Sub
  <2>2. CASE condition # 0
    BY <1>5, <2>2 DEF enter, Sub
  <2>3. QED
    BY <1>5, <2>1, <2>2
<1>6. ASSUME NEW c \in Clients, wait(c) PROVE (FeedBehindCondition /\ RaisedKeepsCondition)'
  <2>1. CASE condition = mine[c]
    BY <1>6, <2>1 DEF wait, Sub, FreeLock
  <2>2. CASE condition # mine[c]
    BY <1>6, <2>2 DEF wait, Sub, FreeLock
  <2>3. QED
    BY <1>6, <2>1, <2>2
<1>7. ASSUME NEW c \in Clients, wake(c) \/ wake_timeout(c) PROVE (FeedBehindCondition /\ RaisedKeepsCondition)'
  <2>1. CASE wake(c)
    BY <1>7, <2>1 DEF wake, wake_timeout, Acquire, Sub
  <2>2. CASE wake_timeout(c)
    BY <1>7, <2>2 DEF wake, wake_timeout, Acquire, Sub
  <2>3. QED
    BY <1>7, <2>1, <2>2
<1>8. ASSUME NEW c \in Clients, read_slot(c) PROVE (FeedBehindCondition /\ RaisedKeepsCondition)'
  <2>1. CASE slot = 0 \/ slot = old[c]
    BY <1>8, <2>1 DEF read_slot, Sub, FreeLock
  <2>2. CASE ~(slot = 0 \/ slot = old[c])
    BY <1>8, <2>2 DEF read_slot, Sub, FreeLock
  <2>3. QED
    BY <1>8, <2>1, <2>2
<1>9. ASSUME NEW c \in Clients, send(c) PROVE (FeedBehindCondition /\ RaisedKeepsCondition)'
  BY <1>9 DEF send, Sub
<1>10. ASSUME NEW c \in Clients, add_condition(c) PROVE (FeedBehindCondition /\ RaisedKeepsCondition)'
  <2>1. CASE condition = 0
    BY <1>10, <2>1 DEF add_condition, Feed, Done
  <2>2. CASE condition # 0
    BY <1>10, <2>2 DEF add_condition, Feed, Done
  <2>3. QED
    BY <1>10, <2>1, <2>2
<1>11. ASSUME NEW c \in Clients, req_real_time_bars(c) PROVE (FeedBehindCondition /\ RaisedKeepsCondition)'
  BY <1>11 DEF req_real_time_bars, Feed
<1>12. ASSUME NEW c \in Clients, request_raises(c) PROVE (FeedBehindCondition /\ RaisedKeepsCondition)'
  BY <1>12 DEF request_raises, Feed
<1>13. ASSUME NEW c \in Clients, init_slot(c) PROVE (FeedBehindCondition /\ RaisedKeepsCondition)'
  BY <1>13 DEF init_slot, Feed, Done
<1>14. ASSUME NEW c \in Clients, real_bar_from(c) PROVE (FeedBehindCondition /\ RaisedKeepsCondition)'
  BY <1>14 DEF real_bar_from, Feed
<1>15. ASSUME NEW c \in Clients, feed_timeout(c) PROVE (FeedBehindCondition /\ RaisedKeepsCondition)'
  BY <1>15 DEF feed_timeout, Feed
<1>16. ASSUME NEW c \in Clients, key_used_for_reading(c) PROVE (FeedBehindCondition /\ RaisedKeepsCondition)'
  <2>1. CASE idle'[c] >= IdleLimit
    BY <1>16, <2>1 DEF key_used_for_reading, Feed
  <2>2. CASE ~(idle'[c] >= IdleLimit)
    BY <1>16, <2>2 DEF key_used_for_reading, Feed
  <2>3. QED
    BY <1>16, <2>1, <2>2
<1>17. ASSUME NEW c \in Clients, publish(c) PROVE (FeedBehindCondition /\ RaisedKeepsCondition)'
  BY <1>17 DEF publish, Feed
<1>18. ASSUME NEW c \in Clients, stop_real_time_bars(c) PROVE (FeedBehindCondition /\ RaisedKeepsCondition)'
  BY <1>18 DEF stop_real_time_bars, Feed
<1>19. ASSUME NEW c \in Clients, remove_condition(c) PROVE (FeedBehindCondition /\ RaisedKeepsCondition)'
  BY <1>19 DEF remove_condition, Feed
<1>20. CASE send_error \/ lose_connection
  BY <1>20 DEF send_error, lose_connection
<1>21. ASSUME NEW c \in Clients, blocks(c) \/ reads_on(c) PROVE (FeedBehindCondition /\ RaisedKeepsCondition)'
  BY <1>21 DEF blocks, reads_on, Sub
<1>22. ASSUME NEW c \in Clients, is_connected(c) PROVE (FeedBehindCondition /\ RaisedKeepsCondition)'
  BY <1>22 DEF is_connected, Sub
<1>23. ASSUME NEW c \in Clients, acquire(c) PROVE (FeedBehindCondition /\ RaisedKeepsCondition)'
  BY <1>23 DEF acquire, Acquire, Sub
<1>24. ASSUME NEW c \in Clients, stop_raises(c) PROVE (FeedBehindCondition /\ RaisedKeepsCondition)'
  BY <1>24 DEF stop_raises, Feed
<1>25. CASE UNCHANGED vars
  BY <1>25 DEF vars
<1>26. QED
  BY <1>1, <1>2, <1>3, <1>4, <1>5, <1>6, <1>7, <1>8, <1>9, <1>10, <1>11, <1>12, <1>13, <1>14, <1>15, <1>16, <1>17, <1>18, <1>19, <1>25,
     <1>20, <1>21, <1>22, <1>23, <1>24
     DEF Next, Subscriber, FeedThread

(* A bar is published only while no subscriber is between read and wait.   *)
LEMMA WakeStep == TypeOK /\ ThreadsFit /\ NoLostWakeup /\ [Next]_vars => NoLostWakeup'
<1> SUFFICES ASSUME TypeOK /\ ThreadsFit /\ NoLostWakeup, [Next]_vars PROVE NoLostWakeup'
  OBVIOUS
<1> USE FeedAssumption DEF TypeOK, ThreadsFit, Orphaned, NoLostWakeup, SubStates, Inside, nameVars, slotVars, linkVars, twsVars, feedVars, subVars
<1>1. CASE send_bar
  BY <1>1 DEF send_bar
<1>2. ASSUME NEW c \in Clients, subscribe(c) PROVE NoLostWakeup'
  BY <1>2 DEF subscribe
<1>3. ASSUME NEW c \in Clients, client_gone(c) PROVE NoLostWakeup'
  BY <1>3 DEF client_gone, FreeLock
<1>4. ASSUME NEW c \in Clients, has_condition(c) PROVE NoLostWakeup'
  <2>1. CASE condition = 0
    BY <1>4, <2>1 DEF has_condition, Sub
  <2>2. CASE condition # 0
    BY <1>4, <2>2 DEF has_condition, Sub
  <2>3. QED
    BY <1>4, <2>1, <2>2
<1>5. ASSUME NEW c \in Clients, enter(c) PROVE NoLostWakeup'
  <2>1. CASE condition = 0
    BY <1>5, <2>1 DEF enter, Sub
  <2>2. CASE condition # 0
    BY <1>5, <2>2 DEF enter, Sub
  <2>3. QED
    BY <1>5, <2>1, <2>2
<1>6. ASSUME NEW c \in Clients, wait(c) PROVE NoLostWakeup'
  <2>1. CASE condition = mine[c]
    BY <1>6, <2>1 DEF wait, Sub, FreeLock
  <2>2. CASE condition # mine[c]
    BY <1>6, <2>2 DEF wait, Sub, FreeLock
  <2>3. QED
    BY <1>6, <2>1, <2>2
<1>7. ASSUME NEW c \in Clients, wake(c) \/ wake_timeout(c) PROVE NoLostWakeup'
  <2>1. CASE wake(c)
    BY <1>7, <2>1 DEF wake, wake_timeout, Acquire, Sub
  <2>2. CASE wake_timeout(c)
    BY <1>7, <2>2 DEF wake, wake_timeout, Acquire, Sub
  <2>3. QED
    BY <1>7, <2>1, <2>2
<1>8. ASSUME NEW c \in Clients, read_slot(c) PROVE NoLostWakeup'
  <2>1. CASE slot = 0 \/ slot = old[c]
    BY <1>8, <2>1 DEF read_slot, Sub, FreeLock
  <2>2. CASE ~(slot = 0 \/ slot = old[c])
    BY <1>8, <2>2 DEF read_slot, Sub, FreeLock
  <2>3. QED
    BY <1>8, <2>1, <2>2
<1>9. ASSUME NEW c \in Clients, send(c) PROVE NoLostWakeup'
  BY <1>9 DEF send, Sub
<1>10. ASSUME NEW c \in Clients, add_condition(c) PROVE NoLostWakeup'
  <2>1. CASE condition = 0
    BY <1>10, <2>1 DEF add_condition, Feed, Done
  <2>2. CASE condition # 0
    BY <1>10, <2>2 DEF add_condition, Feed, Done
  <2>3. QED
    BY <1>10, <2>1, <2>2
<1>11. ASSUME NEW c \in Clients, req_real_time_bars(c) PROVE NoLostWakeup'
  BY <1>11 DEF req_real_time_bars, Feed
<1>12. ASSUME NEW c \in Clients, request_raises(c) PROVE NoLostWakeup'
  BY <1>12 DEF request_raises, Feed
<1>13. ASSUME NEW c \in Clients, init_slot(c) PROVE NoLostWakeup'
  BY <1>13 DEF init_slot, Feed, Done
<1>14. ASSUME NEW c \in Clients, real_bar_from(c) PROVE NoLostWakeup'
  BY <1>14 DEF real_bar_from, Feed
<1>15. ASSUME NEW c \in Clients, feed_timeout(c) PROVE NoLostWakeup'
  BY <1>15 DEF feed_timeout, Feed
<1>16. ASSUME NEW c \in Clients, key_used_for_reading(c) PROVE NoLostWakeup'
  <2>1. CASE idle'[c] >= IdleLimit
    BY <1>16, <2>1 DEF key_used_for_reading, Feed
  <2>2. CASE ~(idle'[c] >= IdleLimit)
    BY <1>16, <2>2 DEF key_used_for_reading, Feed
  <2>3. QED
    BY <1>16, <2>1, <2>2
<1>17. ASSUME NEW c \in Clients, publish(c) PROVE NoLostWakeup'
  BY <1>17 DEF publish, Feed
<1>18. ASSUME NEW c \in Clients, stop_real_time_bars(c) PROVE NoLostWakeup'
  BY <1>18 DEF stop_real_time_bars, Feed
<1>19. ASSUME NEW c \in Clients, remove_condition(c) PROVE NoLostWakeup'
  BY <1>19 DEF remove_condition, Feed
<1>20. CASE send_error \/ lose_connection
  BY <1>20 DEF send_error, lose_connection
<1>21. ASSUME NEW c \in Clients, blocks(c) \/ reads_on(c) PROVE NoLostWakeup'
  BY <1>21 DEF blocks, reads_on, Sub
<1>22. ASSUME NEW c \in Clients, is_connected(c) PROVE NoLostWakeup'
  BY <1>22 DEF is_connected, Sub
<1>23. ASSUME NEW c \in Clients, acquire(c) PROVE NoLostWakeup'
  BY <1>23 DEF acquire, Acquire, Sub
<1>24. ASSUME NEW c \in Clients, stop_raises(c) PROVE NoLostWakeup'
  BY <1>24 DEF stop_raises, Feed
<1>25. CASE UNCHANGED vars
  BY <1>25 DEF vars
<1>26. QED
  BY <1>1, <1>2, <1>3, <1>4, <1>5, <1>6, <1>7, <1>8, <1>9, <1>10, <1>11, <1>12, <1>13, <1>14, <1>15, <1>16, <1>17, <1>18, <1>19, <1>25,
     <1>20, <1>21, <1>22, <1>23, <1>24
     DEF Next, Subscriber, FeedThread

(* The threads of a client stay where the others expect them.              *)
LEMMA ThreadsStep == TypeOK /\ LockIsMine /\ OneFeed /\ RaisedKeepsCondition /\ ThreadsFit /\ [Next]_vars => ThreadsFit'
<1> SUFFICES ASSUME TypeOK /\ LockIsMine /\ OneFeed /\ RaisedKeepsCondition /\ ThreadsFit, [Next]_vars PROVE ThreadsFit'
  OBVIOUS
<1> USE FeedAssumption DEF TypeOK, ThreadsFit, Orphaned, LockIsMine, OneFeed, RaisedKeepsCondition, Feeding, FeedStates, SubStates, Inside, nameVars, slotVars, linkVars, twsVars, feedVars, subVars
<1>1. CASE send_bar
  BY <1>1 DEF send_bar
<1>2. ASSUME NEW c \in Clients, subscribe(c) PROVE ThreadsFit'
  BY <1>2 DEF subscribe
<1>3. ASSUME NEW c \in Clients, client_gone(c) PROVE ThreadsFit'
  BY <1>3 DEF client_gone, FreeLock
<1>4. ASSUME NEW c \in Clients, has_condition(c) PROVE ThreadsFit'
  <2>1. CASE condition = 0
    BY <1>4, <2>1 DEF has_condition, Sub
  <2>2. CASE condition # 0
    BY <1>4, <2>2 DEF has_condition, Sub
  <2>3. QED
    BY <1>4, <2>1, <2>2
<1>5. ASSUME NEW c \in Clients, enter(c) PROVE ThreadsFit'
  <2>1. CASE condition = 0
    BY <1>5, <2>1 DEF enter, Sub
  <2>2. CASE condition # 0
    <3>1. sub[c] = "enter" /\ sub' = [sub EXCEPT ![c] = "acquire"] /\ mine' = [mine EXCEPT ![c] = condition]
          /\ UNCHANGED <<condition, feeds, slot, feed, idle, dropped, old>>
      BY <1>5, <2>2 DEF enter, Sub
    <3>2. old[c] = 0 /\ feed[c] \notin {"add", "request", "init"} /\ condition <= feeds
      BY <3>1
    <3>3. ThreadsFit!(c)'
      BY <3>1, <3>2, <2>2
    <3>4. ASSUME NEW d \in Clients, d # c PROVE ThreadsFit!(d)'
      BY <3>1, <3>4
    <3>5. QED
      BY <3>3, <3>4
  <2>3. QED
    BY <1>5, <2>1, <2>2
<1>6. ASSUME NEW c \in Clients, wait(c) PROVE ThreadsFit'
  <2>1. CASE condition = mine[c]
    BY <1>6, <2>1 DEF wait, Sub, FreeLock
  <2>2. CASE condition # mine[c]
    BY <1>6, <2>2 DEF wait, Sub, FreeLock
  <2>3. QED
    BY <1>6, <2>1, <2>2
<1>7. ASSUME NEW c \in Clients, wake(c) \/ wake_timeout(c) PROVE ThreadsFit'
  <2>1. CASE wake(c)
    BY <1>7, <2>1 DEF wake, wake_timeout, Acquire, Sub
  <2>2. CASE wake_timeout(c)
    BY <1>7, <2>2 DEF wake, wake_timeout, Acquire, Sub
  <2>3. QED
    BY <1>7, <2>1, <2>2
<1>8. ASSUME NEW c \in Clients, read_slot(c) PROVE ThreadsFit'
  <2>1. CASE slot = 0 \/ slot = old[c]
    BY <1>8, <2>1 DEF read_slot, Sub, FreeLock
  <2>2. CASE ~(slot = 0 \/ slot = old[c])
    <3>1. /\ sub[c] = "read" /\ sub' = [sub EXCEPT ![c] = "send"] /\ old' = [old EXCEPT ![c] = slot]
          /\ slot # 0 /\ UNCHANGED <<condition, feeds, slot, feed, idle, dropped, mine>>
      BY <1>8, <2>2 DEF read_slot, Sub
    <3>2. ThreadsFit!(c)'
      BY <3>1
    <3>3. ASSUME NEW d \in Clients, d # c PROVE ThreadsFit!(d)'
      BY <3>1, <3>3
    <3>4. QED
      BY <3>2, <3>3
  <2>3. QED
    BY <1>8, <2>1, <2>2
<1>9. ASSUME NEW c \in Clients, send(c) PROVE ThreadsFit'
  BY <1>9 DEF send, Sub
<1>10. ASSUME NEW c \in Clients, add_condition(c) PROVE ThreadsFit'
  <2>1. CASE condition = 0
    BY <1>10, <2>1 DEF add_condition, Feed, Done
  <2>2. CASE condition # 0
    BY <1>10, <2>2 DEF add_condition, Feed, Done
  <2>3. QED
    BY <1>10, <2>1, <2>2
<1>11. ASSUME NEW c \in Clients, req_real_time_bars(c) PROVE ThreadsFit'
  BY <1>11 DEF req_real_time_bars, Feed
<1>12. ASSUME NEW c \in Clients, request_raises(c) PROVE ThreadsFit'
  BY <1>12 DEF request_raises, Feed
<1>13. ASSUME NEW c \in Clients, init_slot(c) PROVE ThreadsFit'
  BY <1>13 DEF init_slot, Feed, Done
<1>14. ASSUME NEW c \in Clients, real_bar_from(c) PROVE ThreadsFit'
  BY <1>14 DEF real_bar_from, Feed
<1>15. ASSUME NEW c \in Clients, feed_timeout(c) PROVE ThreadsFit'
  BY <1>15 DEF feed_timeout, Feed
<1>16. ASSUME NEW c \in Clients, key_used_for_reading(c) PROVE ThreadsFit'
  <2>1. CASE idle'[c] >= IdleLimit
    BY <1>16, <2>1 DEF key_used_for_reading, Feed
  <2>2. CASE ~(idle'[c] >= IdleLimit)
    BY <1>16, <2>2 DEF key_used_for_reading, Feed
  <2>3. QED
    BY <1>16, <2>1, <2>2
<1>17. ASSUME NEW c \in Clients, publish(c) PROVE ThreadsFit'
  BY <1>17 DEF publish, Feed
<1>18. ASSUME NEW c \in Clients, stop_real_time_bars(c) PROVE ThreadsFit'
  BY <1>18 DEF stop_real_time_bars, Feed
<1>19. ASSUME NEW c \in Clients, remove_condition(c) PROVE ThreadsFit'
  BY <1>19 DEF remove_condition, Feed
<1>20. CASE send_error \/ lose_connection
  BY <1>20 DEF send_error, lose_connection
<1>21. ASSUME NEW c \in Clients, blocks(c) \/ reads_on(c) PROVE ThreadsFit'
  <2>1. /\ sub[c] \in {"send", "blocked"} /\ \E x \in {"send", "blocked"} : sub' = [sub EXCEPT ![c] = x]
        /\ UNCHANGED <<condition, feeds, slot, feed, idle, dropped, mine, old>>
    BY <1>21 DEF blocks, reads_on, Sub
  <2>2. sub'[c] \in {"send", "blocked"} /\ \A d \in Clients \ {c} : sub'[d] = sub[d]
    BY <2>1
  <2>3. ThreadsFit!(c)'
    BY <2>1, <2>2
  <2>4. ASSUME NEW d \in Clients, d # c PROVE ThreadsFit!(d)'
    BY <2>1, <2>2, <2>4
  <2>5. QED
    BY <2>3, <2>4
<1>22. ASSUME NEW c \in Clients, is_connected(c) PROVE ThreadsFit'
  BY <1>22 DEF is_connected, Sub
<1>23. ASSUME NEW c \in Clients, acquire(c) PROVE ThreadsFit'
  BY <1>23 DEF acquire, Acquire, Sub
<1>24. ASSUME NEW c \in Clients, stop_raises(c) PROVE ThreadsFit'
  BY <1>24 DEF stop_raises, Feed
<1>25. CASE UNCHANGED vars
  BY <1>25 DEF vars
<1>26. QED
  BY <1>1, <1>2, <1>3, <1>4, <1>5, <1>6, <1>7, <1>8, <1>9, <1>10, <1>11, <1>12, <1>13, <1>14, <1>15, <1>16, <1>17, <1>18, <1>19, <1>25,
     <1>20, <1>21, <1>22, <1>23, <1>24
     DEF Next, Subscriber, FeedThread

(* The initial state: no condition, no feed, no subscriber. *)
LEMMA FeedInit == Init => FeedInv /\ NoLostWakeup
<1> SUFFICES ASSUME Init PROVE FeedInv /\ NoLostWakeup
  OBVIOUS
<1> USE FeedAssumption DEF Init
<1>1. TypeOK
  <2>1. 0 \in 0..feeds /\ 0 \in 0..MaxFeeds /\ 0 \in 0..MaxBars /\ 0 \in 0..IdleLimit
    OBVIOUS
  <2>2. <<>> \in Seq(1..MaxBars)
    OBVIOUS
  <2>3. condition \in 0..feeds /\ feeds \in 0..MaxFeeds /\ slot \in 0..MaxBars /\ sent \in 0..MaxBars
    BY <2>1
  <2>4. lock \in [1..MaxFeeds -> Clients \union {Nobody}] /\ arrived \in Seq(1..MaxBars)
    BY <2>2
  <2>5. /\ bar \in [Clients -> 0..MaxBars] /\ idle \in [Clients -> 0..IdleLimit]
        /\ mine \in [Clients -> 0..MaxFeeds] /\ old \in [Clients -> 0..MaxBars]
    BY <2>1
  <2>6. feed \in [Clients -> FeedStates] /\ sub \in [Clients -> SubStates]
    BY DEF FeedStates, SubStates
  <2>7. used \in BOOLEAN /\ notified \subseteq Clients
        /\ request \in Clients \union {Nobody}
    OBVIOUS
  <2>8. QED
    BY <2>3, <2>4, <2>5, <2>6, <2>7 DEF TypeOK
<1>2. OneFeed /\ LockIsMine /\ RequestsAreRead /\ FeedBehindCondition /\ RaisedKeepsCondition /\ NoLostWakeup
  BY DEF OneFeed, LockIsMine, Inside, RequestsAreRead, FeedBehindCondition, Orphaned, RaisedKeepsCondition,
     NoLostWakeup, Feeding
<1>3. ThreadsFit
  <2> SUFFICES ASSUME NEW c \in Clients PROVE ThreadsFit!(c)
    BY DEF ThreadsFit
  <2>1. sub[c] = "off" /\ feed[c] = "none" /\ mine[c] = 0 /\ old[c] = 0 /\ feeds = 0
    OBVIOUS
  <2>2. QED
    BY <2>1 DEF Feeding, Inside
<1>4. QED
  BY <1>1, <1>2, <1>3 DEF FeedInv

(* FeedInv and NoLostWakeup are inductive together. *)
LEMMA FeedStep == FeedInv /\ NoLostWakeup /\ [Next]_vars => FeedInv' /\ NoLostWakeup'
  BY FeedTypes, LockStep, OneStep, RequestStep, ConditionStep, WakeStep, ThreadsStep DEF FeedInv

(* FeedInv is an invariant, for any number of subscribers, feeds and bars: *)
(* two clients that ask at the same time get one feed, slot and            *)
(* notification change under one lock, no request runs unread and a        *)
(* condition has its feed (tws_realbar_request_gscLib.py).                 *)
THEOREM FeedSafety == Spec => []FeedInv
  BY FeedInit, FeedStep, PTL DEF Spec

(* No subscriber sleeps through a bar: between its reading of the slot and *)
(* its waiting it holds the lock without which the feed cannot publish.    *)
THEOREM FeedWakes == Spec => []NoLostWakeup
  BY FeedInit, FeedStep, PTL DEF Spec
=============================================================================
