-------------------------- MODULE RateLimitProofs --------------------------
(***************************************************************************)
(* For any senders, maximum and window: the types of RateLimit, that the   *)
(* limiter with its table and its cleanup decides as FixedWindow does, and *)
(* how many packets it accepts in the length of a window.                  *)
(***************************************************************************)
EXTENDS RateLimit, TLAPS

USE RateAssumption

\* The windows of the table and the history have the values the code gives
\* them, however often entries are created and deleted.
THEOREM TypeCorrect == Spec => []TypeOK
<1> USE DEF TypeOK, Known, Info, Ages
<1>1. Init => TypeOK
  BY DEF Init
<1>2. TypeOK /\ [Next]_vars => TypeOK'
  <2> SUFFICES ASSUME TypeOK, [Next]_vars PROVE TypeOK'
    OBVIOUS
  <2>1. ASSUME NEW k \in Keys, Arrive_First(k) PROVE TypeOK'
    <3>1. [count |-> 1, left |-> Window] \in Info
      OBVIOUS
    <3> QED BY <2>1, <3>1 DEF Arrive_First, Put, Accepted
  <2>2. ASSUME NEW k \in Keys, Arrive_Within(k) PROVE TypeOK'
    <3>1. Counted(k) \in Info
      BY <2>2 DEF Arrive_Within, NeedsWindow, Counted
    <3>2. k \in Known
      BY <2>2 DEF Arrive_Within, NeedsWindow
    <3> QED BY <2>2, <3>1 DEF Arrive_Within, Put, Accepted
  <2>3. ASSUME NEW k \in Keys, Arrive_Excess(k) PROVE TypeOK'
    <3>1. Counted(k) \in Info
      BY <2>3 DEF Arrive_Excess, NeedsWindow, Counted
    <3> QED BY <2>3, <3>1 DEF Arrive_Excess, Put
  <2>4. CASE Cleanup
    BY <2>4 DEF Cleanup
  <2>5. CASE Stop
    BY <2>5 DEF Stop
  <2>6. CASE Tick
    <3>1. rateLimits' \in [Known -> Info]
      <4>1. ASSUME NEW k \in Known PROVE Aged(k) \in Info
        BY DEF Aged, Passed
      <4> QED BY <2>6, <4>1 DEF Tick
    <3>2. recent' \in [Keys -> [Ages -> Nat]]
      <4>1. ASSUME NEW k \in Keys, NEW a \in Ages
            PROVE  (IF a = 0 THEN 0 ELSE recent[k][a - 1]) \in Nat
        <5>1. a # 0 => a - 1 \in Ages
          OBVIOUS
        <5> QED BY <5>1
      <4> QED BY <2>6, <4>1 DEF Tick
    <3> QED BY <2>6, <3>1, <3>2 DEF Tick
  <2>7. CASE UNCHANGED vars
    BY <2>7 DEF vars
  <2> QED BY <2>1, <2>2, <2>3, <2>4, <2>5, <2>6, <2>7 DEF Next, Arrive
<1> QED BY <1>1, <1>2, PTL DEF Spec

\* What the table says of a sender, in the terms of FixedWindow.
LEMMA Mapped ==
    ASSUME TypeOK, NEW k \in Keys
    PROVE  /\ ~Live(k) => QuotaOf(k) = MaxPackets /\ LeftOf(k) = -1
           /\ Live(k) => /\ rateLimits[k].count \in 1..(MaxPackets + 1)
                         /\ rateLimits[k].left \in 0..Window
                         /\ LeftOf(k) = rateLimits[k].left
                         /\ WithinLimit(k) => QuotaOf(k) = MaxPackets - rateLimits[k].count
                         /\ ~WithinLimit(k) => QuotaOf(k) = 0
  BY DEF TypeOK, Info, QuotaOf, LeftOf, Live, Passed

\* A sender whose entry is left alone keeps its quota and its time.
LEMMA SenderKept ==
    ASSUME NEW k, k \in Known' <=> k \in Known,
           k \in Known => rateLimits'[k] = rateLimits[k]
    PROVE  QuotaOf(k)' = QuotaOf(k) /\ LeftOf(k)' = LeftOf(k)
  BY DEF QuotaOf, LeftOf, Live, Passed, WithinLimit

\* A packet from one sender leaves the entries of the others alone.
LEMMA OthersKept ==
    ASSUME NEW k, NEW info, rateLimits' = Put(k, info), NEW j, j # k
    PROVE  QuotaOf(j)' = QuotaOf(j) /\ LeftOf(j)' = LeftOf(j)
<1>1. /\ j \in Known' <=> j \in Known
      /\ j \in Known => rateLimits'[j] = rateLimits[j]
  BY DEF Put, Known
<1> QED BY <1>1, SenderKept

\* cleanup() and the excess packets are invisible, and a packet is accepted
\* only as FixedWindow accepts it (RateLimitInterceptor.ts:46-74).
THEOREM WindowsKept == Spec => ImplementsFixedWindow
<1> DEFINE Quota == [k \in Keys |-> QuotaOf(k)]
           Left == [k \in Keys |-> LeftOf(k)]
<1>1. Init => Windows!Init
  BY DEF Init, Windows!Init, QuotaOf, LeftOf, Live, Known, Ages, Windows!Ages
<1>2. TypeOK /\ TypeOK' /\ [Next]_vars => [Windows!Next]_(Windows!fvars)
  <2> SUFFICES ASSUME TypeOK, TypeOK', [Next]_vars
               PROVE  Windows!Next \/ UNCHANGED <<Quota, Left, recent>>
    BY DEF Windows!fvars
  <2>1. ASSUME NEW k \in Keys, Arrive_First(k) PROVE Windows!Open(k)
    <3>1. rateLimits' = Put(k, [count |-> 1, left |-> Window])
      BY <2>1 DEF Arrive_First
    <3>2. LeftOf(k) < 0
      BY <2>1, Mapped DEF Arrive_First, NeedsWindow, Live
    <3>3. k \in Known' /\ rateLimits'[k].count = 1 /\ rateLimits'[k].left = Window
      BY <3>1 DEF Put, Known
    <3>4. LeftOf(k)' = Window /\ QuotaOf(k)' = MaxPackets - 1
      BY <3>3 DEF LeftOf, QuotaOf, Live, Passed, WithinLimit
    <3>5. \A j \in Keys : j # k => QuotaOf(j)' = QuotaOf(j) /\ LeftOf(j)' = LeftOf(j)
      BY <3>1, OthersKept
    <3>6. Left' = [Left EXCEPT ![k] = Window] /\ Quota' = [Quota EXCEPT ![k] = MaxPackets - 1]
      BY <3>4, <3>5
    <3> QED BY <2>1, <3>2, <3>6
           DEF Arrive_First, Accepted, Ages, Windows!Ages, Windows!Open, Windows!Accept
  <2>2. ASSUME NEW k \in Keys, Arrive_Within(k) PROVE Windows!Use(k)
    <3>1. rateLimits' = Put(k, Counted(k)) /\ Live(k) /\ WithinLimit(k)
      BY <2>2 DEF Arrive_Within, NeedsWindow, Live
    <3>2. /\ k \in Known'
          /\ rateLimits'[k].count = rateLimits[k].count + 1
          /\ rateLimits'[k].left = rateLimits[k].left
      BY <3>1, Mapped DEF Put, Counted, Known, WithinLimit
    <3>3. LeftOf(k)' = LeftOf(k) /\ QuotaOf(k)' = QuotaOf(k) - 1
      BY <3>1, <3>2, Mapped DEF LeftOf, QuotaOf, Live, Passed, WithinLimit
    <3>4. LeftOf(k) >= 0 /\ QuotaOf(k) > 0
      BY <3>1, Mapped DEF WithinLimit
    <3>5. \A j \in Keys : j # k => QuotaOf(j)' = QuotaOf(j) /\ LeftOf(j)' = LeftOf(j)
      BY <3>1, OthersKept
    <3>6. Left' = Left /\ Quota' = [Quota EXCEPT ![k] = QuotaOf(k) - 1]
      BY <3>3, <3>5
    <3> QED BY <2>2, <3>4, <3>6
           DEF Arrive_Within, Accepted, Ages, Windows!Ages, Windows!Use, Windows!Accept
  <2>3. ASSUME NEW k \in Keys, Arrive_Excess(k) PROVE UNCHANGED <<Quota, Left, recent>>
    <3>1. rateLimits' = Put(k, Counted(k)) /\ Live(k) /\ ~WithinLimit(k)
      BY <2>3 DEF Arrive_Excess, NeedsWindow, Live
    <3>2. /\ k \in Known'
          /\ rateLimits'[k].left = rateLimits[k].left
          /\ rateLimits'[k].count >= MaxPackets
      BY <3>1, Mapped DEF Put, Counted, Known, WithinLimit
    <3>3. LeftOf(k)' = LeftOf(k) /\ QuotaOf(k)' = QuotaOf(k)
      <4>1. rateLimits'[k].count \in Nat
        BY <3>2 DEF TypeOK, Info
      <4> QED BY <3>1, <3>2, <4>1, Mapped DEF LeftOf, QuotaOf, Live, Passed, WithinLimit
    <3>4. \A j \in Keys : j # k => QuotaOf(j)' = QuotaOf(j) /\ LeftOf(j)' = LeftOf(j)
      BY <3>1, OthersKept
    <3> QED BY <2>3, <3>3, <3>4 DEF Arrive_Excess
  <2>4. CASE Cleanup
    <3>1. ASSUME NEW k \in Keys PROVE QuotaOf(k)' = QuotaOf(k) /\ LeftOf(k)' = LeftOf(k)
      <4>1. CASE k \in Known /\ Passed(k)
        BY <2>4, <4>1 DEF Cleanup, Stale, Known, QuotaOf, LeftOf, Live
      <4>2. CASE ~(k \in Known /\ Passed(k))
        <5>1. /\ k \in Known' <=> k \in Known
              /\ k \in Known => rateLimits'[k] = rateLimits[k]
          BY <2>4, <4>2 DEF Cleanup, Stale, Known
        <5> QED BY <5>1, SenderKept
      <4> QED BY <4>1, <4>2
    <3> QED BY <2>4, <3>1 DEF Cleanup
  <2>5. CASE Stop
    BY <2>5, SenderKept DEF Stop, Known
  <2>6. CASE Tick
    <3>1. Known' = Known
      BY <2>6 DEF Tick, Known
    <3>2. ASSUME NEW k \in Keys
          PROVE  /\ LeftOf(k)' = IF LeftOf(k) >= 0 THEN LeftOf(k) - 1 ELSE -1
                 /\ QuotaOf(k)' = IF LeftOf(k) <= 0 THEN MaxPackets ELSE QuotaOf(k)
      <4>1. k \in Known => rateLimits'[k] = Aged(k)
        BY <2>6 DEF Tick
      <4>2. CASE ~Live(k)
        BY <3>1, <4>1, <4>2 DEF Aged, LeftOf, QuotaOf, Live, Passed
      <4>3. CASE Live(k)
        BY <3>1, <4>1, <4>3, Mapped DEF Aged, LeftOf, QuotaOf, Live, Passed, WithinLimit
      <4> QED BY <4>2, <4>3
    <3>3. /\ Left' = [k \in Keys |-> IF Left[k] >= 0 THEN Left[k] - 1 ELSE -1]
          /\ Quota' = [k \in Keys |-> IF Left[k] <= 0 THEN MaxPackets ELSE Quota[k]]
      BY <3>2
    <3> QED BY <2>6, <3>3 DEF Tick, Ages, Windows!Ages, Windows!Next, Windows!Advance
  <2>7. CASE UNCHANGED vars
    BY <2>7, SenderKept DEF vars, Known
  <2> QED BY <2>1, <2>2, <2>3, <2>4, <2>5, <2>6, <2>7 DEF Next, Arrive, Windows!Next
<1> QED BY <1>1, <1>2, TypeCorrect, PTL DEF Spec, ImplementsFixedWindow, Windows!Spec

-----------------------------------------------------------------------------
(* How many packets are accepted *)

\* The packets the window of k has let in, and the time since it began.
Granted(k) == IF rateLimits[k].count <= MaxPackets
              THEN rateLimits[k].count ELSE MaxPackets
Since(k) == Window - rateLimits[k].left

\* The count of a window is what was accepted since it began, and no more than
\* a full window was accepted in the time before it that still matters.
History(k) ==
    /\ Live(k) => \A a \in Ages : /\ a >= Since(k) => recent[k][a] >= Granted(k)
                                  /\ a <= Since(k) => recent[k][a] <= Granted(k)
                                  /\ recent[k][a] <= Granted(k) + MaxPackets
    /\ ~Live(k) => /\ recent[k][0] = 0
                   /\ \A a \in Ages : recent[k][a] <= MaxPackets

HistoryInv == TypeOK /\ \A k \in Keys : History(k)

\* A sender whose entry is left alone has the same history.
LEMMA HistoryKept ==
    ASSUME NEW k, k \in Known' <=> k \in Known,
           k \in Known => rateLimits'[k] = rateLimits[k],
           recent'[k] = recent[k], History(k)
    PROVE  History(k)'
  BY DEF History, Live, Passed, Granted, Since

\* So has one that other senders' packets pass by.
LEMMA HistoryOfOthers ==
    ASSUME NEW k \in Keys, NEW info, rateLimits' = Put(k, info),
           Accepted(k) \/ recent' = recent, TypeOK,
           NEW j \in Keys, j # k, History(j)
    PROVE  History(j)'
<1>1. /\ j \in Known' <=> j \in Known
      /\ j \in Known => rateLimits'[j] = rateLimits[j]
  BY DEF Put, Known
<1>2. recent'[j] = recent[j]
  BY DEF TypeOK, Accepted
<1> QED BY <1>1, <1>2, HistoryKept

\* What Accepted does to the history of the sender.
LEMMA AcceptedAges ==
    ASSUME TypeOK, NEW k \in Keys, Accepted(k), NEW a \in Ages
    PROVE  /\ recent[k][a] \in Nat
           /\ recent'[k][a] = recent[k][a] + 1
  BY DEF TypeOK, Accepted

\* Every step keeps the history in step with the table.
LEMMA HistoryInvKept == HistoryInv /\ TypeOK' /\ [Next]_vars => HistoryInv'
<1> SUFFICES ASSUME HistoryInv, TypeOK', [Next]_vars, NEW j \in Keys
             PROVE  History(j)'
  BY DEF HistoryInv
<1>0. TypeOK /\ History(j)
  BY DEF HistoryInv
<1>1. CASE UNCHANGED <<rateLimits, recent>>
  BY <1>0, <1>1, HistoryKept DEF Known
<1>2. ASSUME NEW k \in Keys, Arrive_First(k), j = k PROVE History(j)'
  <2>1. /\ k \in Known' /\ rateLimits'[k].count = 1
        /\ rateLimits'[k].left = Window
    BY <1>2 DEF Arrive_First, Put, Known
  <2>2. Live(k)' /\ Granted(k)' = 1 /\ Since(k)' = 0
    BY <2>1 DEF Live, Passed, Granted, Since
  <2>3. ~Live(k)
    BY <1>2 DEF Arrive_First, NeedsWindow, Live
  <2>4. ASSUME NEW a \in Ages
        PROVE  /\ recent'[k][a] \in 1..(1 + MaxPackets)
               /\ a <= 0 => recent'[k][a] <= 1
    <3>1. recent[k][a] \in Nat /\ recent'[k][a] = recent[k][a] + 1
      BY <1>0, <1>2, AcceptedAges DEF Arrive_First
    <3>2. recent[k][a] <= MaxPackets /\ (a <= 0 => recent[k][a] = 0)
      BY <1>0, <1>2, <2>3 DEF History, Ages
    <3> QED BY <3>1, <3>2
  <2> QED BY <1>2, <2>2, <2>4 DEF History, Ages
<1>3. ASSUME NEW k \in Keys, Arrive_Within(k), j = k PROVE History(j)'
  <2>1. rateLimits' = Put(k, Counted(k)) /\ Live(k) /\ WithinLimit(k)
    BY <1>3 DEF Arrive_Within, NeedsWindow, Live
  <2>2. /\ k \in Known'
        /\ rateLimits'[k].count = rateLimits[k].count + 1
        /\ rateLimits'[k].left = rateLimits[k].left
        /\ rateLimits[k].count \in 1..MaxPackets
        /\ rateLimits[k].count + 1 <= MaxPackets
    BY <1>0, <2>1, Mapped DEF Put, Counted, Known, WithinLimit
  <2>3. /\ Live(k)' /\ Since(k)' = Since(k)
        /\ Granted(k) \in Nat /\ Granted(k)' = Granted(k) + 1
    BY <2>1, <2>2 DEF Live, Passed, Granted, Since
  <2>4. ASSUME NEW a \in Ages
        PROVE  /\ a >= Since(k) => recent'[k][a] >= Granted(k) + 1
               /\ a <= Since(k) => recent'[k][a] <= Granted(k) + 1
               /\ recent'[k][a] <= Granted(k) + 1 + MaxPackets
    <3>1. recent[k][a] \in Nat /\ recent'[k][a] = recent[k][a] + 1
      BY <1>0, <1>3, AcceptedAges DEF Arrive_Within
    <3>2. /\ a >= Since(k) => recent[k][a] >= Granted(k)
          /\ a <= Since(k) => recent[k][a] <= Granted(k)
          /\ recent[k][a] <= Granted(k) + MaxPackets
      BY <1>0, <1>3, <2>1 DEF History
    <3> QED BY <2>3, <3>1, <3>2
  <2> QED BY <1>3, <2>3, <2>4 DEF History, Ages
<1>4. ASSUME NEW k \in Keys, Arrive_Excess(k), j = k PROVE History(j)'
  <2>1. rateLimits' = Put(k, Counted(k)) /\ Live(k) /\ ~WithinLimit(k)
        /\ recent' = recent
    BY <1>4 DEF Arrive_Excess, NeedsWindow, Live
  <2>2. /\ k \in Known'
        /\ rateLimits'[k].left = rateLimits[k].left
        /\ rateLimits[k].count \in Nat /\ rateLimits'[k].count \in Nat
        /\ rateLimits[k].count >= MaxPackets /\ rateLimits'[k].count >= MaxPackets
    BY <1>0, <2>1, Mapped DEF Put, Counted, Known, WithinLimit
  <2>3. Live(k)' /\ Since(k)' = Since(k) /\ Granted(k)' = Granted(k)
    BY <2>1, <2>2 DEF Live, Passed, Granted, Since
  <2> QED BY <1>0, <1>4, <2>1, <2>3 DEF History, Ages
<1>5. CASE Cleanup
  <2>1. CASE j \in Known /\ Passed(j)
    <3>1. ~Live(j) /\ ~Live(j)' /\ recent' = recent
      BY <1>5, <2>1 DEF Cleanup, Stale, Known, Live
    <3> QED BY <1>0, <3>1 DEF History, Ages
  <2>2. CASE ~(j \in Known /\ Passed(j))
    <3>1. /\ j \in Known' <=> j \in Known
          /\ j \in Known => rateLimits'[j] = rateLimits[j]
          /\ recent'[j] = recent[j]
      BY <1>5, <2>2 DEF Cleanup, Stale, Known
    <3> QED BY <1>0, <3>1, HistoryKept
  <2> QED BY <2>1, <2>2
<1>6. CASE Tick
  <2>1. Known' = Known /\ (j \in Known => rateLimits'[j] = Aged(j))
    BY <1>6 DEF Tick, Known
  <2>2. \A a \in Ages : recent'[j][a] = IF a = 0 THEN 0 ELSE recent[j][a - 1]
    BY <1>6 DEF Tick
  <2>3. \A a \in Ages : a # 0 => a - 1 \in Ages
    BY DEF Ages
  <2>4. \A a \in Ages : recent[j][a] \in Nat
    BY <1>0 DEF TypeOK
  <2>5. CASE ~Live(j)
    <3>1. ~Live(j)'
      BY <2>1, <2>5 DEF Live, Aged, Passed
    <3>2. \A a \in Ages : recent[j][a] <= MaxPackets
      BY <1>0, <2>5 DEF History
    <3> QED BY <2>2, <2>3, <3>1, <3>2 DEF History, Ages
  <2>6. CASE Live(j) /\ rateLimits[j].left = 0
    <3>1. ~Live(j)'
      BY <2>1, <2>6 DEF Live, Aged, Passed
    <3>2. Since(j) = Window /\ Granted(j) \in Nat /\ Granted(j) <= MaxPackets
      BY <1>0, <2>6, Mapped DEF Since, Granted
    <3>3. \A a \in Ages : recent[j][a] <= MaxPackets
      BY <1>0, <2>4, <2>6, <3>2 DEF History, Ages
    <3> QED BY <2>2, <2>3, <3>1, <3>3 DEF History, Ages
  <2>7. CASE Live(j) /\ rateLimits[j].left # 0
    <3>1. /\ rateLimits[j].left \in 1..Window
          /\ rateLimits'[j].left = rateLimits[j].left - 1
          /\ rateLimits'[j].count = rateLimits[j].count
      BY <1>0, <2>1, <2>7, Mapped DEF Live, Aged
    <3>2. Live(j)' /\ Since(j)' = Since(j) + 1 /\ Granted(j)' = Granted(j)
      BY <2>1, <2>7, <3>1 DEF Live, Passed, Since, Granted
    <3>3. Since(j) \in Nat /\ Granted(j) \in Nat
      BY <1>0, <2>7, <3>1, Mapped DEF Since, Granted
    <3>4. ASSUME NEW a \in Ages
          PROVE  /\ a >= Since(j) + 1 => recent'[j][a] >= Granted(j)
                 /\ a <= Since(j) + 1 => recent'[j][a] <= Granted(j)
                 /\ recent'[j][a] <= Granted(j) + MaxPackets
      <4>1. CASE a = 0
        BY <2>2, <3>3, <4>1
      <4>2. CASE a # 0
        <5>1. recent'[j][a] = recent[j][a - 1] /\ a - 1 \in Ages
          BY <2>2, <2>3, <4>2
        <5>2. /\ a - 1 >= Since(j) => recent[j][a - 1] >= Granted(j)
              /\ a - 1 <= Since(j) => recent[j][a - 1] <= Granted(j)
              /\ recent[j][a - 1] <= Granted(j) + MaxPackets
          BY <1>0, <2>7, <5>1 DEF History
        <5> QED BY <3>3, <5>1, <5>2 DEF Ages
      <4> QED BY <4>1, <4>2
    <3> QED BY <3>2, <3>4 DEF History, Ages
  <2> QED BY <2>5, <2>6, <2>7
<1>7. ASSUME NEW k \in Keys, Arrive(k), j # k PROVE History(j)'
  <2>1. \E info : rateLimits' = Put(k, info)
    BY <1>7 DEF Arrive, Arrive_First, Arrive_Within, Arrive_Excess
  <2>2. Accepted(k) \/ recent' = recent
    BY <1>7 DEF Arrive, Arrive_First, Arrive_Within, Arrive_Excess
  <2> QED BY <1>0, <1>7, <2>1, <2>2, HistoryOfOthers
<1> QED BY <1>1, <1>2, <1>3, <1>4, <1>5, <1>6, <1>7 DEF Next, Arrive, Stop, vars

\* The table agrees with the history at all times.
LEMMA HistoryCorrect == Spec => []HistoryInv
<1>1. Init /\ TypeOK => HistoryInv
  BY DEF Init, HistoryInv, History, Live, Known, Ages
<1> QED BY <1>1, HistoryInvKept, TypeCorrect, PTL DEF Spec

\* At most two full windows are accepted in the length of one
\* (RateLimitInterceptor.ts:46-62).
THEOREM LimitKept == Spec => []AtMostTwice
<1>1. HistoryInv => AtMostTwice
  <2> SUFFICES ASSUME HistoryInv, NEW k \in Keys
               PROVE  recent[k][Window] <= 2 * MaxPackets
    BY DEF AtMostTwice
  <2>1. TypeOK /\ History(k) /\ Window \in Ages
    BY DEF HistoryInv, Ages
  <2>2. recent[k][Window] \in Nat
    BY <2>1 DEF TypeOK
  <2>3. CASE Live(k)
    <3>1. Granted(k) \in Nat /\ Granted(k) <= MaxPackets
      BY <2>1, <2>3, Mapped DEF Granted
    <3>2. recent[k][Window] <= Granted(k) + MaxPackets
      BY <2>1, <2>3 DEF History
    <3> QED BY <2>2, <3>1, <3>2
  <2>4. CASE ~Live(k)
    <3>1. recent[k][Window] <= MaxPackets
      BY <2>1, <2>4 DEF History
    <3> QED BY <2>2, <3>1
  <2> QED BY <2>3, <2>4
<1> QED BY <1>1, HistoryCorrect, PTL

\* A sender whose packets are dropped has used up its window, whatever cleanup
\* and the other senders do to the table (RateLimitInterceptor.ts:46-74).
THEOREM DropsCorrect == Spec => []DropsAreEarned
<1>1. HistoryInv => DropsAreEarned
  <2> SUFFICES ASSUME HistoryInv, NEW k \in Keys, Blocked(k)
               PROVE  recent[k][Window] >= MaxPackets
    BY DEF DropsAreEarned
  <2>1. TypeOK /\ History(k) /\ Window \in Ages
    BY DEF HistoryInv, Ages
  <2>2. Live(k) /\ ~WithinLimit(k)
    BY DEF Blocked, NeedsWindow, Live
  <2>3. Granted(k) = MaxPackets /\ Window >= Since(k)
    BY <2>1, <2>2, Mapped DEF Granted, Since, WithinLimit
  <2> QED BY <2>1, <2>2, <2>3 DEF History
<1> QED BY <1>1, HistoryCorrect, PTL

=============================================================================
