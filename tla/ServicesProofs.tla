--------------------------- MODULE ServicesProofs ---------------------------
(***************************************************************************)
(* Theorems about modules Metrics, LogCleanup, ServiceSettings and         *)
(* AdminSessions, and about Services, which composes them, for any number  *)
(* of goroutines, counters, requests, retries, queries, environments,      *)
(* entries to keep, services, settings, edits, browsers and sessions.      *)
(***************************************************************************)
EXTENDS Services, FiniteSetTheorems, SequenceTheorems, TLAPS

(* Metrics.                                                                *)

-----------------------------------------------------------------------------
(* The inductive invariant: what holds between Lock and Unlock ...         *)

Critical(s) == sender[s].pc \in {"load", "store", "value"}

MutexHeld == \A s \in Senders : Critical(s) => mux = s

CopyFresh ==
  \A s \in Senders : Doing(s, "store") => sender[s].c = counter[sender[s].name]

(* The value of n was stored and not reported yet. *)
Unreported(n) == \E s \in Senders : Doing(s, "value") /\ sender[s].name = n

(* The values of an interval up to the last one that was reported. *)
ValuesTo(n, last) == counter[n].count + 1 - counted[n] .. last

CountsGood ==
  \A n \in Counters :
    /\ counter[n].count = counted[n] \/ counter[n].count = counted[n] - 1
    /\ Unreported(n) => counted[n] > 0 /\ reported[n] = ValuesTo(n, counter[n].count - 1)
    /\ ~Unreported(n) => reported[n] = ValuesTo(n, counter[n].count)

Counting == MutexHeld /\ CopyFresh /\ CountsGood

(* ... and what one goroutine at a time does with the connection.          *)

InConnect(s) == sender[s].pc \in {"close", "dial", "assign", "send"}

Alone ==
  "overlap" \notin trouble =>
    /\ \A s, t \in Senders : InConnect(s) /\ InConnect(t) => s = t
    /\ \A s \in Senders : sender[s].pc \in {"dial", "assign"} => ~connOpen
    /\ ~forgotten

Sent ==
  trouble = {} => ~lost /\ \A s \in Senders : Doing(s, "send") => connOpen

MetricsIInv == MetricsTypeOK /\ Counting /\ Alone /\ Sent

-----------------------------------------------------------------------------
LEMMA OutsideType ==
  NoCounter \in CounterState /\ Outside \in SenderState /\ Outside.pc = "out"
<1>1. NoCounter \in CounterState
  BY MetricsAssumption DEF NoCounter, CounterState, NoTime
<1>2. (CHOOSE n \in Counters : TRUE) \in Counters
  BY MetricsAssumption
<1>3. "out" \in SenderStep /\ 0 \in 0 .. MaxTime /\ 0 \in 0 .. Retries + 1
  BY MetricsAssumption DEF SenderStep
<1>. QED  BY <1>1, <1>2, <1>3 DEF Outside, SenderState

(* What a goroutine is after Proceed. *)
LEMMA ProceedSender ==
  ASSUME MetricsTypeOK, NEW s \in Senders, NEW pc \in SenderStep, Proceed(s, pc)
  PROVE  /\ sender' \in [Senders -> SenderState]
         /\ \A t \in Senders \ {s} : sender'[t] = sender[t]
         /\ sender'[s].pc = pc
         /\ pc # "out" => sender'[s] = [sender[s] EXCEPT !.pc = pc]
<1>1. sender[s] \in SenderState /\ sender \in [Senders -> SenderState]
  BY DEF MetricsTypeOK
<1>2. CASE pc = "out"
  BY <1>1, <1>2, OutsideType DEF Proceed
<1>3. CASE pc # "out"
  <2>1. sender' = [sender EXCEPT ![s] = [sender[s] EXCEPT !.pc = pc]]
    BY <1>3 DEF Proceed
  <2>2. [sender[s] EXCEPT !.pc = pc] \in SenderState /\ [sender[s] EXCEPT !.pc = pc].pc = pc
    BY <1>1 DEF SenderState
  <2>. QED  BY <1>1, <1>3, <2>1, <2>2
<1>. QED  BY <1>2, <1>3

(* Steps outside of the mutex count nothing. *)
LEMMA CountingKept ==
  ASSUME Counting, UNCHANGED <<counter, mux, counted, reported>>,
         \A s \in Senders : sender'[s] = sender[s] \/ ~(Critical(s) \/ Critical(s)')
  PROVE  Counting'
<1>1. MutexHeld'
  BY DEF Counting, MutexHeld, Critical
<1>2. CopyFresh'
  BY DEF Counting, CopyFresh, Critical, Doing
<1>3. \A n \in Counters : Unreported(n)' = Unreported(n)
  BY DEF Unreported, Critical, Doing
<1>4. CountsGood'
  BY <1>3 DEF Counting, CountsGood, ValuesTo
<1>. QED  BY <1>1, <1>2, <1>4 DEF Counting

(* Steps before the connection leave it alone. *)
LEMMA ConnectionLeft ==
  ASSUME Alone, Sent, UNCHANGED <<connOpen, forgotten, lost, trouble>>,
         \A s \in Senders : InConnect(s)' => sender'[s].pc = sender[s].pc
  PROVE  Alone' /\ Sent'
<1>1. Alone'
  BY DEF Alone, InConnect
<1>2. Sent'
  BY DEF Sent, InConnect, Doing
<1>. QED  BY <1>1, <1>2

-----------------------------------------------------------------------------
(* The steps that count. *)

LEMMA IncKeeps ==
  ASSUME MetricsIInv, NEW s \in Senders, NEW n \in Counters, Inc(s, n)
  PROVE  MetricsIInv'
<1>1. MetricsTypeOK /\ sender[s] \in SenderState
  BY DEF MetricsIInv, MetricsTypeOK
<1>2. [sender[s] EXCEPT !.pc = "lock", !.name = n, !.at = clock] \in SenderState
  <2>1. clock \in 0 .. MaxTime
    BY <1>1 DEF MetricsTypeOK
  <2>. QED  BY <1>1, <2>1 DEF SenderState, SenderStep
<1>3. sender' = [sender EXCEPT ![s] = [sender[s] EXCEPT !.pc = "lock", !.name = n, !.at = clock]]
  BY DEF Inc
<1>4. /\ sender' \in [Senders -> SenderState]
      /\ \A t \in Senders \ {s} : sender'[t] = sender[t]
      /\ sender'[s].pc = "lock"
  BY <1>1, <1>2, <1>3 DEF MetricsTypeOK, SenderState
<1>5. incs' \in 0 .. MaxIncs
  BY <1>1, MetricsAssumption DEF Inc, MetricsTypeOK
<1>6. MetricsTypeOK'
  BY <1>1, <1>4, <1>5 DEF Inc, MetricsTypeOK
<1>7. Counting'
  BY <1>4, CountingKept DEF Inc, MetricsIInv, Critical, Doing
<1>8. Alone' /\ Sent'
  BY <1>4, ConnectionLeft DEF Inc, MetricsIInv, InConnect
<1>. QED  BY <1>6, <1>7, <1>8 DEF MetricsIInv

LEMMA LockKeeps ==
  ASSUME MetricsIInv, NEW s \in Senders, Lock(s)
  PROVE  MetricsIInv'
<1>1. MetricsTypeOK /\ sender[s] \in SenderState
  BY DEF MetricsIInv, MetricsTypeOK
<1>2. /\ sender' \in [Senders -> SenderState]
      /\ \A t \in Senders \ {s} : sender'[t] = sender[t]
      /\ sender'[s].pc = "load"
  BY <1>1, ProceedSender DEF Lock, SenderStep
<1>3. MetricsTypeOK'
  BY <1>1, <1>2 DEF Lock, MetricsTypeOK
<1>4. \A t \in Senders : ~Critical(t)
  BY MetricsAssumption DEF Lock, MetricsIInv, Counting, MutexHeld
<1>5. MutexHeld' /\ CopyFresh'
  BY <1>2, <1>4 DEF Lock, MutexHeld, CopyFresh, Critical, Doing
<1>6. \A n \in Counters : Unreported(n)' = Unreported(n)
  BY <1>2, <1>4 DEF Unreported, Critical, Doing
<1>7. CountsGood'
  BY <1>6 DEF Lock, MetricsIInv, Counting, CountsGood, ValuesTo
<1>8. Alone' /\ Sent'
  BY <1>2, ConnectionLeft DEF Lock, MetricsIInv, InConnect
<1>. QED  BY <1>3, <1>5, <1>7, <1>8 DEF MetricsIInv, Counting

LEMMA LoadKeeps ==
  ASSUME MetricsIInv, NEW s \in Senders, LoadCounter(s)
  PROVE  MetricsIInv'
<1>. DEFINE n == sender[s].name
<1>1. MetricsTypeOK /\ sender[s] \in SenderState /\ n \in Counters /\ counter[n] \in CounterState
  BY DEF MetricsIInv, MetricsTypeOK, SenderState
<1>2. [sender[s] EXCEPT !.pc = "store", !.c = counter[n]] \in SenderState
  BY <1>1 DEF SenderState, SenderStep
<1>3. sender' = [sender EXCEPT ![s] = [sender[s] EXCEPT !.pc = "store", !.c = counter[n]]]
  BY DEF LoadCounter
<1>4. /\ sender' \in [Senders -> SenderState]
      /\ \A t \in Senders \ {s} : sender'[t] = sender[t]
      /\ sender'[s].pc = "store" /\ sender'[s].c = counter[n] /\ sender'[s].name = n
  BY <1>1, <1>2, <1>3 DEF MetricsTypeOK, SenderState
<1>5. MetricsTypeOK'
  BY <1>1, <1>4 DEF LoadCounter, MetricsTypeOK
<1>6. MutexHeld' /\ CopyFresh'
  BY <1>4 DEF LoadCounter, MetricsIInv, Counting, MutexHeld, CopyFresh, Critical, Doing
<1>7. \A m \in Counters : Unreported(m)' = Unreported(m)
  BY <1>4 DEF LoadCounter, Unreported, Doing
<1>8. CountsGood'
  BY <1>7 DEF LoadCounter, MetricsIInv, Counting, CountsGood, ValuesTo
<1>9. Alone' /\ Sent'
  BY <1>4, ConnectionLeft DEF LoadCounter, MetricsIInv, InConnect
<1>. QED  BY <1>5, <1>6, <1>8, <1>9 DEF MetricsIInv, Counting

(* A value is stored: counted once more, and not yet reported. *)
LEMMA AdvancedCounts ==
  ASSUME NEW c \in CounterState, NEW at \in 0 .. MaxTime
  PROVE  LET next == Advanced(c, at)
         IN  /\ next \in CounterState
             /\ \/ next.interval = c.interval /\ next.count = c.count + 1
                \/ next.interval # c.interval /\ next.count \in {0, 1}
<1>1. c.count \in Nat /\ c.interval \in 0 .. NoTime /\ at \in 0 .. NoTime /\ at # NoTime
  BY MetricsAssumption DEF CounterState, NoTime
<1>2. CASE c.interval = NoTime
  <2>1. Advanced(c, at) = [count |-> 1, interval |-> at]
    <3>1. ~(c.interval + Interval <= at)
      BY <1>1, <1>2, MetricsAssumption DEF NoTime
    <3>. QED  BY <1>2, <3>1 DEF Advanced
  <2>. QED  BY <1>1, <1>2, <2>1 DEF CounterState
<1>3. CASE c.interval # NoTime /\ c.interval + Interval <= at
  <2>1. Advanced(c, at) = [count |-> 0, interval |-> at]
    BY <1>3 DEF Advanced
  <2>2. at # c.interval
    BY <1>1, <1>3, MetricsAssumption DEF NoTime
  <2>. QED  BY <1>1, <2>1, <2>2 DEF CounterState
<1>4. CASE c.interval # NoTime /\ ~(c.interval + Interval <= at)
  <2>1. Advanced(c, at) = [count |-> c.count + 1, interval |-> c.interval]
    BY <1>4 DEF Advanced
  <2>. QED  BY <1>1, <2>1 DEF CounterState
<1>. QED  BY <1>2, <1>3, <1>4

LEMMA StoreKeeps ==
  ASSUME MetricsIInv, NEW s \in Senders, StoreCounter(s)
  PROVE  MetricsIInv'
<1>. DEFINE next == Advanced(sender[s].c, sender[s].at)
            same == next.interval = sender[s].c.interval
<1>1. /\ MetricsTypeOK /\ sender[s] \in SenderState /\ sender[s].name \in Counters
      /\ sender[s].c \in CounterState /\ sender[s].at \in 0 .. MaxTime
  BY DEF MetricsIInv, MetricsTypeOK, SenderState
<1>. PICK n \in Counters : n = sender[s].name
  BY <1>1
<1>2. /\ next \in CounterState
      /\ \/ same /\ next.count = sender[s].c.count + 1
         \/ ~same /\ next.count \in {0, 1}
  BY <1>1, AdvancedCounts
<1>3. /\ counter' = [counter EXCEPT ![n] = next]
      /\ counted' = [counted EXCEPT ![n] = IF same THEN counted[n] + 1 ELSE 1]
      /\ reported' = [reported EXCEPT ![n] = IF same THEN reported[n] ELSE {}]
  BY DEF StoreCounter
<1>4. /\ sender' \in [Senders -> SenderState]
      /\ \A t \in Senders \ {s} : sender'[t] = sender[t]
      /\ sender'[s].pc = "value" /\ sender'[s].name = n
  <2>1. Proceed(s, "value") /\ "value" \in SenderStep
    BY DEF StoreCounter, SenderStep
  <2>2. /\ sender' \in [Senders -> SenderState]
        /\ \A t \in Senders \ {s} : sender'[t] = sender[t]
        /\ sender'[s].pc = "value"
        /\ sender'[s] = [sender[s] EXCEPT !.pc = "value"]
    BY <1>1, <2>1, ProceedSender
  <2>3. sender'[s].name = n
    BY <1>1, <2>2 DEF SenderState
  <2>. QED  BY <2>2, <2>3
<1>5. Critical(s) /\ Doing(s, "store") /\ sender[s].pc = "store"
  BY DEF StoreCounter, Critical, Doing
<1>6. \A t \in Senders \ {s} : ~Critical(t)
  BY <1>5 DEF MetricsIInv, Counting, MutexHeld
<1>7. sender[s].c = counter[n] /\ ~Unreported(n)
  BY <1>5, <1>6 DEF MetricsIInv, Counting, CopyFresh, Unreported, Critical, Doing
<1>. HIDE DEF next, same
<1>8. /\ counter[n].count \in Nat /\ next.count \in Nat /\ counted[n] \in Nat
      /\ counter \in [Counters -> CounterState] /\ counted \in [Counters -> Nat]
      /\ reported \in [Counters -> SUBSET Nat]
  BY <1>1, <1>2 DEF MetricsTypeOK, CounterState
<1>9. MetricsTypeOK'
  <2>1. counter' \in [Counters -> CounterState]
    BY <1>2, <1>3, <1>8
  <2>2. counted' \in [Counters -> Nat]
    <3>1. (IF same THEN counted[n] + 1 ELSE 1) \in Nat
      BY <1>8
    <3>. QED  BY <1>3, <1>8, <3>1
  <2>3. reported' \in [Counters -> SUBSET Nat]
    <3>1. n \in Counters => (IF same THEN reported[n] ELSE {}) \in SUBSET Nat
      BY <1>8
    <3>. QED  BY <1>3, <1>8, <3>1
  <2>. QED  BY <1>1, <1>4, <2>1, <2>2, <2>3 DEF StoreCounter, MetricsTypeOK
<1>10. MutexHeld' /\ CopyFresh'
  BY <1>4, <1>5, <1>6 DEF StoreCounter, MetricsIInv, Counting, MutexHeld, CopyFresh, Critical, Doing
<1>11. Unreported(n)' /\ \A m \in Counters \ {n} : Unreported(m)' = Unreported(m)
  <2>1. Unreported(n)'
    BY <1>4 DEF Unreported, Doing
  <2>2. ASSUME NEW m \in Counters \ {n}
        PROVE  Unreported(m)' = Unreported(m)
    <3>1. \A t \in Senders : Doing(t, "value") /\ sender[t].name = m
                             <=> (Doing(t, "value") /\ sender[t].name = m)'
      BY <1>4, <1>5 DEF Doing
    <3>. QED  BY <3>1 DEF Unreported
  <2>. QED  BY <2>1, <2>2
<1>12. CountsGood'
  <2>1. ASSUME NEW m \in Counters \ {n}
        PROVE  counter'[m] = counter[m] /\ counted'[m] = counted[m] /\ reported'[m] = reported[m]
    BY <1>3, <1>8
  <2>2. /\ counter'[n] = next /\ counted'[n] = IF same THEN counted[n] + 1 ELSE 1
        /\ reported'[n] = IF same THEN reported[n] ELSE {}
    BY <1>1, <1>3, <1>8
  <2>3. /\ counter[n].count = counted[n] \/ counter[n].count = counted[n] - 1
        /\ reported[n] = counter[n].count + 1 - counted[n] .. counter[n].count
    BY <1>1, <1>7 DEF MetricsIInv, Counting, CountsGood, ValuesTo
  <2>4. /\ counter'[n].count = counted'[n] \/ counter'[n].count = counted'[n] - 1
        /\ counted'[n] > 0
        /\ reported'[n] = counter'[n].count + 1 - counted'[n] .. counter'[n].count - 1
    <3>1. CASE same
      <4>1. /\ counter'[n].count = counter[n].count + 1 /\ counted'[n] = counted[n] + 1
            /\ reported'[n] = reported[n]
        BY <1>2, <1>7, <2>2, <3>1
      <4>. QED  BY <1>8, <2>3, <4>1
    <3>2. CASE ~same
      <4>1. counter'[n].count \in {0, 1} /\ counted'[n] = 1 /\ reported'[n] = {}
        BY <1>2, <2>2, <3>2
      <4>. QED  BY <4>1
    <3>. QED  BY <3>1, <3>2
  <2>5. CountsGood
    BY DEF MetricsIInv, Counting
  <2>. SUFFICES ASSUME NEW m \in Counters
       PROVE  /\ counter'[m].count = counted'[m] \/ counter'[m].count = counted'[m] - 1
              /\ Unreported(m)' => counted'[m] > 0 /\ reported'[m] = ValuesTo(m, counter[m].count - 1)'
              /\ ~Unreported(m)' => reported'[m] = ValuesTo(m, counter[m].count)'
    BY DEF CountsGood
  <2>6. CASE m = n
    BY <1>11, <2>4, <2>6 DEF ValuesTo
  <2>7. CASE m # n
    BY <1>11, <2>1, <2>5, <2>7 DEF CountsGood, ValuesTo
  <2>. QED  BY <2>6, <2>7
<1>13. Alone' /\ Sent'
  BY <1>4, ConnectionLeft DEF StoreCounter, MetricsIInv, InConnect
<1>. QED  BY <1>9, <1>10, <1>12, <1>13 DEF MetricsIInv, Counting

(* The value is reported, the mutex given back: on to the connection. *)
LEMMA ReportKeeps ==
  ASSUME MetricsIInv, NEW s \in Senders, ReportValue(s)
  PROVE  MetricsIInv'
<1>. DEFINE n == sender[s].name
            after == [sender[s] EXCEPT !.pc = "close", !.c = NoCounter, !.left = Retries + 1]
<1>1. MetricsTypeOK /\ sender[s] \in SenderState /\ n \in Counters
  BY DEF MetricsIInv, MetricsTypeOK, SenderState
<1>2. after \in SenderState /\ after.pc = "close"
  <2>1. Retries + 1 \in 0 .. Retries + 1
    BY MetricsAssumption
  <2>. QED  BY <1>1, <2>1, OutsideType DEF SenderState, SenderStep
<1>3. sender' = [sender EXCEPT ![s] = after]
  BY DEF ReportValue
<1>. HIDE DEF after
<1>4. /\ sender' \in [Senders -> SenderState]
      /\ \A t \in Senders \ {s} : sender'[t] = sender[t]
      /\ sender'[s].pc = "close"
  BY <1>1, <1>2, <1>3 DEF MetricsTypeOK
<1>5. sender[s].pc = "value" /\ reported' = [reported EXCEPT ![n] = reported[n] \cup {counter[n].count}]
  BY DEF ReportValue, Doing
<1>6. \A t \in Senders \ {s} : ~Critical(t)
  BY <1>5 DEF MetricsIInv, Counting, MutexHeld, Critical
<1>7. Unreported(n) /\ (\A m \in Counters : ~Unreported(m)')
      /\ \A m \in Counters \ {n} : ~Unreported(m)
  BY <1>4, <1>5, <1>6 DEF Unreported, Critical, Doing
<1>. HIDE DEF n
<1>8. /\ counter[n].count \in Nat /\ counted[n] \in Nat /\ reported \in [Counters -> SUBSET Nat]
  BY <1>1 DEF MetricsTypeOK, CounterState
<1>9. MetricsTypeOK'
  <2>1. reported' \in [Counters -> SUBSET Nat]
    BY <1>5, <1>8
  <2>2. mux' \in Senders \cup {NoSender} /\ trouble' \subseteq {"overlap", "network"}
    BY <1>1 DEF ReportValue, MetricsTypeOK
  <2>. QED  BY <1>1, <1>4, <2>1, <2>2 DEF ReportValue, MetricsTypeOK
<1>10. MutexHeld' /\ CopyFresh'
  BY <1>4, <1>6 DEF MutexHeld, CopyFresh, Critical, Doing
<1>11. CountsGood'
  <2>1. ASSUME NEW m \in Counters \ {n}
        PROVE  reported'[m] = reported[m]
    BY <1>5, <1>8
  <2>2. reported'[n] = reported[n] \cup {counter[n].count}
    BY <1>1, <1>5, <1>8
  <2>3. /\ counter[n].count = counted[n] \/ counter[n].count = counted[n] - 1
        /\ counted[n] > 0 /\ reported[n] = counter[n].count + 1 - counted[n] .. counter[n].count - 1
    BY <1>1, <1>7 DEF MetricsIInv, Counting, CountsGood, ValuesTo
  <2>4. reported'[n] = counter[n].count + 1 - counted[n] .. counter[n].count
    BY <1>8, <2>2, <2>3
  <2>5. UNCHANGED <<counter, counted>>
    BY DEF ReportValue
  <2>. QED  BY <1>1, <1>7, <2>1, <2>3, <2>4, <2>5 DEF MetricsIInv, Counting, CountsGood, ValuesTo
<1>12. Alone'
  <2>. SUFFICES ASSUME "overlap" \notin trouble'
       PROVE  /\ \A t, u \in Senders : InConnect(t)' /\ InConnect(u)' => t = u
              /\ \A t \in Senders : sender'[t].pc \in {"dial", "assign"} => ~connOpen'
              /\ ~forgotten'
    BY DEF Alone
  <2>1. Connecting = {} /\ trouble' = trouble
    BY DEF ReportValue
  <2>2. \A t \in Senders : ~InConnect(t)
    BY <2>1 DEF Connecting, InConnect
  <2>. QED  BY <1>4, <2>1, <2>2 DEF ReportValue, MetricsIInv, Alone, InConnect
<1>13. Sent'
  <2>1. trouble' = {} => trouble = {}
    BY DEF ReportValue
  <2>. QED  BY <1>4, <2>1 DEF ReportValue, MetricsIInv, Sent, Doing
<1>. QED  BY <1>9, <1>10, <1>11, <1>12, <1>13 DEF MetricsIInv, Counting

-----------------------------------------------------------------------------
(* The steps on the connection count nothing and leave the others alone.   *)

LEMMA ConnectionCounts ==
  ASSUME MetricsIInv, NEW s \in Senders, InConnect(s), ~Critical(s)',
         UNCHANGED <<counter, mux, counted, reported>>,
         \A t \in Senders \ {s} : sender'[t] = sender[t]
  PROVE  Counting'
<1>1. ~Critical(s)
  BY DEF InConnect, Critical
<1>. QED  BY <1>1, CountingKept DEF MetricsIInv

(* With the only one in the connection, nobody else is. *)
LEMMA OnlyOne ==
  ASSUME MetricsIInv, NEW s \in Senders, InConnect(s), "overlap" \notin trouble
  PROVE  /\ \A t \in Senders \ {s} : ~InConnect(t) /\ ~Doing(t, "send")
         /\ sender[s].pc \in {"dial", "assign"} => ~connOpen
         /\ ~forgotten
  BY DEF MetricsIInv, Alone, InConnect, Doing

LEMMA CloseKeeps ==
  ASSUME MetricsIInv, NEW s \in Senders, CloseConn(s)
  PROVE  MetricsIInv'
<1>1. MetricsTypeOK /\ sender[s].pc = "close" /\ InConnect(s)
  BY DEF MetricsIInv, CloseConn, Doing, InConnect
<1>2. /\ sender' \in [Senders -> SenderState]
      /\ \A t \in Senders \ {s} : sender'[t] = sender[t]
      /\ sender'[s].pc = "dial"
  BY <1>1, ProceedSender DEF CloseConn, SenderStep
<1>3. MetricsTypeOK'
  BY <1>1, <1>2 DEF CloseConn, MetricsTypeOK
<1>4. Counting'
  BY <1>1, <1>2, ConnectionCounts DEF CloseConn, Critical
<1>5. Alone'
  BY <1>1, <1>2, OnlyOne DEF CloseConn, Alone, InConnect
<1>6. Sent'
  BY <1>1, <1>2, OnlyOne DEF CloseConn, MetricsIInv, Sent, Doing
<1>. QED  BY <1>3, <1>4, <1>5, <1>6 DEF MetricsIInv

LEMMA DialKeeps ==
  ASSUME MetricsIInv, NEW s \in Senders, Dial(s)
  PROVE  MetricsIInv'
<1>1. MetricsTypeOK /\ sender[s].pc = "dial" /\ InConnect(s)
  BY DEF MetricsIInv, Dial, Doing, InConnect
<1>2. /\ sender' \in [Senders -> SenderState]
      /\ \A t \in Senders \ {s} : sender'[t] = sender[t]
      /\ \/ sender'[s].pc = "assign" /\ UNCHANGED trouble
         \/ sender'[s].pc = "send" /\ trouble' = trouble \cup {"network"}
  BY <1>1, ProceedSender DEF Dial, SenderStep
<1>3. MetricsTypeOK'
  BY <1>1, <1>2 DEF Dial, MetricsTypeOK
<1>4. Counting'
  BY <1>1, <1>2, ConnectionCounts DEF Dial, Critical
<1>5. Alone'
  BY <1>1, <1>2, OnlyOne DEF Dial, Alone, InConnect
<1>6. Sent'
  BY <1>1, <1>2 DEF Dial, MetricsIInv, Sent, Doing
<1>. QED  BY <1>3, <1>4, <1>5, <1>6 DEF MetricsIInv

LEMMA AssignKeeps ==
  ASSUME MetricsIInv, NEW s \in Senders, AssignConn(s)
  PROVE  MetricsIInv'
<1>1. MetricsTypeOK /\ sender[s].pc = "assign" /\ InConnect(s)
  BY DEF MetricsIInv, AssignConn, Doing, InConnect
<1>2. /\ sender' \in [Senders -> SenderState]
      /\ \A t \in Senders \ {s} : sender'[t] = sender[t]
      /\ sender'[s].pc = "send"
  BY <1>1, ProceedSender DEF AssignConn, SenderStep
<1>3. MetricsTypeOK'
  BY <1>1, <1>2 DEF AssignConn, MetricsTypeOK
<1>4. Counting'
  BY <1>1, <1>2, ConnectionCounts DEF AssignConn, Critical
<1>5. Alone'
  BY <1>1, <1>2, OnlyOne DEF AssignConn, Alone, InConnect
<1>6. Sent'
  BY DEF AssignConn, MetricsIInv, Sent
<1>. QED  BY <1>3, <1>4, <1>5, <1>6 DEF MetricsIInv

(* What a goroutine is after another try, or without one. *)
LEMMA SendAgainSender ==
  ASSUME MetricsTypeOK, NEW s \in Senders, sender[s].pc = "send", SendAgain(s)
  PROVE  /\ sender' \in [Senders -> SenderState]
         /\ \A t \in Senders \ {s} : sender'[t] = sender[t]
         /\ sender'[s].pc \in {"close", "out"}
         /\ lost' \in BOOLEAN
<1>. DEFINE next == [sender[s] EXCEPT !.pc = "close", !.left = sender[s].left - 1]
<1>1. sender[s] \in SenderState /\ lost \in BOOLEAN
  BY DEF MetricsTypeOK
<1>2. CASE protocol = "tcp" /\ sender[s].left > 0
  <2>1. sender' = [sender EXCEPT ![s] = next] /\ lost' = lost
    BY <1>2 DEF SendAgain
  <2>2. sender[s].left - 1 \in 0 .. Retries + 1
    BY <1>1, <1>2, MetricsAssumption DEF SenderState
  <2>3. next \in SenderState /\ next.pc = "close"
    BY <1>1, <2>2 DEF SenderState, SenderStep
  <2>. QED  BY <1>1, <2>1, <2>3 DEF MetricsTypeOK
<1>3. CASE ~(protocol = "tcp" /\ sender[s].left > 0)
  <2>1. Proceed(s, "out") /\ lost' = TRUE /\ "out" \in SenderStep
    BY <1>3 DEF SendAgain, SenderStep
  <2>. QED  BY <2>1, ProceedSender
<1>. QED  BY <1>2, <1>3

LEMMA SendKeeps ==
  ASSUME MetricsIInv, NEW s \in Senders, Send(s)
  PROVE  MetricsIInv'
<1>1. MetricsTypeOK /\ sender[s].pc = "send" /\ InConnect(s) /\ Doing(s, "send")
  BY DEF MetricsIInv, Send, Doing, InConnect
<1>2. /\ sender' \in [Senders -> SenderState]
      /\ \A t \in Senders \ {s} : sender'[t] = sender[t]
      /\ sender'[s].pc \in {"close", "out"} /\ lost' \in BOOLEAN
      /\ \/ connOpen /\ UNCHANGED <<lost, trouble>>
         \/ trouble' = trouble \cup {"network"}
         \/ ~connOpen /\ UNCHANGED trouble
  <2>1. CASE connOpen /\ Proceed(s, "out") /\ UNCHANGED <<lost, trouble>>
    BY <1>1, <2>1, ProceedSender DEF SenderStep, MetricsTypeOK
  <2>2. CASE connOpen /\ SendAgain(s) /\ trouble' = trouble \cup {"network"}
    BY <1>1, <2>2, SendAgainSender
  <2>3. CASE ~connOpen /\ SendAgain(s) /\ UNCHANGED trouble
    BY <1>1, <2>3, SendAgainSender
  <2>. QED  BY <2>1, <2>2, <2>3 DEF Send
<1>3. trouble' \subseteq {"overlap", "network"}
  BY <1>1, <1>2 DEF MetricsTypeOK
<1>4. MetricsTypeOK'
  BY <1>1, <1>2, <1>3 DEF Send, MetricsTypeOK
<1>5. Counting'
  BY <1>1, <1>2, ConnectionCounts DEF Send, Critical
<1>6. Alone'
  BY <1>1, <1>2, OnlyOne DEF Send, Alone, InConnect
<1>7. Sent'
  BY <1>1, <1>2 DEF Send, MetricsIInv, Sent, Doing
<1>. QED  BY <1>4, <1>5, <1>6, <1>7 DEF MetricsIInv

-----------------------------------------------------------------------------
LEMMA TickKeeps ==
  ASSUME MetricsIInv, ClockTick
  PROVE  MetricsIInv'
<1>1. clock' \in 0 .. MaxTime
  BY MetricsAssumption DEF ClockTick, MetricsIInv, MetricsTypeOK
<1>2. MetricsTypeOK'
  BY <1>1 DEF ClockTick, MetricsIInv, MetricsTypeOK
<1>3. Counting'
  BY CountingKept DEF ClockTick, MetricsIInv
<1>4. Alone' /\ Sent'
  BY ConnectionLeft DEF ClockTick, MetricsIInv
<1>. QED  BY <1>2, <1>3, <1>4 DEF MetricsIInv

LEMMA MetricsStarts ==
  ASSUME MetricsInit
  PROVE  MetricsIInv
<1>1. \A s \in Senders : sender[s] = Outside /\ sender[s].pc = "out"
  BY OutsideType DEF MetricsInit
<1>2. MetricsTypeOK
  <2>1. counter \in [Counters -> CounterState] /\ sender \in [Senders -> SenderState]
    BY OutsideType DEF MetricsInit
  <2>2. counted \in [Counters -> Nat] /\ reported \in [Counters -> SUBSET Nat]
    BY DEF MetricsInit
  <2>3. 0 \in 0 .. MaxTime /\ 0 \in 0 .. MaxIncs
    BY MetricsAssumption
  <2>. QED  BY <2>1, <2>2, <2>3 DEF MetricsInit, MetricsTypeOK
<1>3. MutexHeld /\ CopyFresh
  BY <1>1 DEF MutexHeld, CopyFresh, Critical, Doing
<1>4. CountsGood
  <2>1. \A n \in Counters : ~Unreported(n)
    BY <1>1 DEF Unreported, Doing
  <2>2. \A n \in Counters : counter[n].count = 0 /\ counted[n] = 0 /\ reported[n] = {}
    BY DEF MetricsInit, NoCounter
  <2>3. \A n \in Counters : ValuesTo(n, counter[n].count) = {}
    BY <2>2 DEF ValuesTo
  <2>. QED  BY <2>1, <2>2, <2>3 DEF CountsGood
<1>5. Alone /\ Sent
  BY <1>1 DEF MetricsInit, Alone, Sent, InConnect, Doing
<1>. QED  BY <1>2, <1>3, <1>4, <1>5 DEF MetricsIInv, Counting

LEMMA MetricsKeeps ==
  ASSUME MetricsIInv, [MetricsNext]_metricsVars
  PROVE  MetricsIInv'
<1>1. CASE ClockTick
  BY <1>1, TickKeeps
<1>2. ASSUME NEW s \in Senders, MetricsStep(s)
      PROVE  MetricsIInv'
  BY <1>2, LockKeeps, LoadKeeps, StoreKeeps, ReportKeeps, CloseKeeps, DialKeeps, AssignKeeps,
     SendKeeps DEF MetricsStep
<1>3. ASSUME NEW s \in Senders, NEW n \in Counters, Inc(s, n)
      PROVE  MetricsIInv'
  BY <1>3, IncKeeps
<1>4. CASE UNCHANGED metricsVars
  <2>1. MetricsTypeOK'
    BY <1>4 DEF metricsVars, MetricsIInv, MetricsTypeOK
  <2>2. Counting'
    BY <1>4, CountingKept DEF metricsVars, MetricsIInv
  <2>3. Alone' /\ Sent'
    BY <1>4, ConnectionLeft DEF metricsVars, MetricsIInv
  <2>. QED  BY <2>1, <2>2, <2>3 DEF MetricsIInv
<1>. QED  BY <1>1, <1>2, <1>3, <1>4 DEF MetricsNext

(* The inductive invariant of the metrics.  While a goroutine is between   *)
(* Lock and Unlock its copy is the counter, so that no step of another     *)
(* one is lost; and a goroutine alone in ConnectAndSend finds the          *)
(* connection as it left it.                                               *)
THEOREM MetricsInvariantHolds == MetricsSpec => []MetricsIInv
<1>1. MetricsInit => MetricsIInv
  BY MetricsStarts
<1>2. MetricsIInv /\ [MetricsNext]_metricsVars => MetricsIInv'
  BY MetricsKeeps
<1>. QED  BY <1>1, <1>2, PTL DEF MetricsSpec

(* The state of the metrics keeps its types. *)
THEOREM MetricsTypeCorrect == MetricsSpec => []MetricsTypeOK
<1>1. MetricsIInv => MetricsTypeOK
  BY DEF MetricsIInv
<1>. QED  BY <1>1, MetricsInvariantHolds, PTL

(* No request that Inc counts is lost or counted twice, and every value of *)
(* a counter is reported once it was reached, in each interval.            *)
THEOREM CountersSound == MetricsSpec => []CountersExact
<1>1. ASSUME MetricsIInv
      PROVE  CountersExact
  <2>. SUFFICES ASSUME mux = NoSender, NEW n \in Counters
       PROVE  /\ counter[n].count \in {counted[n], counted[n] - 1}
              /\ reported[n] = counter[n].count + 1 - counted[n] .. counter[n].count
    BY DEF CountersExact
  <2>1. ~Unreported(n)
    BY <1>1, MetricsAssumption DEF MetricsIInv, Counting, MutexHeld, Critical, Unreported, Doing
  <2>. QED  BY <1>1, <2>1 DEF MetricsIInv, Counting, CountsGood, ValuesTo
<1>. QED  BY <1>1, MetricsInvariantHolds, PTL

(* As long as no two goroutines replace the connection at once, none is    *)
(* left open, and as long as the collector can be reached too, all values  *)
(* are sent.                                                               *)
THEOREM ConnectionSound == MetricsSpec => []ConnectionKept
<1>1. MetricsIInv => ConnectionKept
  BY DEF MetricsIInv, Alone, Sent, ConnectionKept
<1>. QED  BY <1>1, MetricsInvariantHolds, PTL

(* The clean-up of logs and queries.                                       *)

-----------------------------------------------------------------------------
(* The inductive invariant.                                                *)

(* The queries that the round is to delete. *)
Doomed == cleaner.queue \cup ({cleaner.query} \ {NoQuery})

Ended == \A q \in OldNames : flags[q] \in {"completed", "gone"} => q \in finished

(* A round has queries from its list to its end. *)
InRound ==
  /\ cleaner.pc \in {"asleep", "logs", "list"} <=> cleaner.query = NoQuery
  /\ cleaner.query = NoQuery => cleaner.queue = {}
  /\ cleaner.query \notin cleaner.queue
  /\ cleaner.pc = "row" => cleaner.table = 3

(* They were completed once. *)
DoomedEnded == Doomed \subseteq finished

(* A row of a query in a table that was emptied on its account was written *)
(* afterwards.                                                             *)
LeftIsLate ==
  \A q \in OldNames, i \in 1 .. 3 : Tables[i] \in stored[q] /\ Emptied(q, i) => q \in late

CleanupIInv == CleanupTypeOK /\ Ended /\ InRound /\ DoomedEnded /\ LeftIsLate

-----------------------------------------------------------------------------
LEMMA AsleepType == Asleep \in CleanerState
  BY DEF Asleep, CleanerState

LEMMA TablesType ==
  /\ \A i \in 1 .. 3 : Tables[i] \in TableSet
  /\ \A i, j \in 1 .. 3 : Tables[i] = Tables[j] => i = j
  BY DEF Tables, TableSet

(* What happens to the flags of a query while the cleaner stays as it is,  *)
(* and no query is deleted.                                                *)
LEMMA FlagsKeep ==
  ASSUME CleanupIInv, NEW q \in OldNames, NEW f \in {"active", "completed", "withdrawn"},
         flags[q] # "gone", flags' = [flags EXCEPT ![q] = f],
         f = "completed" => q \in finished',
         finished \subseteq finished', finished' \subseteq OldNames,
         UNCHANGED <<stored, logs, envRows, cleaner, incoming, late, broken>>
  PROVE  CleanupIInv'
<1>1. /\ CleanupTypeOK /\ flags'[q] = f
      /\ \A p \in OldNames \ {q} : flags'[p] = flags[p]
  BY DEF CleanupIInv, CleanupTypeOK
<1>2. CleanupTypeOK'
  BY <1>1 DEF CleanupTypeOK
<1>3. Ended'
  BY <1>1 DEF CleanupIInv, Ended
<1>4. InRound'
  BY DEF CleanupIInv, InRound
<1>5. DoomedEnded'
  BY DEF CleanupIInv, DoomedEnded, Doomed
<1>6. LeftIsLate'
  BY <1>1 DEF CleanupIInv, LeftIsLate, Emptied
<1>. QED  BY <1>2, <1>3, <1>4, <1>5, <1>6 DEF CleanupIInv

LEMMA QueriesKeep ==
  ASSUME CleanupIInv, NEW q \in OldNames,
         CreateQuery(q) \/ CompleteQuery(q) \/ ActivateQuery(q) \/ WithdrawQuery(q)
  PROVE  CleanupIInv'
<1>1. finished \subseteq OldNames
  BY DEF CleanupIInv, CleanupTypeOK
<1>. QED  BY <1>1, FlagsKeep DEF CreateQuery, CompleteQuery, ActivateQuery, WithdrawQuery, SetFlags

(* What was looked through and written again is late. *)
LEMMA WriteRowKeeps ==
  ASSUME CleanupIInv, NEW q \in OldNames, NEW i \in 1 .. 3, WriteRow(q, i)
  PROVE  CleanupIInv'
<1>1. CleanupTypeOK /\ stored[q] \subseteq TableSet /\ Tables[i] \in TableSet
  BY TablesType DEF CleanupIInv, CleanupTypeOK
<1>2. /\ stored' = [stored EXCEPT ![q] = stored[q] \cup {Tables[i]}]
      /\ late \subseteq late' /\ late' \subseteq OldNames
      /\ Emptied(q, i) => q \in late'
      /\ UNCHANGED <<flags, logs, envRows, cleaner, incoming, finished, broken>>
  BY <1>1 DEF WriteRow, CleanupTypeOK
<1>3. stored'[q] = stored[q] \cup {Tables[i]} /\ \A p \in OldNames \ {q} : stored'[p] = stored[p]
  BY <1>1, <1>2 DEF CleanupTypeOK
<1>4. CleanupTypeOK'
  BY <1>1, <1>2 DEF CleanupTypeOK
<1>5. Ended' /\ InRound' /\ DoomedEnded'
  BY <1>2 DEF CleanupIInv, Ended, InRound, DoomedEnded, Doomed
<1>6. LeftIsLate'
  <2>. SUFFICES ASSUME NEW p \in OldNames, NEW j \in 1 .. 3, Tables[j] \in stored'[p],
                       Emptied(p, j)
       PROVE  p \in late'
    BY <1>2 DEF LeftIsLate, Emptied
  <2>1. CASE Tables[j] \in stored[p]
    BY <1>2, <2>1 DEF CleanupIInv, LeftIsLate
  <2>2. CASE Tables[j] \notin stored[p]
    <3>1. p = q /\ j = i
      BY <1>3, <2>2, TablesType
    <3>. QED  BY <1>2, <3>1
  <2>. QED  BY <2>1, <2>2
<1>. QED  BY <1>4, <1>5, <1>6 DEF CleanupIInv

(* Steps of and among the logs. *)
LEMMA LogsKeep ==
  ASSUME CleanupIInv, NEW e \in LogEnvs,
         DeleteLogEnv(e) \/ \E k \in LogKinds : WriteLog(e, k) \/ LogAges(e, k)
  PROVE  CleanupIInv'
<1>1. CleanupTypeOK
  BY DEF CleanupIInv
<1>2. UNCHANGED <<flags, stored, cleaner, finished, late, broken>>
  BY DEF DeleteLogEnv, WriteLog, LogAges
<1>3. logs' \in [LogEnvs \X LogKinds -> SUBSET {"new", "old"}] /\ envRows' \subseteq LogEnvs
      /\ incoming' \in 0 .. MaxLogs
  <2>1. CASE DeleteLogEnv(e)
    BY <1>1, <2>1 DEF DeleteLogEnv, CleanupTypeOK
  <2>2. ASSUME NEW k \in LogKinds, WriteLog(e, k)
        PROVE  /\ logs' \in [LogEnvs \X LogKinds -> SUBSET {"new", "old"}] /\ envRows' \subseteq LogEnvs
               /\ incoming' \in 0 .. MaxLogs
    <3>1. logs' = [logs EXCEPT ![<<e, k>>] = logs[<<e, k>>] \cup {"new"}] /\ envRows' = envRows
      BY <2>2 DEF WriteLog
    <3>2. incoming' \in 0 .. MaxLogs
      BY <1>1, <2>2, CleanupAssumption DEF WriteLog, CleanupTypeOK
    <3>3. logs' \in [LogEnvs \X LogKinds -> SUBSET {"new", "old"}]
      BY <1>1, <3>1 DEF CleanupTypeOK
    <3>. QED  BY <1>1, <3>1, <3>2, <3>3 DEF CleanupTypeOK
  <2>3. ASSUME NEW k \in LogKinds, LogAges(e, k)
        PROVE  /\ logs' \in [LogEnvs \X LogKinds -> SUBSET {"new", "old"}] /\ envRows' \subseteq LogEnvs
               /\ incoming' \in 0 .. MaxLogs
    BY <1>1, <2>3 DEF LogAges, CleanupTypeOK
  <2>. QED  BY <2>1, <2>2, <2>3
<1>4. CleanupTypeOK'
  BY <1>1, <1>2, <1>3 DEF CleanupTypeOK
<1>5. Ended' /\ InRound' /\ DoomedEnded' /\ LeftIsLate'
  BY <1>2 DEF CleanupIInv, Ended, InRound, DoomedEnded, LeftIsLate, Doomed, Emptied
<1>. QED  BY <1>4, <1>5 DEF CleanupIInv

-----------------------------------------------------------------------------
(* The steps of the cleaner.                                               *)

(* A step that deletes nothing of queries, after which the cleaner is      *)
(* outside of a round.                                                     *)
LEMMA RoundOver ==
  ASSUME CleanupIInv, UNCHANGED <<flags, stored, finished, late>>,
         cleaner' \in CleanerState, cleaner'.pc \in {"asleep", "logs", "list"},
         cleaner'.query = NoQuery, cleaner'.queue = {}
  PROVE  Ended' /\ InRound' /\ DoomedEnded' /\ LeftIsLate'
<1>1. Ended' /\ InRound'
  BY DEF CleanupIInv, Ended, InRound
<1>2. Doomed' = {}
  BY DEF Doomed
<1>3. DoomedEnded'
  BY <1>2 DEF DoomedEnded
<1>4. LeftIsLate'
  BY CleanupAssumption DEF CleanupIInv, LeftIsLate, Emptied
<1>. QED  BY <1>1, <1>3, <1>4

LEMMA StopKeeps ==
  ASSUME CleanupIInv, cleaner' = Asleep, broken' \in BOOLEAN,
         UNCHANGED <<flags, stored, logs, envRows, incoming, finished, late>>
  PROVE  CleanupIInv'
<1>1. /\ cleaner' \in CleanerState /\ cleaner'.pc = "asleep" /\ cleaner'.query = NoQuery
      /\ cleaner'.queue = {}
  BY AsleepType DEF Asleep
<1>2. Ended' /\ InRound' /\ DoomedEnded' /\ LeftIsLate'
  BY <1>1, RoundOver
<1>3. CleanupTypeOK'
  BY <1>1 DEF CleanupIInv, CleanupTypeOK
<1>. QED  BY <1>2, <1>3 DEF CleanupIInv

LEMMA BrokenType ==
  ASSUME CleanupTypeOK, NEW ok \in BOOLEAN, Failing(ok)
  PROVE  broken' \in BOOLEAN
  BY DEF CleanupTypeOK, Failing

LEMMA BeforeQueriesKeep ==
  ASSUME CleanupIInv, NEW ok \in BOOLEAN, Wake(ok) \/ CleanLogs(ok) \/ LogsDone
  PROVE  CleanupIInv'
<1>1. CleanupTypeOK /\ cleaner \in CleanerState /\ envRows \subseteq LogEnvs
  BY DEF CleanupIInv, CleanupTypeOK
<1>2. broken' \in BOOLEAN
  BY <1>1, BrokenType DEF Wake, CleanLogs, LogsDone, CleanupTypeOK
<1>3. UNCHANGED <<flags, stored, envRows, incoming, finished, late>>
  BY DEF Wake, CleanLogs, LogsDone
<1>4. cleaner.pc \in {"asleep", "logs"}
  BY DEF Wake, CleanLogs, LogsDone
<1>5. cleaner.query = NoQuery /\ cleaner.queue = {}
  BY <1>4 DEF CleanupIInv, InRound
<1>6. /\ cleaner' \in CleanerState /\ cleaner'.pc \in {"logs", "list"}
      /\ cleaner'.query = cleaner.query /\ cleaner'.queue = cleaner.queue
  <2>1. CASE Wake(ok)
    <3>1. (IF ok THEN envRows ELSE {}) \in SUBSET LogEnvs
      BY <1>1
    <3>. QED  BY <1>1, <2>1, <3>1 DEF Wake, CleanerState
  <2>2. CASE CleanLogs(ok)
    <3>1. PICK e \in cleaner.envs : cleaner' = [cleaner EXCEPT !.envs = cleaner.envs \ {e}]
      BY <2>2 DEF CleanLogs
    <3>2. cleaner.pc = "logs" /\ cleaner.envs \ {e} \in SUBSET LogEnvs
      BY <1>1, <2>2 DEF CleanLogs, CleanerState
    <3>. QED  BY <1>1, <3>1, <3>2 DEF CleanerState
  <2>3. CASE LogsDone
    BY <1>1, <2>3 DEF LogsDone, CleanerState
  <2>. QED  BY <2>1, <2>2, <2>3
<1>7. logs' \in [LogEnvs \X LogKinds -> SUBSET {"new", "old"}]
  <2>1. CASE UNCHANGED logs
    BY <1>1, <2>1 DEF CleanupTypeOK
  <2>2. CASE CleanLogs(ok)
    BY <1>1, <2>2 DEF CleanLogs, CleanupTypeOK
  <2>. QED  BY <2>1, <2>2 DEF Wake, LogsDone
<1>8. CleanupTypeOK'
  BY <1>1, <1>2, <1>3, <1>6, <1>7 DEF CleanupTypeOK
<1>9. Ended' /\ InRound' /\ DoomedEnded' /\ LeftIsLate'
  BY <1>3, <1>5, <1>6, RoundOver
<1>. QED  BY <1>8, <1>9 DEF CleanupIInv

(* The next query of a queue of completed ones is taken. *)
LEMMA TakeNextKeeps ==
  ASSUME CleanupIInv, NEW queue \in SUBSET OldNames, cleaner' \in TakeNext(queue),
         finished' = finished,
         queue \subseteq finished,
         \A q \in OldNames, i \in 1 .. 3 :
           Tables[i] \in stored'[q] /\ flags'[q] = "gone" => q \in late'
  PROVE  cleaner' \in CleanerState /\ InRound' /\ DoomedEnded' /\ LeftIsLate'
<1>1. CASE queue = {}
  <2>1. cleaner' = Asleep
    BY <1>1 DEF TakeNext
  <2>2. /\ cleaner' \in CleanerState /\ cleaner'.pc = "asleep" /\ cleaner'.query = NoQuery
        /\ cleaner'.queue = {}
    BY <2>1, AsleepType DEF Asleep
  <2>3. InRound' /\ Doomed' = {}
    BY <2>2 DEF InRound, Doomed
  <2>4. LeftIsLate'
    BY <2>2, CleanupAssumption DEF LeftIsLate, Emptied
  <2>. QED  BY <2>2, <2>3, <2>4 DEF DoomedEnded
<1>2. CASE queue # {}
  <2>1. PICK q \in queue :
          cleaner' = [Asleep EXCEPT !.pc = "find", !.queue = queue \ {q}, !.query = q]
    BY <1>2 DEF TakeNext
  <2>7. q \in OldNames /\ q # NoQuery /\ queue \ {q} \in SUBSET OldNames
    BY CleanupAssumption
  <2>8. cleaner' = [pc |-> "find", envs |-> {}, queue |-> queue \ {q}, query |-> q,
                    table |-> 1]
    BY <2>1 DEF Asleep
  <2>2. /\ cleaner' \in CleanerState /\ cleaner'.pc = "find" /\ cleaner'.query = q
        /\ cleaner'.queue = queue \ {q} /\ cleaner'.table = 1 /\ q # NoQuery
    BY <2>7, <2>8 DEF CleanerState
  <2>3. InRound'
    BY <2>2 DEF InRound
  <2>4. Doomed' = queue
    BY <2>2, CleanupAssumption DEF Doomed
  <2>5. DoomedEnded'
    BY <2>4 DEF DoomedEnded
  <2>6. LeftIsLate'
    BY <2>2 DEF LeftIsLate, Emptied
  <2>. QED  BY <2>2, <2>3, <2>5, <2>6
<1>. QED  BY <1>1, <1>2

LEMMA ListKeeps ==
  ASSUME CleanupIInv, NEW ok \in BOOLEAN, ListQueries(ok)
  PROVE  CleanupIInv'
<1>1. CleanupTypeOK /\ broken' \in BOOLEAN
  BY BrokenType DEF CleanupIInv, ListQueries
<1>2. UNCHANGED <<flags, stored, logs, envRows, incoming, finished, late>>
  BY DEF ListQueries
<1>. DEFINE queue == IF ok THEN Listed(Existing) ELSE {}
<1>3. cleaner' \in TakeNext(queue)
  BY DEF ListQueries
<1>4. queue \in SUBSET OldNames /\ queue \subseteq finished
  BY DEF Listed, Existing, CleanupIInv, Ended
<1>5. Ended'
  BY <1>2 DEF CleanupIInv, Ended
<1>6. \A q \in OldNames, i \in 1 .. 3 :
        Tables[i] \in stored'[q] /\ flags'[q] = "gone" => q \in late'
  BY <1>2 DEF CleanupIInv, LeftIsLate, Emptied
<1>. HIDE DEF queue
<1>8. cleaner' \in CleanerState /\ InRound' /\ DoomedEnded' /\ LeftIsLate'
  BY <1>2, <1>3, <1>4, <1>6, TakeNextKeeps
<1>9. CleanupTypeOK'
  BY <1>1, <1>2, <1>8 DEF CleanupTypeOK
<1>. QED  BY <1>5, <1>8, <1>9 DEF CleanupIInv

LEMMA FindKeeps ==
  ASSUME CleanupIInv, NEW ok \in BOOLEAN, FindRows(ok)
  PROVE  CleanupIInv'
<1>1. CleanupTypeOK /\ broken' \in BOOLEAN /\ cleaner \in CleanerState
  BY BrokenType DEF CleanupIInv, CleanupTypeOK, FindRows
<1>2. UNCHANGED <<flags, stored, logs, envRows, incoming, finished, late>> /\ cleaner.pc = "find"
  BY DEF FindRows
<1>3. CASE ok
  <2>1. /\ cleaner' \in CleanerState /\ cleaner'.pc = "delete"
        /\ cleaner'.query = cleaner.query /\ cleaner'.queue = cleaner.queue
        /\ cleaner'.table = cleaner.table
    BY <1>1, <1>3 DEF FindRows, CleanerState
  <2>2. InRound' /\ Doomed' = Doomed
    BY <1>2, <2>1 DEF CleanupIInv, InRound, Doomed
  <2>3. DoomedEnded' /\ Ended'
    BY <1>2, <2>2 DEF CleanupIInv, DoomedEnded, Ended
  <2>4. LeftIsLate'
    BY <1>2, <2>1 DEF CleanupIInv, LeftIsLate, Emptied
  <2>5. CleanupTypeOK'
    BY <1>1, <1>2, <2>1 DEF CleanupTypeOK
  <2>. QED  BY <2>2, <2>3, <2>4, <2>5 DEF CleanupIInv
<1>4. CASE ~ok
  BY <1>1, <1>2, <1>4, StopKeeps DEF FindRows
<1>. QED  BY <1>3, <1>4

(* A table has no row of any query when it has just been emptied.          *)
LEMMA DeleteRowsKeeps ==
  ASSUME CleanupIInv, NEW ok \in BOOLEAN, DeleteRows(ok)
  PROVE  CleanupIInv'
<1>1. CleanupTypeOK /\ broken' \in BOOLEAN /\ cleaner \in CleanerState
  BY BrokenType DEF CleanupIInv, CleanupTypeOK, DeleteRows
<1>2. UNCHANGED <<flags, logs, envRows, incoming, finished, late>> /\ cleaner.pc = "delete"
  BY DEF DeleteRows
<1>3. CASE ok
  <2>. DEFINE i == cleaner.table
              next == AfterTable(i)
  <2>1. cleaner' = [cleaner EXCEPT !.pc = next.pc, !.table = next.table]
    BY <1>3 DEF DeleteRows
  <2>2. /\ i \in 1 .. 3
        /\ i = 3 => next.pc = "row" /\ next.table = 3
        /\ i # 3 => next.pc = "find" /\ next.table = i + 1
    BY <1>1 DEF AfterTable, CleanerState
  <2>3. next.pc \in {"find", "row"} /\ next.table \in 1 .. 3
    BY <2>2
  <2>. HIDE DEF next
  <2>4. /\ cleaner'.pc = next.pc /\ cleaner'.table = next.table
        /\ cleaner'.query = cleaner.query /\ cleaner'.queue = cleaner.queue
    BY <1>1, <2>1 DEF CleanerState
  <2>5. cleaner' \in CleanerState
    BY <1>1, <2>1, <2>3 DEF CleanerState
  <2>6. InRound' /\ Doomed' = Doomed
    BY <1>2, <2>2, <2>3, <2>4 DEF CleanupIInv, InRound, Doomed
  <2>7. DoomedEnded' /\ Ended'
    BY <1>2, <2>6 DEF CleanupIInv, DoomedEnded, Ended
  <2>8. /\ \A q \in OldNames : stored'[q] = stored[q] \ {Tables[i]}
        /\ stored' \in [OldNames -> SUBSET TableSet]
    BY <1>1, <1>3 DEF DeleteRows, CleanupTypeOK
  <2>9. LeftIsLate'
    <3>. SUFFICES ASSUME NEW q \in OldNames, NEW j \in 1 .. 3, Tables[j] \in stored'[q],
                         Emptied(q, j)'
         PROVE  q \in late
      BY <1>2 DEF LeftIsLate
    <3>1. Tables[j] \in stored[q] /\ j # i
      BY <2>8
    <3>2. CASE flags[q] = "gone"
      BY <3>1, <3>2 DEF CleanupIInv, LeftIsLate, Emptied
    <3>3. CASE cleaner.query = q /\ (next.table > j \/ next.pc = "row")
      <4>1. i > j
        BY <2>2, <2>3, <3>1, <3>3
      <4>. QED  BY <3>1, <3>3, <4>1 DEF CleanupIInv, LeftIsLate, Emptied
    <3>. QED  BY <1>2, <2>4, <3>2, <3>3 DEF Emptied
  <2>10. CleanupTypeOK'
    BY <1>1, <1>2, <2>5, <2>8 DEF CleanupTypeOK
  <2>. QED  BY <2>6, <2>7, <2>9, <2>10 DEF CleanupIInv
<1>4. CASE ~ok
  <2>1. cleaner' = Asleep /\ UNCHANGED stored
    BY <1>4 DEF DeleteRows
  <2>. QED  BY <1>1, <1>2, <2>1, StopKeeps
<1>. QED  BY <1>3, <1>4

LEMMA DeleteQueryKeeps ==
  ASSUME CleanupIInv, NEW ok \in BOOLEAN, DeleteQuery(ok)
  PROVE  CleanupIInv'
<1>1. CleanupTypeOK /\ broken' \in BOOLEAN /\ cleaner \in CleanerState
  BY BrokenType DEF CleanupIInv, CleanupTypeOK, DeleteQuery
<1>2. UNCHANGED <<stored, logs, envRows, incoming, finished, late>> /\ cleaner.pc = "row"
  BY DEF DeleteQuery
<1>3. CASE ok
  <2>. DEFINE query == cleaner.query
              queue == cleaner.queue
  <2>1. flags' = [flags EXCEPT ![query] = "gone"] /\ cleaner' \in TakeNext(queue)
    BY <1>3 DEF DeleteQuery
  <2>2. /\ query \in OldNames /\ query # NoQuery /\ queue \in SUBSET OldNames /\ query \notin queue
        /\ cleaner.table = 3
    BY <1>1, <1>2 DEF CleanupIInv, InRound, CleanerState
  <2>3. flags'[query] = "gone" /\ \A q \in OldNames \ {query} : flags'[q] = flags[q]
    BY <1>1, <2>1, <2>2 DEF CleanupTypeOK
  <2>4. Doomed = queue \cup {query}
    BY <2>2 DEF Doomed
  <2>5. query \in finished /\ queue \subseteq finished
    BY <2>4 DEF CleanupIInv, DoomedEnded
  <2>8. Ended'
    BY <1>2, <2>2, <2>3, <2>5 DEF CleanupIInv, Ended
  <2>9. \A q \in OldNames, i \in 1 .. 3 :
          Tables[i] \in stored'[q] /\ flags'[q] = "gone" => q \in late'
    <3>. SUFFICES ASSUME NEW q \in OldNames, NEW i \in 1 .. 3, Tables[i] \in stored[q],
                         flags'[q] = "gone"
         PROVE  q \in late
      BY <1>2
    <3>1. CASE q = query
      BY <1>2, <2>2, <3>1 DEF CleanupIInv, LeftIsLate, Emptied
    <3>2. CASE q # query
      BY <2>3, <3>2 DEF CleanupIInv, LeftIsLate, Emptied
    <3>. QED  BY <3>1, <3>2
  <2>. HIDE DEF query, queue
  <2>11. cleaner' \in CleanerState /\ InRound' /\ DoomedEnded' /\ LeftIsLate'
    BY <1>2, <2>1, <2>2, <2>5, <2>9, TakeNextKeeps
  <2>12. CleanupTypeOK'
    BY <1>1, <1>2, <2>1, <2>11 DEF CleanupTypeOK
  <2>. QED  BY <2>8, <2>11, <2>12 DEF CleanupIInv
<1>4. CASE ~ok
  <2>1. cleaner' = Asleep /\ UNCHANGED flags
    BY <1>4 DEF DeleteQuery
  <2>. QED  BY <1>1, <1>2, <2>1, StopKeeps
<1>. QED  BY <1>3, <1>4

-----------------------------------------------------------------------------
LEMMA CleanupInitially == CleanupInit => CleanupIInv
<1>. SUFFICES ASSUME CleanupInit  PROVE CleanupIInv
  OBVIOUS
<1>1. /\ cleaner \in CleanerState /\ cleaner.pc = "asleep" /\ cleaner.query = NoQuery
      /\ cleaner.queue = {}
  BY AsleepType DEF CleanupInit, Asleep
<1>2. CleanupTypeOK
  <2>1. /\ flags \in [OldNames -> {"none", "active", "completed", "withdrawn", "gone"}]
        /\ stored \in [OldNames -> SUBSET TableSet]
    BY DEF CleanupInit
  <2>2. logs \in [LogEnvs \X LogKinds -> SUBSET {"new", "old"}]
    BY DEF CleanupInit
  <2>3. incoming \in 0 .. MaxLogs
    BY CleanupAssumption DEF CleanupInit
  <2>. QED  BY <1>1, <2>1, <2>2, <2>3 DEF CleanupInit, CleanupTypeOK
<1>3. Ended /\ LeftIsLate
  BY DEF CleanupInit, Ended, LeftIsLate
<1>4. InRound /\ Doomed = {}
  BY <1>1 DEF InRound, Doomed
<1>. QED  BY <1>2, <1>3, <1>4 DEF CleanupIInv, DoomedEnded

LEMMA CleanupStep ==
  ASSUME CleanupIInv, [CleanupNext]_cleanupVars
  PROVE  CleanupIInv'
<1>1. CASE CleanerActs
  <2>1. ASSUME NEW ok \in BOOLEAN, CleanerStep(ok)
        PROVE  CleanupIInv'
    BY <2>1, BeforeQueriesKeep, ListKeeps, FindKeeps, DeleteRowsKeeps, DeleteQueryKeeps
       DEF CleanerStep
  <2>2. CASE RestartCleaner
    BY <2>2, StopKeeps DEF RestartCleaner
  <2>. QED  BY <1>1, <2>1, <2>2 DEF CleanerActs
<1>2. CASE QueriesChange
  BY <1>2, QueriesKeep, WriteRowKeeps DEF QueriesChange
<1>3. CASE LogsChange
  BY <1>3, LogsKeep DEF LogsChange
<1>4. CASE UNCHANGED cleanupVars
  BY <1>4 DEF cleanupVars, CleanupIInv, CleanupTypeOK, Ended, InRound, DoomedEnded, LeftIsLate,
              Doomed, Emptied
<1>. QED  BY <1>1, <1>2, <1>3, <1>4 DEF CleanupNext

(* Each reachable state satisfies the inductive invariant.                 *)
THEOREM CleanupInvariantHolds == CleanupSpec => []CleanupIInv
<1>1. CleanupIInv /\ [CleanupNext]_cleanupVars => CleanupIInv'
  BY CleanupStep
<1>. QED  BY <1>1, CleanupInitially, PTL DEF CleanupSpec

(* The round, the flags, the tables and the logs keep their types.         *)
THEOREM CleanupTypeCorrect == CleanupSpec => []CleanupTypeOK
<1>1. CleanupIInv => CleanupTypeOK
  BY DEF CleanupIInv
<1>. QED  BY <1>1, CleanupInvariantHolds, PTL

(* Whatever is written while CleanQueryLogs goes through the tables, what  *)
(* it leaves of a deleted query was written behind its back.               *)
THEOREM OrphansSound == CleanupSpec => []OrphansAreLate
<1>1. CleanupIInv => OrphansAreLate
  <2>. SUFFICES ASSUME CleanupIInv, NEW q \in OldNames, flags[q] = "gone", stored[q] # {}
       PROVE  q \in late
    BY DEF OrphansAreLate
  <2>1. PICK t \in TableSet : t \in stored[q]
    BY DEF CleanupIInv, CleanupTypeOK
  <2>2. PICK i \in 1 .. 3 : Tables[i] = t
    BY DEF Tables, TableSet
  <2>. QED  BY <2>1, <2>2 DEF CleanupIInv, LeftIsLate, Emptied
<1>. QED  BY <1>1, CleanupInvariantHolds, PTL

(* CleanQueryLogs never deletes the row of a query that was not completed, *)
(* and deletes nothing of queries before one was.                          *)
THEOREM UncompletedSound == CleanupSpec => UncompletedStay
<1>. DEFINE Kind == /\ \A q \in OldNames \ finished : flags'[q] # "gone"
                    /\ finished = {} => \A q \in OldNames : stored[q] \subseteq stored'[q]
<1>1. CleanupIInv /\ [CleanupNext]_cleanupVars => [Kind]_cleanupVars
  <2>. SUFFICES ASSUME CleanupIInv, CleanupNext  PROVE Kind
    BY DEF cleanupVars
  <2>1. CleanupTypeOK /\ Ended
    BY DEF CleanupIInv
  <2>2. ASSUME UNCHANGED flags, \A q \in OldNames : stored[q] \subseteq stored'[q]
        PROVE  Kind
    BY <2>1, <2>2 DEF Ended
  <2>3. CASE LogsChange
    BY <2>2, <2>3 DEF LogsChange, DeleteLogEnv, WriteLog, LogAges
  <2>4. ASSUME NEW q \in OldNames, NEW i \in 1 .. 3, WriteRow(q, i)
        PROVE  Kind
    <3>1. UNCHANGED flags /\ \A p \in OldNames : stored[p] \subseteq stored'[p]
      BY <2>1, <2>4 DEF WriteRow, CleanupTypeOK
    <3>. QED  BY <2>2, <3>1
  <2>5. ASSUME NEW q \in OldNames, NEW f \in {"active", "completed", "withdrawn"},
               flags' = [flags EXCEPT ![q] = f], flags[q] # "gone", UNCHANGED stored
        PROVE  Kind
    BY <2>1, <2>5 DEF Ended, CleanupTypeOK
  <2>6. ASSUME NEW q \in OldNames,
               CreateQuery(q) \/ CompleteQuery(q) \/ ActivateQuery(q) \/ WithdrawQuery(q)
        PROVE  Kind
    BY <2>5, <2>6 DEF CreateQuery, CompleteQuery, ActivateQuery, WithdrawQuery, SetFlags
  <2>7. ASSUME NEW ok \in BOOLEAN, CleanerStep(ok)
        PROVE  Kind
    <3>1. CASE Wake(ok) \/ CleanLogs(ok) \/ LogsDone \/ ListQueries(ok) \/ FindRows(ok)
      BY <2>2, <3>1 DEF Wake, CleanLogs, LogsDone, ListQueries, FindRows
    <3>2. CASE DeleteRows(ok) \/ DeleteQuery(ok)
      <4>1. cleaner.query # NoQuery
        BY <3>2 DEF DeleteRows, DeleteQuery, CleanupIInv, InRound
      <4>2. cleaner.query \in finished
        BY <4>1 DEF CleanupIInv, DoomedEnded, Doomed
      <4>3. \A q \in OldNames \ finished : flags'[q] = flags[q]
        BY <2>1, <3>2, <4>2 DEF DeleteRows, DeleteQuery, CleanupTypeOK
      <4>. QED  BY <2>1, <4>2, <4>3 DEF Ended
    <3>. QED  BY <2>7, <3>1, <3>2 DEF CleanerStep
  <2>8. CASE RestartCleaner
    BY <2>2, <2>8 DEF RestartCleaner
  <2>. QED  BY <2>3, <2>4, <2>6, <2>7, <2>8 DEF CleanupNext, CleanerActs, QueriesChange
<1>. QED  BY <1>1, CleanupInvariantHolds, PTL DEF CleanupSpec, UncompletedStay

(* Settings.                                                               *)

-----------------------------------------------------------------------------
(* The inductive invariant.  A value has a second row only after ...       *)
Excused(n) ==
  \/ mishaps \cap {"added", "failure"} # {}
  \/ /\ "overlap" \in mishaps
     /\ \E s, t \in Services : s # t /\ n \in ToSet(Program[s]) \cap ToSet(Program[t])

OneAtATime ==
  "overlap" \notin mishaps => \A s, t \in Services : Starting(s) /\ Starting(t) => s = t

RowsCounted == \A n \in SettingNames : Excused(n) \/ Len(rows[n]) <= 1

(* Nobody else has to do with the values of a file. *)
FilesCounted == "failure" \notin mishaps => \A n \in SettingNames \cap JsonNames : Len(rows[n]) <= 1

(* ... because a service that is about to insert one has found none; and   *)
(* the values of its file are those it is past since its last start.       *)
Past(s, i) == At(s, "up") \/ (Starting(s) /\ i < proc[s].at)

Ready(s) ==
  /\ At(s, "insert") => Excused(Checked(s)) \/ rows[Checked(s)] = <<>>
  /\ At(s, "write") => Checked(s) \in JsonNames
  /\ proc[s].pc \in {"connect", "disable"} => Checked(s) \in MetricNames
  /\ "failure" \notin mishaps =>
       /\ At(s, "insert") /\ Checked(s) \in JsonNames => rows[Checked(s)] = <<>>
       /\ At(s, "write") => rows[Checked(s)] # <<>>
       /\ \A i \in DOMAIN Program[s] :
            Program[s][i] \in JsonNames /\ Past(s, i) => rows[Program[s][i]] = <<config[s]>>

SettingsIInv ==
  /\ SettingsTypeOK /\ OneAtATime /\ RowsCounted /\ FilesCounted
  /\ \A s \in Services : Ready(s)

-----------------------------------------------------------------------------
(* A service is at a value of its program, and at each of them once.       *)
LEMMA ProgramValues ==
  \A s \in Services :
    /\ DOMAIN Program[s] = 1 .. Len(Program[s]) /\ Len(Program[s]) \in Nat \ {0}
    /\ \A i \in DOMAIN Program[s] : Program[s][i] \in SettingNames
    /\ \A i, j \in DOMAIN Program[s] : Program[s][i] = Program[s][j] => i = j
<1>1. ASSUME NEW s \in Services
      PROVE  /\ Program[s] \in Seq(SettingNames) /\ Program[s] # <<>>
             /\ \A i, j \in DOMAIN Program[s] : Program[s][i] = Program[s][j] => i = j
  BY SettingsAssumption DEF IsInjective
<1>. QED  BY <1>1, EmptySeq, LenProperties, ElementOfSeq

LEMMA ProgramsApart ==
  \A s, t \in Services : \A i \in DOMAIN Program[s], j \in DOMAIN Program[t] :
    Program[s][i] = Program[t][j] =>
      /\ Program[s][i] \in ToSet(Program[s]) \cap ToSet(Program[t])
      /\ Program[s][i] \in JsonNames => s = t
<1>1. ASSUME NEW s \in Services, NEW t \in Services, NEW i \in DOMAIN Program[s],
             NEW j \in DOMAIN Program[t], Program[s][i] = Program[t][j]
      PROVE  Program[s][i] \in ToSet(Program[s]) \cap ToSet(Program[t])
  BY <1>1 DEF ToSet
<1>. QED  BY <1>1, SettingsAssumption

LEMMA CheckedType ==
  ASSUME SettingsTypeOK, NEW s \in Services, Starting(s)
  PROVE  proc[s].at \in DOMAIN Program[s] /\ Checked(s) \in SettingNames
BY ProgramValues DEF SettingsTypeOK, Starting, Checked

LEMMA OneValue ==
  ASSUME NEW v \in SettingValue, NEW q \in Seq(SettingValue), Len(q) = 1, q[1] = v
  PROVE  q = <<v>>
<1>1. PICK p : p = <<v>>
  OBVIOUS
<1>2. p \in Seq(SettingValue) /\ Len(p) = 1
  BY <1>1
<1>3. p[1] = v
  BY <1>1
<1>4. \A i \in 1 .. Len(q) : q[i] = p[i]
  BY <1>3
<1>5. q = p
  BY <1>2, <1>4, SeqEqual
<1>. QED  BY <1>1, <1>5

(* Writing the first row, or one more. *)
LEMMA SetFirstKeeps ==
  ASSUME SettingsTypeOK, NEW n \in SettingNames, NEW v \in SettingValue, SetFirst(n, v)
  PROVE  /\ rows' \in [SettingNames -> Seq(SettingValue)]
         /\ \A m \in SettingNames : Len(rows'[m]) = Len(rows[m])
         /\ \A m \in SettingNames \ {n} : rows'[m] = rows[m]
         /\ rows[n] # <<>> /\ Len(rows[n]) <= 1 => rows'[n] = <<v>>
         /\ rows[n] = <<>> => rows'[n] = <<>>
<1>1. PICK r : r = rows[n]
  OBVIOUS
<1>2. r \in Seq(SettingValue) /\ rows \in [SettingNames -> Seq(SettingValue)]
  BY <1>1 DEF SettingsTypeOK
<1>3. CASE r = <<>>
  BY <1>1, <1>2, <1>3 DEF SetFirst
<1>4. CASE r # <<>>
  <2>1. PICK q : q = [r EXCEPT ![1] = v]
    OBVIOUS
  <2>2. rows' = [rows EXCEPT ![n] = q]
    BY <1>1, <1>4, <2>1 DEF SetFirst
  <2>3. Len(r) \in Nat \ {0} /\ DOMAIN r = 1 .. Len(r) /\ 1 \in 1 .. Len(r)
    BY <1>2, <1>4, EmptySeq, LenProperties
  <2>4. q \in Seq(SettingValue) /\ Len(q) = Len(r) /\ q[1] = v
    BY <1>2, <2>1, <2>3, ExceptSeq
  <2>5. Len(r) <= 1 => q = <<v>>
    <3>1. Len(r) <= 1 => Len(q) = 1
      BY <2>3, <2>4
    <3>. QED  BY <2>4, <3>1, OneValue
  <2>. QED  BY <1>1, <1>2, <1>4, <2>2, <2>4, <2>5
<1>. QED  BY <1>3, <1>4

LEMMA NewRowKeeps ==
  ASSUME SettingsTypeOK, NEW n \in SettingNames, NEW v \in SettingValue, NewRow(n, v)
  PROVE  /\ rows' \in [SettingNames -> Seq(SettingValue)]
         /\ \A m \in SettingNames \ {n} : rows'[m] = rows[m]
         /\ rows[n] = <<>> => rows'[n] = <<v>> /\ Len(rows'[n]) = 1
<1>1. PICK r : r = rows[n]
  OBVIOUS
<1>2. r \in Seq(SettingValue) /\ rows \in [SettingNames -> Seq(SettingValue)]
  BY <1>1 DEF SettingsTypeOK
<1>3. Append(r, v) \in Seq(SettingValue) /\ (r = <<>> => Append(r, v) = <<v>>)
  <2>1. Append(r, v) \in Seq(SettingValue)
    BY <1>2, AppendProperties
  <2>2. r = <<>> => Len(Append(r, v)) = 1 /\ Append(r, v)[1] = v
    <3>1. Len(r) \in Nat /\ Len(Append(r, v)) = Len(r) + 1 /\ Append(r, v)[Len(r) + 1] = v
      BY <1>2, AppendProperties, LenProperties
    <3>2. r = <<>> => Len(r) = 0
      BY EmptySeq
    <3>. QED  BY <3>1, <3>2
  <2>. QED  BY <2>1, <2>2, OneValue
<1>4. rows' = [rows EXCEPT ![n] = Append(r, v)]
  BY <1>1 DEF NewRow
<1>. QED  BY <1>1, <1>2, <1>3, <1>4

LEMMA MapTypes ==
  /\ {<<f>> : f \in MapsOfRows} \subseteq {<<f>> : f \in MapSettings}
  /\ [n \in MapNames |-> <<>>] \in MapSettings
BY DEF MapsOfRows, MapSettings

-----------------------------------------------------------------------------
LEMMA ExcusedForGood ==
  ASSUME mishaps \subseteq mishaps' PROVE \A n : Excused(n) => Excused(n)'
BY DEF Excused

(* What one service does at a value leaves the others as they are. *)
LEMMA OthersReady ==
  ASSUME SettingsIInv, NEW s \in Services, NEW t \in Services, s # t, Starting(s),
         \A n \in SettingNames : n # Checked(s) => rows'[n] = rows[n],
         proc'[t] = proc[t], config'[t] = config[t], mishaps \subseteq mishaps'
  PROVE  Ready(t)'
<1>1. Ready(t) /\ Checked(t)' = Checked(t)
  BY DEF SettingsIInv, Checked
<1>2. Starting(t) =>
        /\ Checked(t) \in SettingNames
        /\ Checked(t) = Checked(s) => Excused(Checked(t))' /\ Checked(t) \notin JsonNames
  <2>1. ASSUME Starting(t), Checked(t) = Checked(s)
        PROVE  Excused(Checked(t)) /\ Checked(t) \notin JsonNames
    <3>1. proc[s].at \in DOMAIN Program[s] /\ proc[t].at \in DOMAIN Program[t]
      BY <2>1, CheckedType DEF SettingsIInv
    <3>2. "overlap" \in mishaps
      BY <2>1 DEF SettingsIInv, OneAtATime
    <3>. QED  BY <2>1, <3>1, <3>2, ProgramsApart DEF Checked, Excused
  <2>2. Starting(t) => Checked(t) \in SettingNames
    BY CheckedType DEF SettingsIInv
  <2>3. Excused(Checked(t)) => Excused(Checked(t))'
    BY <1>1 DEF Excused
  <2>. QED  BY <2>1, <2>2, <2>3
<1>3. \A i \in DOMAIN Program[t] :
        Program[t][i] \in JsonNames => rows'[Program[t][i]] = rows[Program[t][i]]
  <2>1. proc[s].at \in DOMAIN Program[s]
    BY CheckedType DEF SettingsIInv
  <2>. QED  BY <2>1, ProgramsApart, ProgramValues DEF Checked
<1>4. At(t, "insert")' => Excused(Checked(t))' \/ rows'[Checked(t)] = <<>>
  BY <1>1, <1>2, ExcusedForGood DEF Ready, At, Starting
<1>5. /\ Starting(t)' <=> Starting(t)
      /\ \A pc : At(t, pc)' <=> At(t, pc)
      /\ \A i : Past(t, i)' <=> Past(t, i)
  BY DEF Starting, At, Past
<1>6. "failure" \notin mishaps' =>
        /\ At(t, "insert") /\ Checked(t) \in JsonNames => rows'[Checked(t)] = <<>>
        /\ At(t, "write") => rows'[Checked(t)] # <<>>
  BY <1>1, <1>2 DEF Ready, At, Starting
<1>. QED  BY <1>1, <1>3, <1>4, <1>5, <1>6 DEF Ready

(* A service goes on to its next value, or to another step with this one.  *)
LEMMA NextType ==
  ASSUME SettingsTypeOK, NEW s \in Services, Starting(s), NextValue(s)
  PROVE  \E p \in ProcState :
           /\ proc' = [proc EXCEPT ![s] = p] /\ proc'[s] = p
           /\ p.pc \notin {"down", "up"} => p.at \in DOMAIN Program[s]
           /\ \/ p.pc = "up" /\ proc[s].at = Len(Program[s])
              \/ p.pc = "check" /\ p.at = proc[s].at + 1
<1>1. proc[s].at \in 1 .. Len(Program[s]) /\ Len(Program[s]) \in Nat
  BY CheckedType, ProgramValues
<1>2. proc \in [Services -> ProcState]
  BY DEF SettingsTypeOK
<1>3. CASE proc[s].at = Len(Program[s])
  <2>1. PICK p : p = [proc[s] EXCEPT !.pc = "up"]
    OBVIOUS
  <2>2. p \in ProcState /\ p.pc = "up" /\ proc' = [proc EXCEPT ![s] = p]
    BY <1>2, <1>3, <2>1 DEF NextValue, ProcState
  <2>. QED  BY <1>2, <1>3, <2>2
<1>4. CASE proc[s].at # Len(Program[s])
  <2>1. PICK p : p = [pc |-> "check", at |-> proc[s].at + 1]
    OBVIOUS
  <2>2. p \in ProcState /\ p.pc = "check" /\ p.at = proc[s].at + 1
    BY <1>1, <2>1 DEF ProcState
  <2>3. proc' = [proc EXCEPT ![s] = p]
    BY <1>4, <2>1 DEF NextValue
  <2>4. p.at \in DOMAIN Program[s]
    BY <1>1, <1>4, <2>2, ProgramValues
  <2>. QED  BY <1>2, <2>2, <2>3, <2>4
<1>. QED  BY <1>3, <1>4

LEMMA GoToType ==
  ASSUME SettingsTypeOK, NEW s \in Services, NEW pc, GoTo(s, pc),
         pc \in {"down", "check", "insert", "write", "connect", "disable", "up"},
         Starting(s) \/ pc = "down"
  PROVE  \E p \in ProcState :
           /\ proc' = [proc EXCEPT ![s] = p] /\ proc'[s] = p
           /\ p.pc \notin {"down", "up"} => p.at \in DOMAIN Program[s]
           /\ p.pc = pc /\ p.at = proc[s].at
<1>1. PICK p : p = [proc[s] EXCEPT !.pc = pc]
  OBVIOUS
<1>2. proc \in [Services -> ProcState]
  BY DEF SettingsTypeOK
<1>3. p \in ProcState /\ p.pc = pc /\ p.at = proc[s].at
  BY <1>1, <1>2 DEF ProcState
<1>4. proc' = [proc EXCEPT ![s] = p]
  BY <1>1 DEF GoTo
<1>. QED  BY <1>2, <1>3, <1>4 DEF SettingsTypeOK, Starting

LEMMA NextReady ==
  ASSUME SettingsIInv, NEW s \in Services, Starting(s), NextValue(s), config'[s] = config[s],
         \A n \in SettingNames : n # Checked(s) => rows'[n] = rows[n], mishaps \subseteq mishaps',
         "failure" \notin mishaps' /\ Checked(s) \in JsonNames => rows'[Checked(s)] = <<config[s]>>
  PROVE  Ready(s)'
<1>1. PICK p \in ProcState :
        /\ proc'[s] = p
        /\ \/ p.pc = "up" /\ proc[s].at = Len(Program[s])
           \/ p.pc = "check" /\ p.at = proc[s].at + 1
  BY NextType DEF SettingsIInv
<1>2. proc[s].at \in DOMAIN Program[s] /\ DOMAIN Program[s] = 1 .. Len(Program[s])
      /\ Len(Program[s]) \in Nat
  BY CheckedType, ProgramValues DEF SettingsIInv
<1>3. ASSUME NEW i \in DOMAIN Program[s], Past(s, i)', Program[s][i] \in JsonNames,
             "failure" \notin mishaps'
      PROVE  rows'[Program[s][i]] = <<config[s]>>
  <2>1. i < proc[s].at \/ i = proc[s].at
    BY <1>1, <1>2, <1>3 DEF Past, At, Starting
  <2>2. CASE i = proc[s].at
    BY <1>3, <2>2 DEF Checked
  <2>3. CASE i < proc[s].at
    <3>1. rows[Program[s][i]] = <<config[s]>>
      BY <1>3, <2>3 DEF SettingsIInv, Ready, Past
    <3>2. Program[s][i] # Checked(s) /\ Program[s][i] \in SettingNames
      BY <1>2, <2>3, ProgramValues DEF Checked
    <3>. QED  BY <3>1, <3>2
  <2>. QED  BY <2>1, <2>2, <2>3
<1>. QED  BY <1>1, <1>3 DEF Ready, At

LEMMA MoveReady ==
  ASSUME SettingsIInv, NEW s \in Services, Starting(s), NEW pc, GoTo(s, pc),
         pc \in {"insert", "write", "connect", "disable"}, mishaps \subseteq mishaps',
         UNCHANGED <<rows, config>>,
         pc = "insert" => rows[Checked(s)] = <<>> \/ "failure" \in mishaps',
         pc = "write" => Checked(s) \in JsonNames /\ rows[Checked(s)] # <<>>,
         pc \in {"connect", "disable"} => Checked(s) \in MetricNames
  PROVE  Ready(s)'
<1>1. PICK p \in ProcState : proc'[s] = p /\ p.pc = pc /\ p.at = proc[s].at
  BY GoToType DEF SettingsIInv
<1>2. Checked(s)' = Checked(s)
  BY <1>1 DEF Checked
<1>3. \A i : Past(s, i)' => Past(s, i)
  BY <1>1 DEF Past, At, Starting
<1>4. "failure" \in mishaps' => Excused(Checked(s))'
  BY DEF Excused
<1>. QED  BY <1>1, <1>2, <1>3, <1>4 DEF SettingsIInv, Ready, At

LEMMA DownReady ==
  ASSUME SettingsTypeOK, NEW s \in Services, GoTo(s, "down")
  PROVE  Ready(s)'
<1>1. PICK p \in ProcState : proc'[s] = p /\ p.pc = "down"
  BY GoToType
<1>. QED  BY <1>1 DEF Ready, At, Past, Starting

LEMMA StartStepKeeps ==
  ASSUME SettingsIInv, NEW s \in Services, Starting(s), NEW p \in ProcState,
         proc' = [proc EXCEPT ![s] = p], p.pc \notin {"down", "up"} => p.at \in DOMAIN Program[s],
         rows' \in [SettingNames -> Seq(SettingValue)],
         \A n \in SettingNames : n # Checked(s) => rows'[n] = rows[n],
         mishaps' = mishaps \/ StatementFails, UNCHANGED <<config, collector, map, fetched, edits>>,
         Len(rows'[Checked(s)]) <= 1 \/ Len(rows'[Checked(s)]) = Len(rows[Checked(s)])
           \/ (Excused(Checked(s)) /\ (Checked(s) \in JsonNames => "failure" \in mishaps)),
         Ready(s)'
  PROVE  SettingsIInv'
<1>1. SettingsTypeOK'
  BY DEF SettingsIInv, SettingsTypeOK, StatementFails
<1>2. mishaps \subseteq mishaps'
  BY DEF StatementFails
<1>3. OneAtATime'
  <2>1. "overlap" \in mishaps' <=> "overlap" \in mishaps
    BY DEF StatementFails
  <2>2. \A t \in Services : Starting(t)' => Starting(t)
    BY DEF SettingsIInv, SettingsTypeOK, Starting
  <2>. QED  BY <2>1, <2>2 DEF SettingsIInv, OneAtATime
<1>4. Checked(s) \in SettingNames
  BY CheckedType DEF SettingsIInv
<1>5. RowsCounted'
  <2>1. ASSUME NEW n \in SettingNames PROVE Excused(n)' \/ Len(rows'[n]) <= 1
    <3>1. Excused(n) \/ Len(rows[n]) <= 1
      BY DEF SettingsIInv, RowsCounted
    <3>2. Excused(n) => Excused(n)'
      BY <1>2, ExcusedForGood
    <3>. QED  BY <3>1, <3>2
  <2>. QED  BY <2>1 DEF RowsCounted
<1>6. FilesCounted'
  BY <1>2, <1>4 DEF SettingsIInv, FilesCounted
<1>7. ASSUME NEW t \in Services PROVE Ready(t)'
  BY <1>2, OthersReady DEF SettingsIInv, SettingsTypeOK
<1>. QED  BY <1>1, <1>3, <1>5, <1>6, <1>7 DEF SettingsIInv

-----------------------------------------------------------------------------
LEMMA StepTypes ==
  ASSUME SettingsIInv, NEW s \in Services, StartStep(s)
  PROVE  Starting(s) /\ Checked(s) \in SettingNames /\ proc[s].at \in DOMAIN Program[s]
<1>1. Starting(s)
  BY DEF StartStep, CheckValue, InsertValue, WriteValue, ConnectCollector, DisableMetrics, At, Starting
<1>. QED  BY <1>1, CheckedType DEF SettingsIInv

LEMMA CheckValueKeeps ==
  ASSUME SettingsIInv, NEW s \in Services, CheckValue(s)
  PROVE  SettingsIInv'
<1>1. Starting(s) /\ Checked(s) \in SettingNames
  BY StepTypes DEF StartStep
<1>2. /\ UNCHANGED <<rows, config, collector, map, fetched, edits>>
      /\ mishaps' = mishaps \/ StatementFails
      /\ mishaps \subseteq mishaps'
  BY DEF CheckValue, StatementFails
<1>3. ASSUME NEW pc, GoTo(s, pc), pc \in {"insert", "write", "connect"},
             pc = "insert" => rows[Checked(s)] = <<>> \/ "failure" \in mishaps',
             pc = "write" => Checked(s) \in JsonNames /\ rows[Checked(s)] # <<>>,
             pc = "connect" => Checked(s) \in MetricNames
      PROVE  SettingsIInv'
  <2>1. Ready(s)'
    BY <1>1, <1>2, <1>3, MoveReady
  <2>2. PICK p \in ProcState : /\ proc' = [proc EXCEPT ![s] = p]
                               /\ p.pc \notin {"down", "up"} => p.at \in DOMAIN Program[s]
    BY <1>1, <1>3, GoToType DEF SettingsIInv
  <2>3. rows' \in [SettingNames -> Seq(SettingValue)]
    BY <1>2 DEF SettingsIInv, SettingsTypeOK
  <2>. QED  BY <1>1, <1>2, <2>1, <2>2, <2>3, StartStepKeeps
<1>4. CASE GoTo(s, "insert") /\ (rows[Checked(s)] = <<>> \/ "failure" \in mishaps')
  BY <1>3, <1>4
<1>5. CASE rows[Checked(s)] # <<>> /\ AfterFound(s)
  <2>1. CASE Checked(s) \in JsonNames
    BY <1>3, <1>5, <2>1 DEF AfterFound
  <2>2. CASE Checked(s) \notin JsonNames /\ Checked(s) \in MetricNames
    BY <1>3, <1>5, <2>2 DEF AfterFound
  <2>3. CASE Checked(s) \notin JsonNames /\ Checked(s) \notin MetricNames
    <3>1. NextValue(s)
      BY <1>5, <2>3 DEF AfterFound
    <3>2. PICK p \in ProcState : /\ proc' = [proc EXCEPT ![s] = p]
                                 /\ p.pc \notin {"down", "up"} => p.at \in DOMAIN Program[s]
      BY <1>1, <3>1, NextType DEF SettingsIInv
    <3>3. Ready(s)'
      BY <1>1, <1>2, <2>3, <3>1, NextReady
    <3>4. rows' \in [SettingNames -> Seq(SettingValue)]
      BY <1>2 DEF SettingsIInv, SettingsTypeOK
    <3>. QED  BY <1>1, <1>2, <3>2, <3>3, <3>4, StartStepKeeps
  <2>. QED  BY <2>1, <2>2, <2>3
<1>. QED  BY <1>4, <1>5 DEF CheckValue, StatementFails

LEMMA EndKeepsSettings ==
  ASSUME SettingsIInv, NEW s \in Services, Starting(s), GoTo(s, "down"),
         mishaps' = mishaps \/ StatementFails, UNCHANGED <<config, collector, map, fetched, edits>>,
         rows' \in [SettingNames -> Seq(SettingValue)],
         \A n \in SettingNames : n # Checked(s) => rows'[n] = rows[n],
         Len(rows'[Checked(s)]) = Len(rows[Checked(s)])
  PROVE  SettingsIInv'
<1>1. PICK p \in ProcState : /\ proc' = [proc EXCEPT ![s] = p]
                             /\ p.pc \notin {"down", "up"} => p.at \in DOMAIN Program[s]
  BY GoToType DEF SettingsIInv
<1>2. Ready(s)'
  BY DownReady DEF SettingsIInv
<1>. QED  BY <1>1, <1>2, StartStepKeeps

LEMMA InsertValueKeeps ==
  ASSUME SettingsIInv, NEW s \in Services, InsertValue(s)
  PROVE  SettingsIInv'
<1>1. Starting(s) /\ Checked(s) \in SettingNames
  BY StepTypes DEF StartStep
<1>2. PICK n : n = Checked(s)
  OBVIOUS
<1>3. UNCHANGED <<config, collector, map, fetched, edits>>
  BY DEF InsertValue
<1>4. CASE StatementFails /\ GoTo(s, "down") /\ UNCHANGED rows
  <2>1. rows' \in [SettingNames -> Seq(SettingValue)]
    BY <1>4 DEF SettingsIInv, SettingsTypeOK
  <2>. QED  BY <1>1, <1>3, <1>4, <2>1, EndKeepsSettings
<1>5. CASE /\ NewRow(n, IF n \in JsonNames THEN config[s] ELSE "default")
           /\ NextValue(s) /\ UNCHANGED mishaps
  <2>1. PICK v : v = IF n \in JsonNames THEN config[s] ELSE "default"
    OBVIOUS
  <2>2. v \in SettingValue /\ NewRow(n, v)
    BY <1>5, <2>1 DEF SettingsIInv, SettingsTypeOK, SettingValue
  <2>3. /\ rows' \in [SettingNames -> Seq(SettingValue)]
        /\ \A m \in SettingNames \ {n} : rows'[m] = rows[m]
        /\ rows[n] = <<>> => rows'[n] = <<v>> /\ Len(rows'[n]) = 1
    BY <1>1, <1>2, <2>2, NewRowKeeps DEF SettingsIInv
  <2>4. /\ Excused(n) \/ rows[n] = <<>>
        /\ "failure" \notin mishaps /\ n \in JsonNames => rows[n] = <<>>
    BY <1>2 DEF InsertValue, SettingsIInv, Ready
  <2>5. Len(rows'[n]) <= 1 \/ (Excused(n) /\ (n \in JsonNames => "failure" \in mishaps))
    <3>1. rows[n] = <<>> => Len(rows'[n]) <= 1
      <4>1. rows[n] = <<>> => Len(rows'[n]) = 1
        BY <2>3, Zenon
      <4>2. PICK k : k = Len(rows'[n])
        OBVIOUS
      <4>3. k = 1 => k <= 1
        OBVIOUS
      <4>. QED  BY <4>1, <4>2, <4>3, Zenon
    <3>2. rows[n] # <<>> => Excused(n) /\ (n \in JsonNames => "failure" \in mishaps)
      BY <2>4, Zenon
    <3>. QED  BY <3>1, <3>2, Zenon
  <2>6. Ready(s)'
    BY <1>1, <1>2, <1>3, <1>5, <2>1, <2>3, <2>4, NextReady
  <2>7. PICK p \in ProcState : /\ proc' = [proc EXCEPT ![s] = p]
                               /\ p.pc \notin {"down", "up"} => p.at \in DOMAIN Program[s]
    BY <1>1, <1>5, NextType DEF SettingsIInv
  <2>. QED  BY <1>1, <1>2, <1>3, <1>5, <2>3, <2>5, <2>6, <2>7, StartStepKeeps
<1>. QED  BY <1>2, <1>4, <1>5 DEF InsertValue

LEMMA WriteValueKeeps ==
  ASSUME SettingsIInv, NEW s \in Services, WriteValue(s)
  PROVE  SettingsIInv'
<1>1. Starting(s) /\ Checked(s) \in SettingNames
  BY StepTypes DEF StartStep
<1>2. PICK n : n = Checked(s)
  OBVIOUS
<1>3. UNCHANGED <<config, collector, map, fetched, edits>>
  BY DEF WriteValue
<1>4. CASE StatementFails /\ GoTo(s, "down") /\ UNCHANGED rows
  <2>1. rows' \in [SettingNames -> Seq(SettingValue)]
    BY <1>4 DEF SettingsIInv, SettingsTypeOK
  <2>. QED  BY <1>1, <1>3, <1>4, <2>1, EndKeepsSettings
<1>5. CASE SetFirst(n, config[s]) /\ NextValue(s) /\ UNCHANGED mishaps
  <2>1. config[s] \in SettingValue
    BY DEF SettingsIInv, SettingsTypeOK, SettingValue
  <2>2. /\ rows' \in [SettingNames -> Seq(SettingValue)]
        /\ Len(rows'[n]) = Len(rows[n])
        /\ \A m \in SettingNames \ {n} : rows'[m] = rows[m]
        /\ rows[n] # <<>> /\ Len(rows[n]) <= 1 => rows'[n] = <<config[s]>>
    BY <1>1, <1>2, <1>5, <2>1, SetFirstKeeps DEF SettingsIInv
  <2>3. "failure" \notin mishaps => rows[n] # <<>> /\ Len(rows[n]) <= 1
    BY <1>1, <1>2 DEF WriteValue, SettingsIInv, Ready, FilesCounted
  <2>4. Ready(s)'
    BY <1>1, <1>2, <1>3, <1>5, <2>2, <2>3, NextReady
  <2>5. PICK p \in ProcState : /\ proc' = [proc EXCEPT ![s] = p]
                               /\ p.pc \notin {"down", "up"} => p.at \in DOMAIN Program[s]
    BY <1>1, <1>5, NextType DEF SettingsIInv
  <2>. QED  BY <1>1, <1>2, <1>3, <1>5, <2>2, <2>4, <2>5, StartStepKeeps
<1>. QED  BY <1>2, <1>4, <1>5 DEF WriteValue

LEMMA ConnectKeeps ==
  ASSUME SettingsIInv, NEW s \in Services, ConnectCollector(s)
  PROVE  SettingsIInv'
<1>1. Starting(s) /\ Checked(s) \in SettingNames
  BY StepTypes DEF StartStep
<1>2. /\ UNCHANGED <<rows, config, collector, map, fetched, edits>>
      /\ mishaps' = mishaps \/ StatementFails
      /\ mishaps \subseteq mishaps'
  BY DEF ConnectCollector, StatementFails
<1>3. rows' \in [SettingNames -> Seq(SettingValue)]
  BY <1>2 DEF SettingsIInv, SettingsTypeOK
<1>4. Checked(s) \in MetricNames /\ Checked(s) \notin JsonNames
  BY SettingsAssumption DEF ConnectCollector, SettingsIInv, Ready, At
<1>5. CASE GoTo(s, "disable")
  <2>1. Ready(s)'
    BY <1>1, <1>2, <1>4, <1>5, MoveReady
  <2>2. PICK p \in ProcState : /\ proc' = [proc EXCEPT ![s] = p]
                               /\ p.pc \notin {"down", "up"} => p.at \in DOMAIN Program[s]
    BY <1>1, <1>5, GoToType DEF SettingsIInv
  <2>. QED  BY <1>1, <1>2, <1>3, <2>1, <2>2, StartStepKeeps
<1>6. CASE GoTo(s, "down")
  BY <1>1, <1>2, <1>3, <1>6, EndKeepsSettings
<1>7. CASE NextValue(s)
  <2>1. Ready(s)'
    BY <1>1, <1>2, <1>4, <1>7, NextReady
  <2>2. PICK p \in ProcState : /\ proc' = [proc EXCEPT ![s] = p]
                               /\ p.pc \notin {"down", "up"} => p.at \in DOMAIN Program[s]
    BY <1>1, <1>7, NextType DEF SettingsIInv
  <2>. QED  BY <1>1, <1>2, <1>3, <2>1, <2>2, StartStepKeeps
<1>. QED  BY <1>5, <1>6, <1>7 DEF ConnectCollector

LEMMA DisableKeeps ==
  ASSUME SettingsIInv, NEW s \in Services, DisableMetrics(s)
  PROVE  SettingsIInv'
<1>1. Starting(s) /\ Checked(s) \in SettingNames /\ GoTo(s, "down")
  BY StepTypes DEF StartStep, DisableMetrics
<1>2. /\ UNCHANGED <<config, collector, map, fetched, edits>>
      /\ mishaps' = mishaps \/ StatementFails
  BY DEF DisableMetrics
<1>3. CASE UNCHANGED rows
  <2>1. rows' \in [SettingNames -> Seq(SettingValue)]
    BY <1>3 DEF SettingsIInv, SettingsTypeOK
  <2>. QED  BY <1>1, <1>2, <1>3, <2>1, EndKeepsSettings
<1>4. CASE SetFirst(Checked(s), "default")
  <2>1. /\ rows' \in [SettingNames -> Seq(SettingValue)]
        /\ Len(rows'[Checked(s)]) = Len(rows[Checked(s)])
        /\ \A m \in SettingNames \ {Checked(s)} : rows'[m] = rows[m]
    BY <1>1, <1>4, SetFirstKeeps DEF SettingsIInv, SettingValue
  <2>. QED  BY <1>1, <1>2, <2>1, EndKeepsSettings
<1>. QED  BY <1>3, <1>4 DEF DisableMetrics

-----------------------------------------------------------------------------
(* What the others do. *)
LEMMA StartServiceKeeps ==
  ASSUME SettingsIInv, NEW s \in Services, StartService(s)
  PROVE  SettingsIInv'
<1>1. PICK p : p = [pc |-> "check", at |-> 1]
  OBVIOUS
<1>2. p \in ProcState /\ p.pc = "check" /\ p.at = 1 /\ p.at \in DOMAIN Program[s]
  BY <1>1, ProgramValues DEF ProcState
<1>3. /\ proc' = [proc EXCEPT ![s] = p] /\ proc \in [Services -> ProcState] /\ proc'[s] = p
      /\ \A t \in Services \ {s} : proc'[t] = proc[t]
  BY <1>1 DEF StartService, SettingsIInv, SettingsTypeOK
<1>4. /\ UNCHANGED <<rows, config, collector, map, fetched, edits>>
      /\ mishaps \subseteq mishaps' /\ mishaps' \subseteq mishaps \cup {"overlap"}
      /\ (\E t \in Services : Starting(t)) => "overlap" \in mishaps'
  BY DEF StartService
<1>5. SettingsTypeOK'
  BY <1>2, <1>3, <1>4 DEF SettingsIInv, SettingsTypeOK
<1>6. OneAtATime'
  BY <1>3, <1>4 DEF OneAtATime, Starting
<1>7. RowsCounted' /\ FilesCounted'
  BY <1>4 DEF SettingsIInv, RowsCounted, FilesCounted, Excused
<1>8. Ready(s)'
  <2>1. \A i \in DOMAIN Program[s] : ~Past(s, i)'
    BY <1>2, <1>3, ProgramValues DEF Past, At, Starting
  <2>. QED  BY <1>2, <1>3, <2>1 DEF Ready, At
<1>9. ASSUME NEW t \in Services, t # s PROVE Ready(t)'
  <2>1. Ready(t)
    BY DEF SettingsIInv
  <2>2. Checked(t)' = Checked(t) /\ \A i : Past(t, i)' <=> Past(t, i)
    BY <1>3, <1>9 DEF Checked, Past, At, Starting
  <2>3. Excused(Checked(t)) => Excused(Checked(t))'
    BY <1>4, <2>2 DEF Excused
  <2>. QED  BY <1>3, <1>4, <1>9, <2>1, <2>2, <2>3 DEF Ready, At
<1>. QED  BY <1>5, <1>6, <1>7, <1>8, <1>9 DEF SettingsIInv

LEMMA CrashKeeps ==
  ASSUME SettingsIInv, NEW s \in Services, CrashService(s)
  PROVE  SettingsIInv'
<1>1. PICK p \in ProcState : proc' = [proc EXCEPT ![s] = p] /\ proc'[s] = p /\ p.pc = "down"
  BY GoToType DEF CrashService, SettingsIInv
<1>2. \A t \in Services \ {s} : proc'[t] = proc[t]
  BY <1>1 DEF SettingsIInv, SettingsTypeOK
<1>3. UNCHANGED <<rows, config>> /\ mishaps' = mishaps \cup {"crash"}
  BY DEF CrashService
<1>4. SettingsTypeOK'
  BY <1>1, <1>3 DEF CrashService, SettingsIInv, SettingsTypeOK
<1>5. OneAtATime'
  BY <1>1, <1>2, <1>3 DEF SettingsIInv, OneAtATime, Starting
<1>6. RowsCounted' /\ FilesCounted'
  BY <1>3 DEF SettingsIInv, RowsCounted, FilesCounted, Excused
<1>7. Ready(s)'
  BY DownReady DEF CrashService, SettingsIInv
<1>8. ASSUME NEW t \in Services, t # s PROVE Ready(t)'
  <2>1. Ready(t)
    BY DEF SettingsIInv
  <2>2. Checked(t)' = Checked(t) /\ \A i : Past(t, i)' <=> Past(t, i)
    BY <1>2, <1>8 DEF Checked, Past, At, Starting
  <2>3. Excused(Checked(t)) => Excused(Checked(t))'
    BY <1>3, <2>2 DEF Excused
  <2>. QED  BY <1>2, <1>3, <1>8, <2>1, <2>2, <2>3 DEF Ready, At
<1>. QED  BY <1>4, <1>5, <1>6, <1>7, <1>8 DEF SettingsIInv

(* The file of a service that is down. *)
LEMMA EditConfigKeeps ==
  ASSUME SettingsIInv, NEW s \in Services, EditConfig(s)
  PROVE  SettingsIInv'
<1>1. UNCHANGED <<rows, proc, collector, map, fetched, edits, mishaps>> /\ proc[s].pc = "down"
      /\ config' = [config EXCEPT ![s] = "second"]
  BY DEF EditConfig, At
<1>2. SettingsTypeOK'
  BY <1>1 DEF SettingsIInv, SettingsTypeOK
<1>3. OneAtATime' /\ RowsCounted' /\ FilesCounted'
  BY <1>1 DEF SettingsIInv, OneAtATime, RowsCounted, FilesCounted, Excused, Starting
<1>4. ASSUME NEW t \in Services PROVE Ready(t)'
  <2>1. Ready(t)
    BY DEF SettingsIInv
  <2>2. t # s => config'[t] = config[t]
    BY <1>1 DEF SettingsIInv, SettingsTypeOK
  <2>3. \A i : ~Past(s, i)
    BY <1>1 DEF Past, At, Starting
  <2>4. (Checked(t)' = Checked(t)) /\ (Excused(Checked(t))' <=> Excused(Checked(t)))
        /\ (\A i : Past(t, i)' <=> Past(t, i)) /\ \A pc : At(t, pc)' <=> At(t, pc)
    BY <1>1 DEF Checked, Excused, Past, At, Starting
  <2>. QED  BY <1>1, <2>1, <2>2, <2>3, <2>4 DEF Ready
<1>. QED  BY <1>2, <1>3, <1>4 DEF SettingsIInv

(* What leaves services and rows alone. *)
LEMMA RestKeeps ==
  ASSUME SettingsIInv, SettingsTypeOK', UNCHANGED <<rows, proc, config>>,
         mishaps' = mishaps \/ StatementFails
  PROVE  SettingsIInv'
<1>1. mishaps \subseteq mishaps' /\ ("overlap" \in mishaps' <=> "overlap" \in mishaps)
  BY DEF StatementFails
<1>2. OneAtATime' /\ RowsCounted' /\ FilesCounted'
  BY <1>1 DEF SettingsIInv, OneAtATime, RowsCounted, FilesCounted, Excused, Starting
<1>3. ASSUME NEW t \in Services PROVE Ready(t)'
  <2>1. Ready(t)
    BY DEF SettingsIInv
  <2>2. (Checked(t)' = Checked(t)) /\ (Excused(Checked(t)) => Excused(Checked(t))')
        /\ (\A i : Past(t, i)' <=> Past(t, i)) /\ \A pc : At(t, pc)' <=> At(t, pc)
    BY <1>1 DEF Checked, Excused, Past, At, Starting
  <2>. QED  BY <1>1, <2>1, <2>2 DEF Ready
<1>. QED  BY <1>2, <1>3 DEF SettingsIInv

(* What operators do to a value that is not of a file. *)
LEMMA EditKeeps ==
  ASSUME SettingsIInv, NEW n \in SettingNames \ JsonNames, Edit,
         rows' \in [SettingNames -> Seq(SettingValue)],
         \A m \in SettingNames \ {n} : rows'[m] = rows[m],
         \/ mishaps' = mishaps \cup {"added"}
         \/ UNCHANGED mishaps /\ rows[n] # <<>> /\ Len(rows'[n]) <= Len(rows[n])
  PROVE  SettingsIInv'
<1>1. UNCHANGED <<proc, config, collector, map, fetched>> /\ edits' \in 0 .. MaxEdits
  BY SettingsAssumption DEF Edit, SettingsIInv, SettingsTypeOK
<1>2. mishaps \subseteq mishaps' /\ ("overlap" \in mishaps' <=> "overlap" \in mishaps)
      /\ ("failure" \in mishaps' <=> "failure" \in mishaps)
      /\ mishaps' \subseteq mishaps \cup {"added"}
  OBVIOUS
<1>3. SettingsTypeOK'
  BY <1>1, <1>2 DEF SettingsIInv, SettingsTypeOK
<1>4. OneAtATime' /\ FilesCounted'
  BY <1>1, <1>2 DEF SettingsIInv, OneAtATime, FilesCounted, Starting
<1>5. RowsCounted'
  <2>1. \A m \in SettingNames : Excused(m) => Excused(m)'
    BY <1>2, ExcusedForGood
  <2>2. ASSUME UNCHANGED mishaps, Len(rows'[n]) <= Len(rows[n]), Len(rows[n]) <= 1
        PROVE  Len(rows'[n]) <= 1
    <3>1. Len(rows'[n]) \in Nat /\ Len(rows[n]) \in Nat
      BY LenProperties DEF SettingsIInv, SettingsTypeOK
    <3>. QED  BY <2>2, <3>1
  <2>3. "added" \in mishaps' => Excused(n)'
    BY DEF Excused
  <2>. QED  BY <2>1, <2>2, <2>3 DEF SettingsIInv, RowsCounted
<1>6. ASSUME NEW t \in Services PROVE Ready(t)'
  <2>1. Ready(t)
    BY DEF SettingsIInv
  <2>2. (Checked(t)' = Checked(t)) /\ (Excused(Checked(t)) => Excused(Checked(t))')
        /\ (\A i : Past(t, i)' <=> Past(t, i)) /\ \A pc : At(t, pc)' <=> At(t, pc)
    BY <1>1, <1>2 DEF Checked, Excused, Past, At, Starting
  <2>3. Starting(t) => Checked(t) \in SettingNames
    BY CheckedType DEF SettingsIInv
  <2>4. At(t, "insert") => Excused(Checked(t))' \/ rows'[Checked(t)] = <<>>
    <3>1. "added" \in mishaps' => Excused(Checked(t))'
      BY DEF Excused
    <3>. QED  BY <2>1, <2>2, <2>3, <3>1 DEF Ready, At, Starting
  <2>5. \A i \in DOMAIN Program[t] :
          Program[t][i] \in JsonNames => rows'[Program[t][i]] = rows[Program[t][i]]
    BY ProgramValues
  <2>6. At(t, "insert") \/ At(t, "write") => Checked(t) \in SettingNames
    BY <2>3 DEF At, Starting
  <2>. QED  BY <1>1, <1>2, <2>1, <2>2, <2>4, <2>5, <2>6 DEF Ready
<1>. QED  BY <1>3, <1>4, <1>5, <1>6 DEF SettingsIInv

LEMMA OperatorKeeps ==
  ASSUME SettingsIInv, Operator
  PROVE  SettingsIInv'
<1>1. PICK n \in SettingNames \ JsonNames : AddSetting(n) \/ ChangeSetting(n) \/ DeleteSetting(n)
  BY DEF Operator
<1>2. CASE AddSetting(n)
  <2>1. PICK v \in SettingValue : NewRow(n, v)
    BY <1>2 DEF AddSetting, SettingValue
  <2>2. /\ rows' \in [SettingNames -> Seq(SettingValue)]
        /\ \A m \in SettingNames \ {n} : rows'[m] = rows[m]
    BY <2>1, NewRowKeeps DEF SettingsIInv
  <2>. QED  BY <1>2, <2>2, EditKeeps DEF AddSetting
<1>3. CASE ChangeSetting(n)
  <2>1. PICK v \in SettingValue : SetFirst(n, v)
    BY <1>3 DEF ChangeSetting, SettingValue
  <2>2. /\ rows' \in [SettingNames -> Seq(SettingValue)]
        /\ Len(rows'[n]) = Len(rows[n])
        /\ \A m \in SettingNames \ {n} : rows'[m] = rows[m]
    BY <2>1, SetFirstKeeps DEF SettingsIInv
  <2>3. Len(rows[n]) \in Nat
    BY LenProperties DEF SettingsIInv, SettingsTypeOK
  <2>4. Len(rows'[n]) <= Len(rows[n])
    BY <2>2, <2>3
  <2>. QED  BY <1>3, <2>2, <2>4, EditKeeps DEF ChangeSetting
<1>4. CASE DeleteSetting(n)
  <2>1. PICK r : r = rows[n]
    OBVIOUS
  <2>2. r \in Seq(SettingValue) /\ rows \in [SettingNames -> Seq(SettingValue)] /\ r # <<>>
    BY <1>4, <2>1 DEF DeleteSetting, SettingsIInv, SettingsTypeOK
  <2>3. Tail(r) \in Seq(SettingValue) /\ Len(Tail(r)) = Len(r) - 1 /\ Len(r) \in Nat
    BY <2>2, HeadTailProperties, LenProperties
  <2>4. rows' = [rows EXCEPT ![n] = Tail(r)]
    BY <1>4, <2>1 DEF DeleteSetting
  <2>5. /\ rows' \in [SettingNames -> Seq(SettingValue)] /\ rows'[n] = Tail(r)
        /\ \A m \in SettingNames \ {n} : rows'[m] = rows[m]
    BY <2>2, <2>3, <2>4
  <2>6. Len(rows'[n]) <= Len(rows[n])
    BY <2>1, <2>3, <2>5
  <2>. QED  BY <1>4, <2>1, <2>2, <2>5, <2>6, EditKeeps DEF DeleteSetting
<1>. QED  BY <1>1, <1>2, <1>3, <1>4

LEMMA SettingsStep ==
  ASSUME SettingsIInv, [SettingsNext]_settingsVars
  PROVE  SettingsIInv'
<1>1. ASSUME NEW s \in Services, StartStep(s) PROVE SettingsIInv'
  BY <1>1, CheckValueKeeps, InsertValueKeeps, WriteValueKeeps, ConnectKeeps, DisableKeeps DEF StartStep
<1>2. CASE CollectorChanges
  <2>1. SettingsTypeOK'
    BY <1>2 DEF CollectorChanges, SettingsIInv, SettingsTypeOK
  <2>. QED  BY <1>2, <2>1, RestKeeps DEF CollectorChanges
<1>3. CASE ReadSettings
  <2>1. fetched' \in {<<f>> : f \in MapSettings}
    BY <1>3, MapTypes DEF ReadSettings
  <2>2. SettingsTypeOK'
    BY <1>3, <2>1 DEF ReadSettings, SettingsIInv, SettingsTypeOK, StatementFails
  <2>. QED  BY <1>3, <2>2, RestKeeps DEF ReadSettings
<1>4. CASE AssignSettings
  <2>1. SettingsTypeOK'
    BY <1>4 DEF AssignSettings, SettingsIInv, SettingsTypeOK
  <2>. QED  BY <1>4, <2>1, RestKeeps DEF AssignSettings
<1>5. CASE UNCHANGED settingsVars
  <2>1. SettingsTypeOK'
    BY <1>5 DEF settingsVars, SettingsIInv, SettingsTypeOK
  <2>. QED  BY <1>5, <2>1, RestKeeps DEF settingsVars
<1>. QED  BY <1>1, <1>2, <1>3, <1>4, <1>5, StartServiceKeeps, CrashKeeps, EditConfigKeeps, OperatorKeeps
          DEF SettingsNext, RefreshSettings

LEMMA SettingsStart == SettingsInit => SettingsIInv
<1>. SUFFICES ASSUME SettingsInit PROVE SettingsIInv
  OBVIOUS
<1>1. \A n \in SettingNames : rows[n] \in Seq(SettingValue) /\ Len(rows[n]) = 0
  BY EmptySeq DEF SettingsInit
<1>2. \A s \in Services : proc[s].pc = "down" /\ proc[s] \in ProcState
  BY DEF SettingsInit, ProcState
<1>3. SettingsTypeOK
  BY <1>1, <1>2, SettingsAssumption DEF SettingsInit, SettingsTypeOK
<1>4. OneAtATime /\ RowsCounted /\ FilesCounted
  BY <1>1, <1>2 DEF OneAtATime, RowsCounted, FilesCounted, Starting
<1>5. \A s \in Services : Ready(s)
  BY <1>2 DEF Ready, At, Past, Starting
<1>. QED  BY <1>3, <1>4, <1>5 DEF SettingsIInv

(* Each reachable state satisfies the inductive invariant. *)
THEOREM SettingsInvariantHolds == SettingsSpec => []SettingsIInv
<1>1. SettingsIInv /\ [SettingsNext]_settingsVars => SettingsIInv'
  BY SettingsStep
<1>. QED  BY <1>1, SettingsStart, PTL DEF SettingsSpec

(* The rows, the services' places and their maps keep their types. *)
THEOREM SettingsTypeCorrect == SettingsSpec => []SettingsTypeOK
<1>1. SettingsIInv => SettingsTypeOK
  BY DEF SettingsIInv
<1>. QED  BY <1>1, SettingsInvariantHolds, PTL

(* Checking and inserting a value in two statements makes no second row,   *)
(* for any services and programs, unless services that share the value     *)
(* start at the same time, an operator adds one or a lookup fails.         *)
THEOREM RowsSound == SettingsSpec => []OneRowPerSetting
<1>1. SettingsIInv => OneRowPerSetting
  BY DEF SettingsIInv, RowsCounted, OneRowPerSetting, Excused
<1>. QED  BY <1>1, SettingsInvariantHolds, PTL

(* A service that listens has its configuration file's values in the       *)
(* table, whatever crashed and whoever started meanwhile.                  *)
THEOREM FilesSound == SettingsSpec => []FileValuesCurrent
<1>1. SettingsIInv => FileValuesCurrent
  <2>. SUFFICES ASSUME SettingsIInv, NEW s \in Services, At(s, "up"), "failure" \notin mishaps,
                       NEW n \in JsonNames \cap ToSet(Program[s])
                PROVE  rows[n] = <<config[s]>>
    BY DEF FileValuesCurrent
  <2>1. PICK i \in DOMAIN Program[s] : Program[s][i] = n
    BY DEF ToSet
  <2>. QED  BY <2>1 DEF SettingsIInv, Ready, Past
<1>. QED  BY <1>1, SettingsInvariantHolds, PTL

(* Sessions and authentication.                                            *)

-----------------------------------------------------------------------------
(* The inductive invariant.  No session has the key of a later start; a    *)
(* request has the cookie of a session that was made, and none before it   *)
(* was let in; one that saved a session has it for its own user; and what  *)
(* was refused is dead.                                                    *)

KeysPast == \A i \in DOMAIN sessions : sessions[i].key <= start

RequestsKnown ==
  \A r \in Pages :
    /\ page[r].cookie # 0 => page[r].cookie \in DOMAIN sessions
    /\ InState(r, "auth") => ~page[r].saved /\ page[r].session = 0

SavedOwn ==
  \A r \in Pages : page[r].saved =>
    page[r].session \in DOMAIN sessions /\ sessions[page[r].session].user = page[r].user

RefusedDead == \A c \in refused : c \in DOMAIN sessions /\ ~Alive(c)

SessionsIInv ==
  SessionsTypeOK /\ KeysPast /\ RequestsKnown /\ SavedOwn /\ RefusedDead /\ CookieMatchesLogin

-----------------------------------------------------------------------------
(* What every step does to the rows: none is lost or renewed. *)
Grown ==
  /\ DOMAIN sessions \subseteq DOMAIN sessions' /\ start <= start'
  /\ \A i \in DOMAIN sessions :
       /\ sessions'[i].user = sessions[i].user /\ sessions'[i].key = sessions[i].key
       /\ sessions[i].expired => sessions'[i].expired
       /\ sessions[i].deleted => sessions'[i].deleted
  /\ \A i \in DOMAIN sessions' \ DOMAIN sessions : sessions'[i].key = start'

LEMMA NoRequestType ==
  NoRequest \in PageState /\ NoRequest.cookie = 0 /\ NoRequest.pc = "idle" /\ ~NoRequest.saved
<1>1. (CHOOSE b \in Browsers : TRUE) \in Browsers /\ (CHOOSE u \in People : TRUE) \in People
  BY SessionsAssumption
<1>2. 0 \in Cookie /\ "idle" \in PageSteps
  BY SessionsAssumption DEF Cookie, PageSteps
<1>. QED  BY <1>1, <1>2 DEF NoRequest, PageState

(* A dead session stays dead. *)
LEMMA DeadForGood ==
  ASSUME SessionsIInv, SessionsTypeOK', Grown, NEW c \in DOMAIN sessions, ~Alive(c)
  PROVE  c \in DOMAIN sessions' /\ ~Alive(c)'
<1>1. /\ sessions[c] \in SessionRow /\ sessions'[c] \in SessionRow /\ c \in DOMAIN sessions'
      /\ start \in 1 .. MaxStarts /\ start' \in 1 .. MaxStarts
  BY DEF SessionsIInv, SessionsTypeOK, Grown
<1>2. sessions[c].deleted \/ sessions[c].expired \/ sessions[c].key # start
  BY DEF Alive
<1>3. sessions[c].key <= start /\ start <= start' /\ sessions'[c].key = sessions[c].key
  BY DEF SessionsIInv, KeysPast, Grown
<1>4. sessions[c].key # start => sessions'[c].key # start'
  BY <1>1, <1>3, SessionsAssumption DEF SessionRow
<1>5. sessions'[c].deleted \/ sessions'[c].expired \/ sessions'[c].key # start'
  BY <1>2, <1>4 DEF Grown
<1>. QED  BY <1>1, <1>5 DEF Alive

LEMMA KeysStayPast ==
  ASSUME SessionsIInv, SessionsTypeOK', Grown
  PROVE  KeysPast'
<1>. SUFFICES ASSUME NEW i \in DOMAIN sessions'
     PROVE  sessions'[i].key <= start'
  BY DEF KeysPast
<1>1. start \in Nat /\ start' \in Nat /\ start <= start'
  BY SessionsAssumption DEF SessionsIInv, SessionsTypeOK, Grown
<1>2. CASE i \in DOMAIN sessions
  <2>1. sessions'[i].key = sessions[i].key /\ sessions[i].key <= start /\ sessions[i].key \in Nat
    BY <1>2, SessionsAssumption DEF SessionsIInv, SessionsTypeOK, KeysPast, Grown, SessionRow
  <2>. QED  BY <1>1, <2>1
<1>3. CASE i \notin DOMAIN sessions
  BY <1>1, <1>3 DEF Grown
<1>. QED  BY <1>2, <1>3

(* A step of one request, which becomes q. *)
LEMMA RequestKeeps ==
  ASSUME SessionsIInv, SessionsTypeOK', Grown, NEW r \in Pages, NEW q \in PageState,
         page' = [page EXCEPT ![r] = q],
         q.cookie # 0 => q.cookie \in DOMAIN sessions,
         q.pc = "auth" => ~q.saved /\ q.session = 0,
         q.saved => q.session \in DOMAIN sessions' /\ sessions'[q.session].user = q.user
  PROVE  RequestsKnown' /\ SavedOwn'
<1>1. page'[r] = q /\ \A t \in Pages \ {r} : page'[t] = page[t]
  BY DEF SessionsIInv, SessionsTypeOK
<1>2. RequestsKnown'
  BY <1>1 DEF SessionsIInv, RequestsKnown, InState, Grown
<1>3. SavedOwn'
  BY <1>1 DEF SessionsIInv, SavedOwn, Grown
<1>. QED  BY <1>2, <1>3

(* The browsers see nothing of it before it is answered. *)
LEMMA BrowsersKept ==
  ASSUME SessionsIInv, Grown, UNCHANGED <<cookie, accepted>>
  PROVE  CookieMatchesLogin'
  BY DEF SessionsIInv, CookieMatchesLogin, Grown

LEMMA RefusedKept ==
  ASSUME SessionsIInv, SessionsTypeOK', Grown, refused' = refused
  PROVE  RefusedDead'
  BY DeadForGood DEF SessionsIInv, RefusedDead

(* A step that changes neither rows nor the start. *)
LEMMA RowsKept ==
  ASSUME SessionsIInv, UNCHANGED <<sessions, start>>
  PROVE  Grown
<1>1. start \in Nat
  BY SessionsAssumption DEF SessionsIInv, SessionsTypeOK
<1>. QED  BY <1>1 DEF Grown

-----------------------------------------------------------------------------
(* The actions. *)

(* Only the step of the request changes. *)
LEMMA GoKeeps ==
  ASSUME SessionsIInv, NEW r \in Pages, NEW pc \in PageSteps \ {"auth"}, Go(r, pc),
         SessionsTypeOK', Grown
  PROVE  RequestsKnown' /\ SavedOwn'
<1>. DEFINE q == [page[r] EXCEPT !.pc = pc]
<1>1. page[r] \in PageState
  BY DEF SessionsIInv, SessionsTypeOK
<1>2. /\ q \in PageState /\ q.pc = pc /\ q.cookie = page[r].cookie /\ q.session = page[r].session
      /\ q.saved = page[r].saved /\ q.user = page[r].user
  BY <1>1 DEF PageState
<1>3. page' = [page EXCEPT ![r] = q]
  BY DEF Go
<1>. HIDE DEF q
<1>4. q.cookie # 0 => q.cookie \in DOMAIN sessions
  BY <1>2 DEF SessionsIInv, RequestsKnown
<1>5. q.saved => q.session \in DOMAIN sessions' /\ sessions'[q.session].user = q.user
  BY <1>2 DEF SessionsIInv, SavedOwn, Grown
<1>. QED  BY <1>2, <1>3, <1>4, <1>5, RequestKeeps

LEMMA GoType ==
  ASSUME SessionsTypeOK, NEW r \in Pages, NEW pc \in PageSteps, Go(r, pc)
  PROVE  page' \in [Pages -> PageState]
<1>1. page[r] \in PageState
  BY DEF SessionsTypeOK
<1>2. [page[r] EXCEPT !.pc = pc] \in PageState
  BY <1>1 DEF PageState
<1>3. page' = [page EXCEPT ![r] = [page[r] EXCEPT !.pc = pc]]
  BY DEF Go
<1>. QED  BY <1>2, <1>3 DEF SessionsTypeOK

(* Go, and nothing else. *)
LEMMA OnlyGoKeeps ==
  ASSUME SessionsIInv, NEW r \in Pages, NEW pc \in PageSteps \ {"auth"}, Go(r, pc),
         UNCHANGED <<auth, sessions, start, cookie, sent, accepted, refused>>
  PROVE  SessionsIInv'
<1>1. SessionsTypeOK /\ Grown
  BY RowsKept DEF SessionsIInv
<1>2. SessionsTypeOK'
  BY <1>1, GoType DEF SessionsTypeOK
<1>. QED  BY <1>1, <1>2, GoKeeps, KeysStayPast, BrowsersKept, RefusedKept DEF SessionsIInv

(* The session c is the one of the request from now on. *)
LEMMA SessionFound ==
  ASSUME SessionsIInv, NEW r \in Pages, NEW c \in DOMAIN sessions, NEW pc \in PageSteps \ {"auth"},
         NEW saved \in BOOLEAN,
         saved => sessions[c].user = page[r].user,
         page' = [page EXCEPT ![r] = [page[r] EXCEPT !.session = c, !.saved = saved, !.pc = pc]],
         UNCHANGED <<auth, sessions, start, cookie, sent, accepted, refused>>
  PROVE  SessionsIInv'
<1>. DEFINE q == [page[r] EXCEPT !.session = c, !.saved = saved, !.pc = pc]
<1>1. SessionsTypeOK /\ Grown /\ page[r] \in PageState
  BY RowsKept DEF SessionsIInv, SessionsTypeOK
<1>2. c \in Cookie
  BY <1>1 DEF SessionsTypeOK, Cookie, SessionId
<1>3. /\ q \in PageState /\ q.pc = pc /\ q.cookie = page[r].cookie /\ q.session = c
      /\ q.saved = saved /\ q.user = page[r].user
  BY <1>1, <1>2 DEF PageState
<1>4. page' = [page EXCEPT ![r] = q]
  OBVIOUS
<1>. HIDE DEF q
<1>5. SessionsTypeOK'
  BY <1>1, <1>3, <1>4 DEF SessionsTypeOK
<1>6. q.cookie # 0 => q.cookie \in DOMAIN sessions
  BY <1>3 DEF SessionsIInv, RequestsKnown
<1>7. q.saved => q.session \in DOMAIN sessions' /\ sessions'[q.session].user = q.user
  BY <1>3
<1>8. RequestsKnown' /\ SavedOwn'
  <2>1. q.pc # "auth" /\ q \in PageState
    BY <1>3
  <2>. QED  BY <1>1, <1>4, <1>5, <1>6, <1>7, <2>1, RequestKeeps
<1>. QED  BY <1>1, <1>5, <1>8, KeysStayPast, BrowsersKept, RefusedKept DEF SessionsIInv

LEMMA SendPageKeeps ==
  ASSUME SessionsIInv, NEW r \in Pages, NEW b \in Browsers, NEW u \in People,
         NEW kind \in {"login", "page", "logout"}, SendRequest(r, b, kind, u)
  PROVE  SessionsIInv'
<1>. DEFINE q == [pc |-> IF kind = "login" THEN "save" ELSE "auth", kind |-> kind, from |-> b,
                  user |-> u, cookie |-> cookie[b], session |-> 0, saved |-> FALSE]
<1>1. SessionsTypeOK /\ Grown
  BY RowsKept DEF SessionsIInv, SendRequest
<1>2. q.pc \in PageSteps /\ 0 \in Cookie /\ cookie[b] \in Cookie
  BY <1>1, SessionsAssumption DEF SessionsTypeOK, Cookie, PageSteps
<1>3. q \in PageState
  BY <1>2 DEF PageState
<1>4. page' = [page EXCEPT ![r] = q]
  BY DEF SendRequest
<1>5. sent' \in 0 .. MaxSent
  BY <1>1, SessionsAssumption DEF SendRequest, SessionsTypeOK
<1>6. SessionsTypeOK'
  BY <1>1, <1>3, <1>4, <1>5 DEF SendRequest, SessionsTypeOK
<1>7. q.cookie # 0 => q.cookie \in DOMAIN sessions
  BY DEF SessionsIInv, CookieMatchesLogin
<1>8. RequestsKnown' /\ SavedOwn'
  <2>1. /\ q.pc = "auth" => ~q.saved /\ q.session = 0
        /\ q.saved => q.session \in DOMAIN sessions' /\ sessions'[q.session].user = q.user
    OBVIOUS
  <2>. HIDE DEF q
  <2>. QED  BY <1>1, <1>3, <1>4, <1>6, <1>7, <2>1, RequestKeeps
<1>9. UNCHANGED <<cookie, accepted, refused>>
  BY DEF SendRequest
<1>. QED  BY <1>1, <1>6, <1>8, <1>9, KeysStayPast, BrowsersKept, RefusedKept DEF SessionsIInv

LEMMA CheckAuthKeeps ==
  ASSUME SessionsIInv, NEW r \in Pages, CheckAuth(r)
  PROVE  SessionsIInv'
<1>. DEFINE c == page[r].cookie
            onward == IF page[r].kind = "logout" THEN "destroy" ELSE "answer"
<1>1. SessionsTypeOK /\ page[r] \in PageState /\ ~page[r].saved /\ Grown
  BY RowsKept DEF SessionsIInv, SessionsTypeOK, CheckAuth, RequestsKnown
<1>2. CASE Alive(c) /\ page' = [page EXCEPT ![r].session = c, ![r].pc = onward] /\ UNCHANGED refused
  <2>1. page' = [page EXCEPT ![r] = [page[r] EXCEPT !.session = c, !.saved = FALSE, !.pc = onward]]
    BY <1>1, <1>2 DEF PageState, SessionsTypeOK
  <2>2. c \in DOMAIN sessions /\ onward \in PageSteps \ {"auth"}
    BY <1>2 DEF Alive, PageSteps
  <2>3. UNCHANGED <<auth, sessions, start, cookie, sent, accepted, refused>>
    BY <1>2 DEF CheckAuth
  <2>. HIDE DEF c, onward
  <2>. QED  BY <2>1, <2>2, <2>3, SessionFound
<1>3. CASE /\ Go(r, IF auth = "saml" THEN "save" ELSE "error")
           /\ refused' = IF Alive(c) THEN refused ELSE refused \cup ({c} \ {0})
  <2>1. PICK pc \in PageSteps \ {"auth"} : Go(r, pc)
    BY <1>3 DEF PageSteps
  <2>2. UNCHANGED <<auth, sessions, start, cookie, sent, accepted>>
    BY DEF CheckAuth
  <2>3. \A d \in refused' \ refused : d \in DOMAIN sessions /\ ~Alive(d)
    BY <1>3 DEF SessionsIInv, RequestsKnown
  <2>4. refused' \subseteq SessionId
    BY <1>1, <2>3, <1>3 DEF SessionsTypeOK
  <2>5. SessionsTypeOK'
    BY <1>1, <2>1, <2>2, <2>4, GoType DEF SessionsTypeOK
  <2>6. RefusedDead'
    BY <1>1, <2>3, <2>5, DeadForGood DEF SessionsIInv, RefusedDead
  <2>. QED  BY <1>1, <2>1, <2>2, <2>5, <2>6, GoKeeps, KeysStayPast, BrowsersKept DEF SessionsIInv
<1>. QED  BY <1>2, <1>3 DEF CheckAuth

LEMMA SaveKeeps ==
  ASSUME SessionsIInv, NEW r \in Pages, Save(r)
  PROVE  SessionsIInv'
<1>. DEFINE c == page[r].cookie
<1>1. SessionsTypeOK /\ page[r] \in PageState
  BY DEF SessionsIInv, SessionsTypeOK
<1>2. UNCHANGED <<auth, sessions, start, cookie, sent, accepted, refused>>
  BY DEF Save
<1>3. AfterSave(r) \in PageSteps \ {"auth"} /\ {"error", "new"} \subseteq PageSteps \ {"auth"}
  BY DEF AfterSave, PageSteps
<1>4. CASE /\ Alive(c) /\ sessions[c].user = page[r].user
           /\ page' = [page EXCEPT ![r].session = c, ![r].saved = TRUE, ![r].pc = AfterSave(r)]
  <2>1. page' = [page EXCEPT ![r] = [page[r] EXCEPT !.session = c, !.saved = TRUE, !.pc = AfterSave(r)]]
    BY <1>1, <1>4 DEF PageState, SessionsTypeOK
  <2>2. c \in DOMAIN sessions /\ sessions[c].user = page[r].user
    BY <1>4 DEF Alive
  <2>. HIDE DEF c
  <2>. QED  BY <1>2, <1>3, <2>1, <2>2, SessionFound
<1>5. CASE Go(r, "error")
  BY <1>2, <1>3, <1>5, OnlyGoKeeps
<1>6. CASE Go(r, "new")
  BY <1>2, <1>3, <1>6, OnlyGoKeeps
<1>. QED  BY <1>4, <1>5, <1>6 DEF Save

LEMMA NewSessionKeeps ==
  ASSUME SessionsIInv, NEW r \in Pages, NewSession(r)
  PROVE  SessionsIInv'
<1>1. SessionsTypeOK /\ page[r] \in PageState /\ start \in 1 .. MaxStarts
  BY DEF SessionsIInv, SessionsTypeOK
<1>2. UNCHANGED <<auth, start, cookie, sent, accepted, refused>>
  BY DEF NewSession
<1>3. CASE Go(r, "error") /\ UNCHANGED sessions
  <2>1. "error" \in PageSteps \ {"auth"}
    BY DEF PageSteps
  <2>. QED  BY <1>2, <1>3, <2>1, OnlyGoKeeps
<1>4. CASE \E i \in SessionId \ DOMAIN sessions :
             /\ sessions' = [j \in DOMAIN sessions \cup {i} |->
                  IF j = i THEN [user |-> page[r].user, key |-> start, expired |-> FALSE,
                                 deleted |-> FALSE]
                  ELSE sessions[j]]
             /\ page' = [page EXCEPT ![r].session = i, ![r].saved = TRUE, ![r].pc = AfterSave(r)]
  <2>1. PICK i \in SessionId \ DOMAIN sessions :
          /\ sessions' = [j \in DOMAIN sessions \cup {i} |->
               IF j = i THEN [user |-> page[r].user, key |-> start, expired |-> FALSE,
                              deleted |-> FALSE]
               ELSE sessions[j]]
          /\ page' = [page EXCEPT ![r].session = i, ![r].saved = TRUE, ![r].pc = AfterSave(r)]
    BY <1>4
  <2>. DEFINE row == [user |-> page[r].user, key |-> start, expired |-> FALSE, deleted |-> FALSE]
              q == [page[r] EXCEPT !.session = i, !.saved = TRUE, !.pc = AfterSave(r)]
  <2>2. /\ DOMAIN sessions' = DOMAIN sessions \cup {i} /\ sessions'[i] = row
        /\ \A j \in DOMAIN sessions : sessions'[j] = sessions[j]
    BY <2>1
  <2>3. row \in SessionRow /\ row.user = page[r].user /\ row.key = start
    BY <1>1 DEF SessionRow, PageState
  <2>. HIDE DEF row
  <2>4. Grown
    <3>1. start' = start /\ start \in Nat
      BY <1>1, <1>2, SessionsAssumption
    <3>2. \A j \in DOMAIN sessions' \ DOMAIN sessions : j = i
      BY <2>2
    <3>. QED  BY <2>2, <2>3, <3>1, <3>2 DEF Grown
  <2>5. AfterSave(r) \in PageSteps \ {"auth"} /\ i \in Cookie
    BY DEF AfterSave, PageSteps, Cookie, SessionId
  <2>6. /\ q \in PageState /\ q.pc = AfterSave(r) /\ q.cookie = page[r].cookie /\ q.session = i
        /\ q.saved = TRUE /\ q.user = page[r].user
    BY <1>1, <2>5 DEF PageState
  <2>7. page' = [page EXCEPT ![r] = q]
    BY <1>1, <2>1 DEF PageState, SessionsTypeOK
  <2>. HIDE DEF q
  <2>8. SessionsTypeOK'
    <3>1. DOMAIN sessions' \subseteq SessionId /\ \A j \in DOMAIN sessions' : sessions'[j] \in SessionRow
      BY <1>1, <2>2, <2>3 DEF SessionsTypeOK
    <3>2. page' \in [Pages -> PageState]
      BY <1>1, <2>6, <2>7 DEF SessionsTypeOK
    <3>. QED  BY <1>1, <1>2, <3>1, <3>2 DEF SessionsTypeOK
  <2>9. q.cookie # 0 => q.cookie \in DOMAIN sessions
    BY <2>6 DEF SessionsIInv, RequestsKnown
  <2>10. RequestsKnown' /\ SavedOwn'
    <3>1. q.saved => q.session \in DOMAIN sessions' /\ sessions'[q.session].user = q.user
      BY <2>2, <2>3, <2>6
    <3>2. q.pc # "auth"
      BY <2>5, <2>6
    <3>. QED  BY <2>4, <2>6, <2>7, <2>8, <2>9, <3>1, <3>2, RequestKeeps
  <2>. QED  BY <1>2, <2>4, <2>8, <2>10, KeysStayPast, BrowsersKept, RefusedKept DEF SessionsIInv
<1>. QED  BY <1>3, <1>4 DEF NewSession

LEMMA DestroyKeeps ==
  ASSUME SessionsIInv, NEW r \in Pages, Destroy(r)
  PROVE  SessionsIInv'
<1>1. UNCHANGED <<auth, sessions, start, cookie, sent, accepted, refused>>
  BY DEF Destroy
<1>2. {"answer", "expire", "error"} \subseteq PageSteps \ {"auth"}
  BY DEF PageSteps
<1>3. Go(r, "answer") \/ Go(r, "expire") \/ Go(r, "error")
  BY DEF Destroy
<1>. QED  BY <1>1, <1>2, <1>3, OnlyGoKeeps

(* Rows that only expire or are marked deleted. *)
EndedAs(old, new) ==
  /\ new \in SessionRow /\ new.user = old.user /\ new.key = old.key
  /\ old.expired => new.expired
  /\ old.deleted => new.deleted

LEMMA RowsEnd ==
  ASSUME SessionsIInv, DOMAIN sessions' = DOMAIN sessions, start' = start,
         \A i \in DOMAIN sessions : EndedAs(sessions[i], sessions'[i])
  PROVE  Grown /\ \A i \in DOMAIN sessions' : sessions'[i] \in SessionRow
<1>1. start \in 1 .. MaxStarts
  BY DEF SessionsIInv, SessionsTypeOK
<1>2. start \in Nat
  BY <1>1, SessionsAssumption
<1>. QED  BY <1>2 DEF EndedAs, Grown

LEMMA ExpireKeeps ==
  ASSUME SessionsIInv, NEW r \in Pages, Expire(r)
  PROVE  SessionsIInv'
<1>. DEFINE c == page[r].cookie
<1>1. UNCHANGED <<auth, start, cookie, sent, accepted, refused>>
  BY DEF Expire
<1>2. {"answer", "error"} \subseteq PageSteps \ {"auth"}
  BY DEF PageSteps
<1>3. CASE Go(r, "error") /\ UNCHANGED sessions
  BY <1>1, <1>2, <1>3, OnlyGoKeeps
<1>4. CASE sessions' = [sessions EXCEPT ![c].expired = TRUE] /\ Go(r, "answer")
  <2>1. \A i \in DOMAIN sessions : sessions[i] \in SessionRow
    BY DEF SessionsIInv, SessionsTypeOK
  <2>2. /\ DOMAIN sessions' = DOMAIN sessions
        /\ \A i \in DOMAIN sessions :
             sessions'[i] = IF i = c THEN [sessions[i] EXCEPT !.expired = TRUE] ELSE sessions[i]
    BY <1>4
  <2>3. \A i \in DOMAIN sessions : EndedAs(sessions[i], sessions'[i])
    <3>. SUFFICES ASSUME NEW i \in DOMAIN sessions
         PROVE  EndedAs(sessions[i], sessions'[i])
      OBVIOUS
    <3>1. /\ EndedAs(sessions[i], sessions[i])
          /\ EndedAs(sessions[i], [sessions[i] EXCEPT !.expired = TRUE])
      BY <2>1 DEF EndedAs, SessionRow
    <3>. QED  BY <2>2, <3>1
  <2>4. Grown /\ \A i \in DOMAIN sessions' : sessions'[i] \in SessionRow
    BY <1>1, <2>2, <2>3, RowsEnd
  <2>5. SessionsTypeOK'
    BY <1>1, <1>2, <1>4, <2>2, <2>4, GoType DEF SessionsIInv, SessionsTypeOK
  <2>. QED  BY <1>1, <1>2, <1>4, <2>4, <2>5, GoKeeps, KeysStayPast, BrowsersKept, RefusedKept
            DEF SessionsIInv
<1>. QED  BY <1>3, <1>4 DEF Expire

(* The answer takes the cookie to the browser, or is lost. *)
LEMMA AnswerKeeps ==
  ASSUME SessionsIInv, NEW r \in Pages, AnswerRequest(r)
  PROVE  SessionsIInv'
<1>1. SessionsTypeOK /\ page[r] \in PageState /\ Grown
  BY RowsKept DEF SessionsIInv, SessionsTypeOK, AnswerRequest
<1>2. UNCHANGED <<auth, sessions, start, sent, refused>> /\ page' = [page EXCEPT ![r] = NoRequest]
  BY DEF AnswerRequest
<1>3. \/ /\ page[r].saved
         /\ cookie' = [cookie EXCEPT ![page[r].from] = page[r].session]
         /\ accepted' = [accepted EXCEPT ![page[r].from] = {page[r].user}]
      \/ UNCHANGED <<cookie, accepted>>
  BY DEF AnswerRequest
<1>4. SessionsTypeOK'
  <2>1. page' \in [Pages -> PageState]
    BY <1>1, <1>2, NoRequestType DEF SessionsTypeOK
  <2>2. cookie' \in [Browsers -> Cookie] /\ accepted' \in [Browsers -> SUBSET People]
    <3>1. page[r].session \in Cookie /\ {page[r].user} \in SUBSET People
      BY <1>1 DEF PageState
    <3>. QED  BY <1>1, <1>3, <3>1 DEF SessionsTypeOK
  <2>. QED  BY <1>1, <1>2, <2>1, <2>2 DEF SessionsTypeOK
<1>5. RequestsKnown' /\ SavedOwn'
  <2>. DEFINE q == NoRequest
  <2>1. /\ q \in PageState /\ page' = [page EXCEPT ![r] = q]
        /\ q.cookie # 0 => q.cookie \in DOMAIN sessions
        /\ q.pc = "auth" => ~q.saved /\ q.session = 0
        /\ q.saved => q.session \in DOMAIN sessions' /\ sessions'[q.session].user = q.user
    BY <1>2, NoRequestType
  <2>. HIDE DEF q
  <2>. QED  BY <1>1, <1>4, <2>1, RequestKeeps
<1>6. CookieMatchesLogin'
  <2>1. CASE UNCHANGED <<cookie, accepted>>
    BY <1>1, <2>1, BrowsersKept
  <2>2. CASE /\ page[r].saved
             /\ cookie' = [cookie EXCEPT ![page[r].from] = page[r].session]
             /\ accepted' = [accepted EXCEPT ![page[r].from] = {page[r].user}]
    <3>1. page[r].session \in DOMAIN sessions /\ sessions[page[r].session].user = page[r].user
      BY <2>2 DEF SessionsIInv, SavedOwn
    <3>2. \A b \in Browsers :
            /\ cookie'[b] = IF b = page[r].from THEN page[r].session ELSE cookie[b]
            /\ accepted'[b] = IF b = page[r].from THEN {page[r].user} ELSE accepted[b]
      BY <1>1, <2>2 DEF SessionsTypeOK
    <3>. QED  BY <1>2, <3>1, <3>2 DEF SessionsIInv, CookieMatchesLogin
  <2>. QED  BY <1>3, <2>1, <2>2
<1>7. KeysPast' /\ RefusedDead'
  BY <1>1, <1>2, <1>4, KeysStayPast, RefusedKept
<1>. QED  BY <1>4, <1>5, <1>6, <1>7 DEF SessionsIInv

(* Rows end, and requests go on as they were. *)
LEMMA EndKeeps ==
  ASSUME SessionsIInv, DOMAIN sessions' = DOMAIN sessions,
         \A i \in DOMAIN sessions : EndedAs(sessions[i], sessions'[i]),
         UNCHANGED <<auth, start, cookie, page, sent, accepted, refused>>
  PROVE  SessionsIInv'
<1>1. Grown /\ \A i \in DOMAIN sessions' : sessions'[i] \in SessionRow
  BY RowsEnd
<1>2. SessionsTypeOK'
  BY <1>1 DEF SessionsIInv, SessionsTypeOK
<1>3. RequestsKnown'
  BY <1>1 DEF SessionsIInv, RequestsKnown, InState, Grown
<1>4. SavedOwn'
  BY <1>1 DEF SessionsIInv, SavedOwn, Grown
<1>. QED  BY <1>1, <1>2, <1>3, <1>4, KeysStayPast, BrowsersKept, RefusedKept DEF SessionsIInv

LEMMA AgeKeeps ==
  ASSUME SessionsIInv, NEW i \in SessionId, SessionAges(i)
  PROVE  SessionsIInv'
<1>1. \A j \in DOMAIN sessions : sessions[j] \in SessionRow
  BY DEF SessionsIInv, SessionsTypeOK
<1>2. /\ DOMAIN sessions' = DOMAIN sessions
      /\ \A j \in DOMAIN sessions :
           sessions'[j] = IF j = i THEN [sessions[j] EXCEPT !.expired = TRUE] ELSE sessions[j]
  BY DEF SessionAges
<1>3. ASSUME NEW j \in DOMAIN sessions
      PROVE  EndedAs(sessions[j], sessions'[j])
  <2>1. /\ EndedAs(sessions[j], sessions[j])
        /\ EndedAs(sessions[j], [sessions[j] EXCEPT !.expired = TRUE])
    BY <1>1 DEF EndedAs, SessionRow
  <2>. QED  BY <1>2, <2>1
<1>4. UNCHANGED <<auth, start, cookie, page, sent, accepted, refused>>
  BY DEF SessionAges
<1>. QED  BY <1>2, <1>3, <1>4, EndKeeps

LEMMA CleanupKeeps ==
  ASSUME SessionsIInv, CleanupSessions
  PROVE  SessionsIInv'
<1>1. \A j \in DOMAIN sessions : sessions[j] \in SessionRow
  BY DEF SessionsIInv, SessionsTypeOK
<1>2. /\ DOMAIN sessions' = DOMAIN sessions
      /\ \A j \in DOMAIN sessions :
           sessions'[j] = [sessions[j] EXCEPT !.deleted = sessions[j].deleted \/ sessions[j].expired]
  BY DEF CleanupSessions
<1>3. ASSUME NEW j \in DOMAIN sessions
      PROVE  EndedAs(sessions[j], sessions'[j])
  BY <1>1, <1>2 DEF EndedAs, SessionRow
<1>4. UNCHANGED <<auth, start, cookie, page, sent, accepted, refused>>
  BY DEF CleanupSessions
<1>. QED  BY <1>2, <1>3, <1>4, EndKeeps

LEMMA RestartKeeps ==
  ASSUME SessionsIInv, RestartAdmin
  PROVE  SessionsIInv'
<1>1. SessionsTypeOK /\ start \in 1 .. MaxStarts /\ start' = start + 1 /\ start < MaxStarts
  BY DEF SessionsIInv, SessionsTypeOK, RestartAdmin
<1>2. start' \in 1 .. MaxStarts /\ start <= start'
  BY <1>1, SessionsAssumption
<1>3. UNCHANGED <<auth, sessions, cookie, sent, accepted, refused>>
  BY DEF RestartAdmin
<1>4. Grown
  BY <1>2, <1>3 DEF Grown
<1>5. page' = [r \in Pages |-> NoRequest]
  BY DEF RestartAdmin
<1>6. SessionsTypeOK'
  BY <1>1, <1>2, <1>3, <1>5, NoRequestType DEF SessionsTypeOK
<1>7. RequestsKnown' /\ SavedOwn'
  BY <1>5, NoRequestType DEF RequestsKnown, SavedOwn, InState
<1>. QED  BY <1>3, <1>4, <1>6, <1>7, KeysStayPast, BrowsersKept, RefusedKept DEF SessionsIInv

-----------------------------------------------------------------------------
LEMMA SessionsStart ==
  ASSUME SessionsInit
  PROVE  SessionsIInv
<1>1. DOMAIN sessions = {}
  BY DEF SessionsInit
<1>2. 0 \in Cookie /\ 1 \in 1 .. MaxStarts /\ 0 \in 0 .. MaxSent
  BY SessionsAssumption DEF Cookie
<1>3. SessionsTypeOK
  BY <1>1, <1>2, NoRequestType DEF SessionsInit, SessionsTypeOK
<1>4. KeysPast /\ RefusedDead
  BY <1>1 DEF SessionsInit, KeysPast, RefusedDead
<1>5. RequestsKnown /\ SavedOwn
  BY NoRequestType DEF SessionsInit, RequestsKnown, SavedOwn, InState
<1>6. CookieMatchesLogin
  BY DEF SessionsInit, CookieMatchesLogin
<1>. QED  BY <1>3, <1>4, <1>5, <1>6 DEF SessionsIInv

LEMMA SessionsKeep ==
  ASSUME SessionsIInv, [SessionsNext]_sessionsVars
  PROVE  SessionsIInv'
<1>1. ASSUME NEW r \in Pages, PageStep(r)
      PROVE  SessionsIInv'
  BY <1>1, CheckAuthKeeps, SaveKeeps, NewSessionKeeps, DestroyKeeps, ExpireKeeps, AnswerKeeps
     DEF PageStep
<1>2. ASSUME NEW r \in Pages, NEW b \in Browsers, NEW u \in People,
             NEW kind \in {"login", "page", "logout"}, SendRequest(r, b, kind, u)
      PROVE  SessionsIInv'
  BY <1>2, SendPageKeeps
<1>3. ASSUME NEW i \in SessionId, SessionAges(i)
      PROVE  SessionsIInv'
  BY <1>3, AgeKeeps
<1>4. CASE UNCHANGED sessionsVars
  <2>1. UNCHANGED <<auth, sessions, start, cookie, page, sent, accepted, refused>>
    BY <1>4 DEF sessionsVars
  <2>2. SessionsTypeOK' /\ Grown
    BY <2>1, RowsKept DEF SessionsIInv, SessionsTypeOK
  <2>3. RequestsKnown' /\ SavedOwn'
    BY <2>1 DEF SessionsIInv, RequestsKnown, SavedOwn, InState
  <2>. QED  BY <2>1, <2>2, <2>3, KeysStayPast, BrowsersKept, RefusedKept DEF SessionsIInv
<1>. QED  BY <1>1, <1>2, <1>3, <1>4, CleanupKeeps, RestartKeeps DEF SessionsNext

(* The inductive invariant of the sessions. *)
THEOREM SessionsInvariantHolds == SessionsSpec => []SessionsIInv
<1>1. SessionsInit => SessionsIInv
  BY SessionsStart
<1>2. SessionsIInv /\ [SessionsNext]_sessionsVars => SessionsIInv'
  BY SessionsKeep
<1>. QED  BY <1>1, <1>2, PTL DEF SessionsSpec

(* Rows, cookies and requests keep their types. *)
THEOREM SessionsTypeCorrect == SessionsSpec => []SessionsTypeOK
<1>1. SessionsIInv => SessionsTypeOK
  BY DEF SessionsIInv
<1>. QED  BY <1>1, SessionsInvariantHolds, PTL

(* The cookie of a browser is of a session of the user who was accepted on *)
(* it last, however requests, restarts and failures overlap.               *)
THEOREM CookiesSound == SessionsSpec => []CookieMatchesLogin
<1>1. SessionsIInv => CookieMatchesLogin
  BY DEF SessionsIInv
<1>. QED  BY <1>1, SessionsInvariantHolds, PTL

(* A cookie that CheckAuth refused never lets a request in again.          *)
THEOREM RefusalFinal == SessionsSpec => RefusedForGood
<1>1. ASSUME SessionsIInv, [SessionsNext]_sessionsVars, NEW r \in Pages,
             InState(r, "auth"), page'[r].session # 0
      PROVE  page[r].cookie \notin refused
  <2>1. page \in [Pages -> PageState] /\ page[r].session = 0 /\ page[r].pc = "auth"
    BY <1>1 DEF SessionsIInv, SessionsTypeOK, RequestsKnown, InState
  <2>2. page'[r] # page[r]
    BY <1>1, <2>1
  <2>3. ASSUME NEW t \in Pages, t # r, PageStep(t) \/ \E b \in Browsers,
                   kind \in {"login", "page", "logout"}, u \in People : SendRequest(t, b, kind, u)
        PROVE  FALSE
    BY <2>1, <2>2, <2>3 DEF PageStep, SendRequest, CheckAuth, Save, NewSession, Destroy, Expire,
       AnswerRequest, Go
  <2>4. NoRequest.session = 0
    BY DEF NoRequest
  <2>5. ~RestartAdmin
    BY <1>1, <2>4 DEF RestartAdmin
  <2>6. ~CleanupSessions /\ ~(\E i \in SessionId : SessionAges(i)) /\ ~UNCHANGED sessionsVars
    BY <2>2 DEF CleanupSessions, SessionAges, sessionsVars
  <2>7. /\ ~Save(r) /\ ~NewSession(r) /\ ~Destroy(r) /\ ~Expire(r) /\ ~AnswerRequest(r)
        /\ \A b \in Browsers, kind \in {"login", "page", "logout"}, u \in People :
             ~SendRequest(r, b, kind, u)
    BY <2>1 DEF Save, NewSession, Destroy, Expire, AnswerRequest, SendRequest, InState
  <2>8. CheckAuth(r)
    BY <1>1, <2>3, <2>5, <2>6, <2>7 DEF SessionsNext, PageStep
  <2>9. CASE Alive(page[r].cookie)
    BY <1>1, <2>9 DEF SessionsIInv, RefusedDead
  <2>10. CASE ~Alive(page[r].cookie)
    <3>1. PICK pc \in {"save", "error"} : Go(r, pc)
      BY <2>8, <2>10 DEF CheckAuth
    <3>2. page'[r] = [page[r] EXCEPT !.pc = pc]
      BY <2>1, <3>1 DEF Go
    <3>3. page'[r].session = page[r].session
      BY <2>1, <3>2 DEF PageState
    <3>. QED  BY <1>1, <2>1, <3>3
  <2>. QED  BY <2>9, <2>10
<1>2. SessionsIInv /\ [SessionsNext]_sessionsVars =>
        [\A r \in Pages :
           (InState(r, "auth") /\ page'[r].session # 0) => page[r].cookie \notin refused]_sessionsVars
  BY <1>1
<1>. QED  BY <1>2, SessionsInvariantHolds, PTL DEF SessionsSpec, RefusedForGood

(* The services together.                                                  *)

-----------------------------------------------------------------------------
(* Each part of the services goes through a behaviour of its own module,   *)
(* so what is proved of one holds of all of them together.                 *)
THEOREM ServicesImplementParts ==
  ServicesSpec => MetricsSpec /\ SessionsSpec /\ CleanupSpec /\ SettingsSpec
<1>1. ServicesInit => MetricsInit /\ SessionsInit /\ CleanupInit /\ SettingsInit
  BY DEF ServicesInit
<1>2. [ServicesNext]_servicesVars =>
        /\ [MetricsNext]_metricsVars /\ [SessionsNext]_sessionsVars
        /\ [CleanupNext]_cleanupVars /\ [SettingsNext]_settingsVars
  BY DEF ServicesNext, servicesVars, CleanupPart, CleanupNext
<1>. QED  BY <1>1, <1>2, PTL DEF ServicesSpec, MetricsSpec, SessionsSpec, CleanupSpec, SettingsSpec

(* Counters, rows, requests and rounds of the services keep their types.   *)
THEOREM ServicesTypeCorrect == ServicesSpec => []ServicesTypeOK
<1>1. MetricsTypeOK /\ SessionsTypeOK /\ CleanupTypeOK /\ SettingsTypeOK => ServicesTypeOK
  BY DEF ServicesTypeOK
<1>. QED  BY <1>1, ServicesImplementParts, MetricsTypeCorrect, SessionsTypeCorrect, CleanupTypeCorrect,
             SettingsTypeCorrect, PTL
=============================================================================
