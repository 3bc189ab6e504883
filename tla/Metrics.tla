------------------------------ MODULE Metrics ------------------------------
(***************************************************************************)
(* The metrics of a service: every request counts itself under a mutex and *)
(* then, outside of it, replaces the one connection to the collector and   *)
(* sends the value, a few times when that fails.                           *)
(***************************************************************************)
EXTENDS Naturals, FiniteSets

CONSTANTS
  Counters,     \* names of metrics
  Senders,      \* goroutines of the service
  NoSender,
  MaxIncs,      \* how many requests are counted in all
  MaxTime,      \* the clock, in units of its own
  Interval,     \* defaultInterval
  Retries,      \* defaultRetries
  Unreachable   \* TRUE: dialling and writing may fail

ASSUME MetricsAssumption ==
  /\ NoSender \notin Senders /\ Counters # {}
  /\ MaxIncs \in Nat /\ MaxTime \in Nat /\ Interval \in Nat \ {0} /\ Retries \in Nat
  /\ Unreachable \in BOOLEAN

VARIABLES
  protocol,  \* "tcp" or "udp"
  counter,   \* Counters; a name that is not there yet has the interval NoTime
  mux,       \* who holds the mutex
  sender,    \* goroutines in Inc
  connOpen,  \* the connection of the struct is open
  clock,
  incs,      \* requests so far
  counted,   \* history: requests counted in the interval of each counter
  reported,  \* history: values reported in the interval of each counter
  forgotten, \* history: an open connection was replaced
  lost,      \* history: a value was not sent
  trouble    \* history: goroutines were in ConnectAndSend together, the network failed

metricsVars ==
  <<protocol, counter, mux, sender, connOpen, clock, incs, counted, reported, forgotten,
    lost, trouble>>

NoTime == MaxTime + 1

CounterState == [count : Nat, interval : 0 .. NoTime]

SenderStep == {"out", "lock", "load", "store", "value", "close", "dial", "assign", "send"}

(* at is the time that was read, c the copy of the counter, left how often *)
(* Send is called again.  A goroutine at "assign" has a new connection.    *)
SenderState ==
  [pc : SenderStep, name : Counters, at : 0 .. MaxTime, c : CounterState,
   left : 0 .. Retries + 1]

MetricsTypeOK ==
  /\ protocol \in {"tcp", "udp"}
  /\ counter \in [Counters -> CounterState]
  /\ mux \in Senders \cup {NoSender}
  /\ sender \in [Senders -> SenderState]
  /\ connOpen \in BOOLEAN /\ forgotten \in BOOLEAN /\ lost \in BOOLEAN
  /\ clock \in 0 .. MaxTime /\ incs \in 0 .. MaxIncs
  /\ counted \in [Counters -> Nat]
  /\ reported \in [Counters -> SUBSET Nat]
  /\ trouble \subseteq {"overlap", "network"}

-----------------------------------------------------------------------------
NoCounter == [count |-> 0, interval |-> NoTime]

Outside == [pc |-> "out", name |-> CHOOSE n \in Counters : TRUE, at |-> 0, c |-> NoCounter, left |-> 0]

(* CreateMetrics ends the service when it cannot connect. *)
MetricsInit ==
  /\ protocol \in {"tcp", "udp"}
  /\ counter = [n \in Counters |-> NoCounter]
  /\ mux = NoSender /\ sender = [s \in Senders |-> Outside]
  /\ connOpen = TRUE /\ clock = 0 /\ incs = 0
  /\ counted = [n \in Counters |-> 0] /\ reported = [n \in Counters |-> {}]
  /\ forgotten = FALSE /\ lost = FALSE /\ trouble = {}

Doing(s, pc) == sender[s].pc = pc

Proceed(s, pc) ==
  sender' = [sender EXCEPT ![s] = IF pc = "out" THEN Outside ELSE [@ EXCEPT !.pc = pc]]

(* In ConnectAndSend. *)
Connecting == {s \in Senders : sender[s].pc \in {"close", "dial", "assign", "send"}}

ClockTick ==
  /\ clock < MaxTime /\ clock' = clock + 1
  /\ UNCHANGED <<protocol, counter, mux, sender, connOpen, incs, counted, reported,
                 forgotten, lost, trouble>>

(* The time is read before the mutex is taken. *)
Inc(s, n) ==
  /\ Doing(s, "out") /\ incs < MaxIncs /\ incs' = incs + 1
  /\ sender' = [sender EXCEPT ![s].pc = "lock", ![s].name = n, ![s].at = clock]
  /\ UNCHANGED <<protocol, counter, mux, connOpen, clock, counted, reported, forgotten,
                 lost, trouble>>

-----------------------------------------------------------------------------
(* Mutants.  Each repeats a definition that follows with a plausible bug:  *)
(* the mutex is not taken; an interval begins one too early; the old       *)
(* connection is not closed.                                               *)

TakeNothing(s) ==
  /\ Doing(s, "lock") /\ Proceed(s, "load")
  /\ UNCHANGED <<protocol, counter, mux, connOpen, clock, incs, counted, reported,
                 forgotten, lost, trouble>>

AdvancedLate(c, at) == [count |-> c.count + 1, interval |-> at - Interval]

CloseNothing(s) ==
  /\ Doing(s, "close") /\ Proceed(s, "dial")
  /\ UNCHANGED <<protocol, counter, mux, connOpen, clock, incs, counted, reported,
                 forgotten, lost, trouble>>

-----------------------------------------------------------------------------
(* Inc counts. *)

Lock(s) ==
  /\ Doing(s, "lock") /\ mux = NoSender
  /\ mux' = s /\ Proceed(s, "load")
  /\ UNCHANGED <<protocol, counter, connOpen, clock, incs, counted, reported, forgotten,
                 lost, trouble>>

LoadCounter(s) ==
  /\ Doing(s, "load")
  /\ sender' = [sender EXCEPT ![s].pc = "store", ![s].c = counter[sender[s].name]]
  /\ UNCHANGED <<protocol, counter, mux, connOpen, clock, incs, counted, reported,
                 forgotten, lost, trouble>>

(* A new counter begins with 1, a new interval with 0. *)
Advanced(c, at) ==
  CASE c.interval = NoTime         -> [count |-> 1, interval |-> at]
    [] c.interval + Interval <= at -> [count |-> 0, interval |-> at]
    [] OTHER                       -> [count |-> c.count + 1, interval |-> c.interval]

StoreCounter(s) ==
  /\ Doing(s, "store") /\ Proceed(s, "value")
  /\ LET n == sender[s].name
         next == Advanced(sender[s].c, sender[s].at)
         sameInterval == next.interval = sender[s].c.interval
     IN  /\ counter' = [counter EXCEPT ![n] = next]
         /\ counted' = [counted EXCEPT ![n] = IF sameInterval THEN @ + 1 ELSE 1]
         /\ reported' = [reported EXCEPT ![n] = IF sameInterval THEN @ ELSE {}]
  /\ UNCHANGED <<protocol, mux, connOpen, clock, incs, forgotten, lost, trouble>>

(* The value is read again, and the mutex given back. *)
ReportValue(s) ==
  /\ Doing(s, "value")
  /\ LET n == sender[s].name
     IN  reported' = [reported EXCEPT ![n] = @ \cup {counter[n].count}]
  /\ sender' = [sender EXCEPT ![s].pc = "close", ![s].c = NoCounter, ![s].left = Retries + 1]
  /\ mux' = NoSender
  /\ trouble' = IF Connecting = {} THEN trouble ELSE trouble \cup {"overlap"}
  /\ UNCHANGED <<protocol, counter, connOpen, clock, incs, counted, forgotten, lost>>

-----------------------------------------------------------------------------
(* ConnectAndSend.  Nothing protects the connection. *)

(* Errors of Close are dropped: the connection may be closed already. *)
CloseConn(s) ==
  /\ Doing(s, "close") /\ Proceed(s, "dial")
  /\ connOpen' = FALSE
  /\ UNCHANGED <<protocol, counter, mux, clock, incs, counted, reported, forgotten, lost,
                 trouble>>

(* Without a new connection the struct keeps the old one, closed. *)
Dial(s) ==
  /\ Doing(s, "dial")
  /\ \/ Proceed(s, "assign") /\ UNCHANGED trouble
     \/ Unreachable /\ Proceed(s, "send") /\ trouble' = trouble \cup {"network"}
  /\ UNCHANGED <<protocol, counter, mux, connOpen, clock, incs, counted, reported,
                 forgotten, lost>>

AssignConn(s) ==
  /\ Doing(s, "assign") /\ Proceed(s, "send")
  /\ connOpen' = TRUE /\ forgotten' = (forgotten \/ connOpen)
  /\ UNCHANGED <<protocol, counter, mux, clock, incs, counted, reported, lost, trouble>>

(* Connect and Send once more, or give up. *)
SendAgain(s) ==
  IF protocol = "tcp" /\ sender[s].left > 0
  THEN /\ sender' = [sender EXCEPT ![s].pc = "close", ![s].left = @ - 1]
       /\ UNCHANGED lost
  ELSE Proceed(s, "out") /\ lost' = TRUE

(* The errors of writing are looked at for TCP only. *)
Send(s) ==
  /\ Doing(s, "send")
  /\ \/ /\ connOpen /\ Proceed(s, "out") /\ UNCHANGED <<lost, trouble>>
     \/ /\ connOpen /\ Unreachable /\ trouble' = trouble \cup {"network"}
        /\ SendAgain(s)
     \/ /\ ~connOpen /\ SendAgain(s) /\ UNCHANGED trouble
  /\ UNCHANGED <<protocol, counter, mux, connOpen, clock, incs, counted, reported, forgotten>>

MetricsStep(s) ==
  \/ Lock(s) \/ LoadCounter(s) \/ StoreCounter(s) \/ ReportValue(s)
  \/ CloseConn(s) \/ Dial(s) \/ AssignConn(s) \/ Send(s)

MetricsNext ==
  \/ ClockTick
  \/ \E s \in Senders : MetricsStep(s) \/ \E n \in Counters : Inc(s, n)

MetricsSpec == MetricsInit /\ [][MetricsNext]_metricsVars

-----------------------------------------------------------------------------
(* What Inc counts under its mutex: when nobody holds it, a counter shows  *)
(* the requests of its interval, but for the one that began the interval,  *)
(* and no value was skipped or reported for two of them.                   *)
CountersExact ==
  mux = NoSender =>
    \A n \in Counters :
      /\ counter[n].count \in {counted[n], counted[n] - 1}
      /\ reported[n] = counter[n].count + 1 - counted[n] .. counter[n].count

(* Connect closes the connection before it makes another, and Send tries   *)
(* again: unless two goroutines replace the connection at once, none is    *)
(* left open and forgotten, and unless the collector cannot be reached     *)
(* either, every value is sent.                                            *)
ConnectionKept == (forgotten => "overlap" \in trouble) /\ (lost => trouble # {})
=============================================================================
