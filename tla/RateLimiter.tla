----------------------------- MODULE RateLimiter -----------------------------
(***************************************************************************)
(* NovaHandler._rate_allowed (server.py): the handler threads of one client*)
(* address share its window.  A thread reads the clock before it waits for *)
(* the lock, so stamps enter the window out of their order.                *)
(***************************************************************************)
EXTENDS Integers, Sequences, SequencesExt, FiniteSets

CONSTANTS
  Threads,
  Window,     \* 60 seconds
  Limit,      \* requests_per_minute
  MaxDelay,   \* bound: how long a thread waits between the clock and the lock
  MaxClock, MaxRequests  \* bounds

RateAssumption ==
  /\ Window \in Nat \ {0} /\ Limit \in Nat \ {0} /\ MaxDelay \in 0 .. Window - 1
  /\ MaxClock \in Nat /\ MaxRequests \in Nat

NoStamp == -1

VARIABLES
  clock,     \* time.monotonic()
  window,    \* the deque of the client
  stamp,     \* now, in the threads that are about to take the lock
  admitted   \* history: the stamps that were let pass since the server started

vars == <<clock, window, stamp, admitted>>

Init ==
  /\ clock = 0 /\ window = << >> /\ admitted = << >>
  /\ stamp = [t \in Threads |-> NoStamp]

Waiting == {t \in Threads : stamp[t] # NoStamp}

\* A thread is not kept from the lock for longer than MaxDelay.
Tick ==
  /\ clock < MaxClock
  /\ \A t \in Waiting : clock - stamp[t] < MaxDelay
  /\ clock' = clock + 1
  /\ UNCHANGED <<window, stamp, admitted>>

Arrive(t) ==
  /\ t \notin Waiting /\ Len(admitted) + Cardinality(Waiting) < MaxRequests
  /\ stamp' = [stamp EXCEPT ![t] = clock]
  /\ UNCHANGED <<clock, window, admitted>>

\* Mutant of Purged: the oldest stamp makes room whatever its age.
PurgedWhenFull(now) == IF Len(window) >= Limit THEN Tail(window) ELSE window

\* The old stamps are taken from the left, up to the first that is young.
Purged(now) ==
  LET young == SelectInSeq(window, LAMBDA s : s > now - Window)
  IN  IF young = 0 THEN << >> ELSE SubSeq(window, young, Len(window))

\* Mutant of Full: one too many.
FullLate(t) == Len(Purged(stamp[t])) > Limit

Full(t) == Len(Purged(stamp[t])) >= Limit

Admit(t) ==
  /\ t \in Waiting /\ ~Full(t)
  /\ window' = Append(Purged(stamp[t]), stamp[t])
  /\ admitted' = Append(admitted, stamp[t])
  /\ stamp' = [stamp EXCEPT ![t] = NoStamp]
  /\ UNCHANGED clock

\* 429
Refuse(t) ==
  /\ t \in Waiting /\ Full(t)
  /\ window' = Purged(stamp[t])
  /\ stamp' = [stamp EXCEPT ![t] = NoStamp]
  /\ UNCHANGED <<clock, admitted>>

\* serve() in a new process, or again in this one: the windows are cleared.
Serve ==
  /\ window' = << >> /\ admitted' = << >>
  /\ stamp' = [t \in Threads |-> NoStamp]
  /\ UNCHANGED clock

Next == Tick \/ Serve \/ \E t \in Threads : Arrive(t) \/ Admit(t) \/ Refuse(t)

-----------------------------------------------------------------------------
(* Properties.                                                             *)

TypeOK ==
  /\ clock \in 0 .. MaxClock /\ Len(window) <= Limit
  /\ window \in Seq(0 .. MaxClock) /\ admitted \in Seq(0 .. MaxClock)
  /\ stamp \in [Threads -> {NoStamp} \union 0 .. MaxClock]

\* Although the stamps are out of order and the purge stops at the first young one,
\* no span of the window less the longest wait for the lock holds more than Limit
\* admitted requests (server.py:100-110).
RateHolds ==
  \A now \in 0 .. MaxClock :
    Cardinality({i \in DOMAIN admitted :
      admitted[i] <= now /\ now - admitted[i] < Window - MaxDelay}) <= Limit

=============================================================================
