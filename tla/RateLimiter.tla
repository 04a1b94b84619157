----------------------------- MODULE RateLimiter -----------------------------
(***************************************************************************)
(* SlidingWindowRateLimiter of modules/security/service.py, for one key:   *)
(* the keys have nothing to do with each other.  The middleware calls it   *)
(* on the event loop, and allow holds a lock: calls come one by one.       *)
(***************************************************************************)
EXTENDS Naturals, Sequences, FiniteSets

CONSTANTS
  RlLimit,     \* requests per window
  RlWindow,    \* length of the window
  RlMaxTime,   \* bound: the clock
  RlMaxCalls   \* bound: requests that are let through

ASSUME RateLimiterAssumption ==
  RlLimit \in Nat \ {0} /\ RlWindow \in Nat \ {0} /\ RlMaxTime \in Nat /\ RlMaxCalls \in Nat

VARIABLES
  rlClock,
  rlHits,      \* the deque: times of requests, oldest first
  rlAllowed    \* history: times of all requests that were let through

rlVars == <<rlClock, rlHits, rlAllowed>>

RlInit == rlClock = 0 /\ rlHits = <<>> /\ rlAllowed = <<>>

\* Seeded fault: a hit is dropped one tick too early.
ExpiredEarly(time) == time + RlWindow <= rlClock + 1

Expired(time) == time + RlWindow <= rlClock

\* The loop pops the head as long as it has expired: what is left starts with
\* the first hit that has not.
Recent ==
  LET staying == {i \in DOMAIN rlHits : ~Expired(rlHits[i])} \union {Len(rlHits) + 1}
      first == CHOOSE i \in staying : \A j \in staying : i <= j
  IN  SubSeq(rlHits, first, Len(rlHits))

\* allow lets a request through, and counts it ...
Allow ==
  /\ Len(rlAllowed) < RlMaxCalls
  /\ Len(Recent) < RlLimit
  /\ rlHits' = Append(Recent, rlClock)
  /\ rlAllowed' = Append(rlAllowed, rlClock)
  /\ UNCHANGED rlClock

\* ... or refuses it, and does not.
Deny ==
  /\ Len(Recent) >= RlLimit
  /\ rlHits' = Recent
  /\ UNCHANGED <<rlClock, rlAllowed>>

TimePasses ==
  /\ rlClock < RlMaxTime
  /\ rlClock' = rlClock + 1
  /\ UNCHANGED <<rlHits, rlAllowed>>

RlNext == Allow \/ Deny \/ TimePasses

RlIdle == (rlClock = RlMaxTime \/ Len(rlAllowed) = RlMaxCalls) /\ UNCHANGED rlVars

RlSpec == RlInit /\ [][RlNext \/ RlIdle]_rlVars

--------------------------------------------------------------------------
\* Requests let through in the window that ends now, by the full history.
AllowedInWindow == Cardinality({i \in DOMAIN rlAllowed : rlAllowed[i] + RlWindow > rlClock})

\* The deque, pruned as it is in passing, stands for the full history: it
\* refuses exactly when RlLimit requests were let through in the window that
\* ends now, and so no window of the history holds more than RlLimit.
LimiterIsExact ==
  /\ Len(Recent) = AllowedInWindow
  /\ \A start \in 0..rlClock :
       Cardinality({i \in DOMAIN rlAllowed : rlAllowed[i] \in start..(start + RlWindow - 1)}) <= RlLimit
=============================================================================
