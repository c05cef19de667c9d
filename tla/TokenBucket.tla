---------------------------- MODULE TokenBucket ----------------------------
(***************************************************************************)
(* One bucket of modules/api/rate_limiter.py and the requests that the     *)
(* middleware passes through it.  Each method of the bucket runs under its *)
(* lock; between try_acquire and the notification the request is handled,  *)
(* and other requests come and go.                                         *)
(*                                                                         *)
(* Tokens are counted in fractions, Unit of them to a token, and rates in  *)
(* fractions per tick.  The code's floats times 1.1 and divided by 2 are   *)
(* rounded to whole fractions, up and down.  The clock is time.time(),     *)
(* which an administrator or NTP may step.                                 *)
(***************************************************************************)
EXTENDS Integers, FiniteSetsExt

CONSTANTS Clients,    \* requests under way at one time
          Unit,       \* fractions in a token
          Burst,      \* config.burst_capacity, in fractions
          Base,       \* config.tokens_per_second, in fractions per tick
          Floor,      \* 1 / config.max_interval_seconds, likewise
          ClockSteps, \* steps the wall clock may take, in ticks
          MaxSteps,   \* bound of this model: how many of them
          MaxIdle     \* bound of this model: ticks without a request

ASSUME UnitAssumption == Unit \in Nat \ {0}
ASSUME BurstAssumption == Burst \in Nat
ASSUME RateAssumption == Base \in Nat /\ Floor \in 0 .. Base
ASSUME ClockStepsAssumption == ClockSteps \subseteq Int
ASSUME BoundsAssumption == MaxSteps \in Nat /\ MaxIdle \in Nat

VARIABLES tokens,       \* _tokens
          sinceRefill,  \* time.time() - _last_refill
          rate,         \* _current_rate
          running,      \* clients whose request is being handled
          pressed,      \* handlers answer 429 (environment)
          steps,        \* steps the clock has taken
          credit        \* history: requests the configured limit still allows

bucket == <<tokens, sinceRefill, rate>>
vars == <<tokens, sinceRefill, rate, running, pressed, steps, credit>>

TypeOK ==
  /\ tokens \in Int /\ tokens <= Burst
  /\ sinceRefill \in Int
  /\ rate \in Floor .. Base
  /\ running \subseteq Clients
  /\ pressed \in BOOLEAN
  /\ steps \in 0 .. MaxSteps
  /\ credit \in Int /\ credit <= Burst

Init ==
  /\ tokens = Burst /\ sinceRefill = 0 /\ rate = Base
  /\ running = {} /\ pressed = FALSE /\ steps = 0
  /\ credit = Burst

AtMost(x, limit) == IF x > limit THEN limit ELSE x
AtLeast(x, limit) == IF x < limit THEN limit ELSE x

----------------------------------------------------------------------------
\* Mutant: the bucket overflows its burst capacity.
RefilledPastBurst == tokens + sinceRefill * rate

\* _refill: all the time since the last refill counts at the current rate.
Refilled == AtMost(tokens + sinceRefill * rate, Burst)

\* try_acquire finds a token.
Acquire(c) ==
  /\ c \notin running
  /\ Refilled >= Unit
  /\ tokens' = Refilled - Unit
  /\ sinceRefill' = 0
  /\ running' = running \cup {c}
  /\ credit' = credit - Unit
  /\ UNCHANGED <<rate, pressed, steps>>

\* It finds none: 429.
Refuse(c) ==
  /\ c \notin running
  /\ Refilled < Unit
  /\ tokens' = Refilled
  /\ sinceRefill' = 0
  /\ UNCHANGED <<rate, running, pressed, steps, credit>>

\* Mutant: a success does not restore the rate.
FasterNever == rate

\* Mutant: the rate is restored past the configured one.
FasterUncapped == (11 * rate + 9) \div 10

\* on_success
Faster == AtMost((11 * rate + 9) \div 10, Base)

\* Mutant: the rate may fall to nothing.
SlowerWithoutFloor == rate \div 2

\* on_rate_limited
Slower == AtLeast(rate \div 2, Floor)

\* The handler has answered, and the bucket is told of it.
Finish(c) == c \in running /\ running' = running \ {c}

Succeed(c) ==
  /\ ~pressed /\ Finish(c)
  /\ rate' = Faster
  /\ UNCHANGED <<tokens, sinceRefill, pressed, steps, credit>>

RateLimited(c) ==
  /\ pressed /\ Finish(c)
  /\ rate' = Slower
  /\ UNCHANGED <<tokens, sinceRefill, pressed, steps, credit>>

\* Other answers, and handlers that raise, notify nothing.
Fail(c) == Finish(c) /\ UNCHANGED <<bucket, pressed, steps, credit>>

----------------------------------------------------------------------------
\* Wall-clock time earns credit at the configured rate, up to the burst.
Earn(ticks) == credit' = AtMost(credit + Base * ticks, Burst)

Tick ==
  /\ sinceRefill < MaxIdle
  /\ sinceRefill' = sinceRefill + 1
  /\ Earn(1)
  /\ UNCHANGED <<tokens, rate, running, pressed, steps>>

\* The clock is set back or forward.
StepClock(s) ==
  /\ steps < MaxSteps
  /\ steps' = steps + 1
  /\ sinceRefill' = sinceRefill + s
  /\ Earn(IF s < 0 THEN -s ELSE s)
  /\ UNCHANGED <<tokens, rate, running, pressed>>

\* The environment.
PressureChanges ==
  /\ pressed' = ~pressed
  /\ UNCHANGED <<bucket, running, steps, credit>>

Next ==
  \/ \E c \in Clients : \/ Acquire(c) \/ Refuse(c)
                        \/ Succeed(c) \/ RateLimited(c) \/ Fail(c)
  \/ \E s \in ClockSteps : StepClock(s)
  \/ Tick \/ PressureChanges

Spec == Init /\ [][Next]_vars

(***************************************************************************)
(* Fairness.  Time passes and handlers end; the clients, an assumption on  *)
(* the load, keep asking and do not fail every single time.                *)
(***************************************************************************)
HandlersEnd == \A c \in Clients : SF_vars(Succeed(c)) /\ SF_vars(RateLimited(c))
SteadyLoad == \A c \in Clients : WF_vars(Acquire(c) \/ Refuse(c))

FairSpec == Spec /\ WF_vars(Tick) /\ HandlersEnd /\ SteadyLoad

----------------------------------------------------------------------------
\* Over every stretch of time the bucket admits no more than its burst and
\* the configured rate allow, whatever the rate was when time passed and
\* later when it is counted (_refill applies the current rate to the past,
\* rate_limiter.py:92-99); a step of the clock, either way, adds no more than
\* its own length.
NeverOverLimit == credit >= 0

\* The adaptive rate never starves the clients, however often it was cut and
\* however the clock was set back (rate_limiter.py:69-75).
SomeoneIsServed == []<>(running # {})

\* When the pressure is over for good the configured rate is restored for
\* good (rate_limiter.py:61-67).
RateIsRestored == <>[]~pressed => <>[](rate = Base)

=============================================================================
