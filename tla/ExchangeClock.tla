---------------------------- MODULE ExchangeClock ----------------------------
(***************************************************************************)
(* The clock all parts of the exchange share (src/time.rs).  Any number of *)
(* tasks call it: the heartbeat task and the books read it, users of the   *)
(* exchange rescale it, move it, and sleep on it.                          *)
(*                                                                         *)
(* A call is one step except where it gives up its locks half-way:         *)
(* set_time_scale reads the clock and takes the lock on the scale again to *)
(* write it, and sleep_sim acts after it has let go of the scale it read.  *)
(* update_time is one step although it waits for a second lock: it keeps   *)
(* the first one, so the scale it uses is the one in force when it ends,   *)
(* and it reads the wall clock after the wait.                             *)
(***************************************************************************)
EXTENDS Integers

CONSTANTS
  Tasks,             (* the callers                                         *)
  StartSim,          (* start_sim                                           *)
  Factors,           (* arguments of Fast and Slow that are used            *)
  Durations,         (* arguments of advance_time and sleep_sim             *)
  Instants,          (* arguments of set_time                               *)
  HalfRange,         (* 2^31: from here on, u32 as i32 is negative          *)
  Earliest, Latest,  (* DateTime::MIN_UTC and MAX_UTC                       *)
  NanosLimit,        (* num_nanoseconds is None from here on                *)
  ProductLimit,      (* a duration multiplied to this or more panics        *)
  Second,            (* the ticks of a second                               *)
  MaxReal,           (* bound: the real time that passes                    *)
  Never              (* the waking time of a task that is not woken         *)

Scale ==
  [mode : {"Normal", "Fixed"}, factor : {1}]
    \cup [mode : {"Fast", "Slow"}, factor : Factors]

DateTime == Earliest..Latest

ASSUME ClockAssumption ==
  /\ HalfRange \in Nat \ {0}
  /\ Factors \subseteq 0..(2 * HalfRange - 1)
  /\ Durations \subseteq Int /\ Second \in Nat \ {0}
  /\ Earliest \in Int /\ Latest \in Int /\ Instants \subseteq DateTime
  /\ NanosLimit \in Nat /\ MaxReal \in Nat /\ Never \notin Int
  /\ ProductLimit \in Nat /\ Latest - Earliest < ProductLimit
  /\ StartSim \in DateTime /\ StartSim + MaxReal \in DateTime

VARIABLES
  real,      (* real_now - start_real                                       *)
  scale,     (* scale                                                       *)
  current,   (* current_time                                                *)
  call,      (* where each task stands in its call, and what it holds       *)
  low,       (* history: no reading should be earlier than this one         *)
  rewound    (* history: the time was set back since it was last read       *)

vars == <<real, scale, current, call, low, rewound>>

-----------------------------------------------------------------------------
AsI32(n) == IF n < HalfRange THEN n ELSE n - 2 * HalfRange

(* Division of integers, towards zero.                                     *)
Truncated(a, b) ==
  LET Size(x) == IF x < 0 THEN -x ELSE x
  IN  IF (a < 0) = (b < 0) THEN Size(a) \div Size(b) ELSE -(Size(a) \div Size(b))

(***************************************************************************)
(* Division of a duration, which is kept as seconds and a positive part of *)
(* a second: each is divided for itself, and rounded for itself.           *)
(***************************************************************************)
Quotient(a, b) ==
  Truncated((a \div Second) * Second, b) + Truncated(a % Second, b)

(* The simulated time that passes in r of real time.                       *)
Simulated(s, r) ==
  CASE s.mode = "Fast" -> r * AsI32(s.factor)
    [] s.mode = "Slow" -> Quotient(r, AsI32(s.factor))
    [] OTHER           -> r

Refused(s) == s.mode = "Slow" /\ s.factor = 0

(* What update_time assigns to current_time and returns.                   *)
Reading ==
  IF scale.mode = "Fixed" THEN current ELSE StartSim + Simulated(scale, real)

(* Otherwise it returns an error, or panics: a product that is no duration *)
(* any more is no date either when it is added to one.                     *)
Readable == ~Refused(scale) /\ Reading \in DateTime

-----------------------------------------------------------------------------
(* How fast a scale runs, for what may be expected across a change of it.  *)
Forward(s) == s.mode \in {"Fast", "Slow"} => AsI32(s.factor) >= 0 /\ ~Refused(s)

Ticks(s)   == IF s.mode = "Fast" THEN AsI32(s.factor) ELSE 1
PerReal(s) == IF s.mode = "Slow" THEN AsI32(s.factor) ELSE 1

(* Time does not go back when the clock passes from s to u: either it is   *)
(* frozen where it was read, or it runs at least as fast from the start.   *)
NotSlower(s, u) ==
  /\ Forward(s) /\ Forward(u)
  /\ \/ u.mode = "Fixed"
     \/ s.mode # "Fixed" /\ Ticks(s) * PerReal(u) <= Ticks(u) * PerReal(s)

-----------------------------------------------------------------------------
Idle == [at |-> "idle"]
Dead == [at |-> "dead"]
IsIdle(t) == call[t] = Idle
Goto(t, where) == call' = [call EXCEPT ![t] = where]

(* update_time, when it succeeds.                                          *)
Update ==
  /\ Readable
  /\ current' = Reading
  /\ low' = Reading /\ rewound' = FALSE

(* Mutation of MoveTo: the sum is not checked.                             *)
MoveToUnchecked(time) ==
  /\ current' = time
  /\ rewound' = (rewound \/ time < current)
  /\ low' = IF scale.mode = "Fixed" /\ time < current THEN Earliest ELSE low

(* An assignment to current_time that is not a reading.                    *)
MoveTo(time) ==
  /\ time \in DateTime
  /\ current' = time
  /\ rewound' = (rewound \/ time < current)
  /\ low' = IF scale.mode = "Fixed" /\ time < current THEN Earliest ELSE low

(* The task of a call that panics ends; tokio's locks are let go.          *)
Panic(t) == Goto(t, Dead) /\ UNCHANGED <<real, scale, current, low, rewound>>

Tick ==
  /\ real < MaxReal
  /\ real' = real + 1
  /\ UNCHANGED <<scale, current, call, low, rewound>>

(***************************************************************************)
(* now, for the heartbeat task, the books and Exchange::current_time.  The *)
(* error of Slow(0) changes nothing.                                       *)
(***************************************************************************)
Now(t) ==
  /\ IsIdle(t)
  /\ Update
  /\ UNCHANGED <<real, scale, call>>

(* now or set_time_scale, when the time is out of range.                   *)
NowPanics(t) ==
  /\ IsIdle(t)
  /\ ~Refused(scale) /\ ~Readable
  /\ Panic(t)

(* Mutation of BeginSetTimeScale: the time is read and not stored.         *)
BeginSetTimeScaleStale(t, s) ==
  /\ IsIdle(t)
  /\ Readable
  /\ low' = Reading /\ rewound' = FALSE
  /\ Goto(t, [at |-> "rescale", scale |-> s])
  /\ UNCHANGED <<real, scale, current>>

(* Mutation of BeginSetTimeScale: the error of update_time is ignored.     *)
BeginSetTimeScaleAnyway(t, s) ==
  /\ IsIdle(t)
  /\ IF Readable THEN Update ELSE UNCHANGED <<current, low, rewound>>
  /\ Goto(t, [at |-> "rescale", scale |-> s])
  /\ UNCHANGED <<real, scale>>

(* set_time_scale up to its second lock; an error of update_time ends it.  *)
BeginSetTimeScale(t, s) ==
  /\ IsIdle(t)
  /\ Update
  /\ Goto(t, [at |-> "rescale", scale |-> s])
  /\ UNCHANGED <<real, scale>>

EndSetTimeScale(t) ==
  /\ call[t].at = "rescale"
  /\ LET s == call[t].scale
     IN /\ scale' = s
        /\ low' = IF NotSlower(scale, s) /\ ~(s.mode = "Fixed" /\ rewound)
                  THEN low ELSE Earliest
        /\ call' = [u \in Tasks |->
                      IF u = t THEN Idle
                      ELSE IF call[u].at = "asleep" /\ s # scale
                           THEN [call[u] EXCEPT !.steady = FALSE]
                           ELSE call[u]]
  /\ UNCHANGED <<real, current, rewound>>

AdvanceTime(t, d) ==
  /\ IsIdle(t)
  /\ MoveTo(current + d)
  /\ UNCHANGED <<real, scale, call>>

AdvancePanics(t, d) ==
  /\ IsIdle(t)
  /\ current + d \notin DateTime
  /\ Panic(t)

SetTime(t, time) ==
  /\ IsIdle(t)
  /\ MoveTo(time)
  /\ UNCHANGED <<real, scale, call>>

-----------------------------------------------------------------------------
(* sleep_sim.                                                              *)

(* Mutation of RealTime: multiplier and divisor change places.             *)
RealTimeSwapped(s, d) ==
  CASE s.mode = "Slow" -> Quotient(d, AsI32(s.factor))
    [] s.mode = "Fast" -> d * AsI32(s.factor)
    [] OTHER           -> d

(* The real duration it computes.                                          *)
RealTime(s, d) ==
  CASE s.mode = "Fast" -> Quotient(d, AsI32(s.factor))
    [] s.mode = "Slow" -> d * AsI32(s.factor)
    [] OTHER           -> d

Within(d, limit) == -limit <= d /\ d < limit

(* num_nanoseconds().unwrap_or(0) as u64: too long a sleep is none at all, *)
(* and a negative one is a huge one.                                       *)
Fits(d) == Within(d, NanosLimit)

Until(d) ==
  IF ~Fits(d) THEN real ELSE IF d < 0 THEN Never ELSE real + d

DividesByZero == scale.mode = "Fast" /\ AsI32(scale.factor) = 0

(* The product under Slow is out of range.                                 *)
Overflows(d) ==
  scale.mode = "Slow" /\ ~Within(d * AsI32(scale.factor), ProductLimit)

(* goal and steady are history: the simulated time at which the sleep      *)
(* should be over, and whether nothing happened that makes it inexact.     *)
SleepSim(t, d) ==
  /\ IsIdle(t)
  /\ scale.mode # "Fixed" /\ ~Refused(scale) /\ ~DividesByZero /\ ~Overflows(d)
  /\ LET wait == RealTime(scale, d)
     IN  Goto(t, [at |-> "asleep", until |-> Until(wait),
                  goal |-> StartSim + Simulated(scale, real) + d,
                  steady |-> Fits(wait)])
  /\ UNCHANGED <<real, scale, current, low, rewound>>

SleepPanics(t, d) ==
  /\ IsIdle(t)
  /\ DividesByZero \/ Overflows(d)
  /\ Panic(t)

Wake(t) ==
  /\ call[t].at = "asleep"
  /\ call[t].until # Never /\ call[t].until <= real
  /\ Goto(t, Idle)
  /\ UNCHANGED <<real, scale, current, low, rewound>>

(* Under Fixed it lets go of the scale and calls advance_time.             *)
BeginSleepFixed(t, d) ==
  /\ IsIdle(t)
  /\ scale.mode = "Fixed"
  /\ Goto(t, [at |-> "advance", by |-> d])
  /\ UNCHANGED <<real, scale, current, low, rewound>>

EndSleepFixed(t) ==
  /\ call[t].at = "advance"
  /\ MoveTo(current + call[t].by)
  /\ Goto(t, Idle)
  /\ UNCHANGED <<real, scale>>

SleepFixedPanics(t) ==
  /\ call[t].at = "advance"
  /\ current + call[t].by \notin DateTime
  /\ Panic(t)

-----------------------------------------------------------------------------
Init ==
  /\ real = 0
  /\ scale = [mode |-> "Normal", factor |-> 1]
  /\ current = StartSim
  /\ call = [t \in Tasks |-> Idle]
  /\ low = StartSim /\ rewound = FALSE

Next ==
  \/ Tick
  \/ \E t \in Tasks :
       \/ Now(t) \/ NowPanics(t)
       \/ \E s \in Scale : BeginSetTimeScale(t, s)
       \/ EndSetTimeScale(t)
       \/ \E d \in Durations : AdvanceTime(t, d) \/ AdvancePanics(t, d)
       \/ \E time \in Instants : SetTime(t, time)
       \/ \E d \in Durations : SleepSim(t, d) \/ SleepPanics(t, d) \/ BeginSleepFixed(t, d)
       \/ Wake(t)
       \/ EndSleepFixed(t) \/ SleepFixedPanics(t)

Spec == Init /\ [][Next]_vars

-----------------------------------------------------------------------------
(***************************************************************************)
(*                              Properties                                 *)
(***************************************************************************)

Call ==
  {Idle, Dead}
    \cup [at : {"rescale"}, scale : Scale]
    \cup [at : {"advance"}, by : Durations]
    \cup [at : {"asleep"}, until : Int \cup {Never}, goal : Int, steady : BOOLEAN]

(* The values of the variables: current_time stays a representable date,   *)
(* whatever is added to it.                                                *)
TypeOK ==
  /\ real \in 0..MaxReal
  /\ scale \in Scale
  /\ current \in DateTime /\ low \in DateTime
  /\ call \in [Tasks -> Call]
  /\ rewound \in BOOLEAN

(***************************************************************************)
(* Time goes back only when it is told to.  The history variable low is    *)
(* the last reading anyone took, given up when the time is set back under  *)
(* Fixed, when a scale comes that is slower since the start of the clock   *)
(* (time is recomputed from there), and when Fixed ends.  Nothing else     *)
(* takes a reading of a clock that runs forward below it: no interleaving  *)
(* of the two halves of set_time_scale with readers and other setters, and *)
(* no set_time or advance_time under a moving scale.                       *)
(***************************************************************************)
ReadingsForward == Forward(scale) => low <= Reading

(* The clock cannot be read and no set_time_scale is half-way.             *)
Trapped == ~Readable /\ \A t \in Tasks : call[t].at # "rescale"

(***************************************************************************)
(* A scale under which the time cannot be computed (Slow(0), and Fast once *)
(* the date is out of range) is never left again, since set_time_scale     *)
(* computes the time first; only a call that had done so before can still  *)
(* replace it.                                                             *)
(***************************************************************************)
NoWayBack == [][Trapped => Trapped']_vars

(***************************************************************************)
(* A sleeper wakes no earlier than sleep_sim was asked to: what it waits   *)
(* for in real time and how update_time scales real time agree, up to what *)
(* the division loses of the seconds and of the rest, which is less than a *)
(* tick each, if the scale stays as it is.                                 *)
(***************************************************************************)
SleepsLongEnough ==
  \A t \in Tasks :
    LET c == call[t]
    IN  (c.at = "asleep" /\ c.until # Never /\ c.until <= real)
          => (c.steady /\ Forward(scale)
                => c.goal < StartSim + Simulated(scale, real) + 2 * Ticks(scale))
=============================================================================
