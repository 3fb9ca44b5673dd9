---------------------------- MODULE RateLimiter ----------------------------
(***************************************************************************)
(* The sliding-window limiter of one API key: a request reads the clock and *)
(* then asks Redis, in one pipelined batch per window, to drop the scores    *)
(* that have left the window, add its own and count.  Limited may reach     *)
(* Redis in another order than they read the clock.                          *)
(***************************************************************************)
EXTENDS Integers, FiniteSets

CONSTANTS
  Limited,
  Size,      \* length of the two windows
  Quota,     \* requests_per_minute and requests_per_hour
  Skew,      \* how long after reading the clock a request may reach Redis
  Buffer,    \* how much longer than its window a key lives in Redis
  MaxTime    \* bound: the last reading of the clock

Windows == {"minute", "hour"}

ASSUME RateAssumption ==
  /\ Size \in [Windows -> Nat] /\ Quota \in [Windows -> Nat]
  /\ Skew \in Nat /\ Buffer \in Nat /\ MaxTime \in Nat
  /\ \A w \in Windows : Skew < Size[w]

VARIABLES
  clock,
  scores,    \* the sorted set of each window; a score is its own member
  touched,   \* when each was last written to
  stage,        \* where each request is: the window it is to be counted in, or its end
  now,       \* the clock as it read it
  tried,     \* history: the scores ever added to each window
  passed,    \* history: those of them that were not above the limit
  over       \* history: the requests each window turned away

rateVars == <<clock, scores, touched, stage, now, tried, passed, over>>

-----------------------------------------------------------------------------
RateInit ==
  /\ clock = 0
  /\ scores = [w \in Windows |-> {}] /\ touched = [w \in Windows |-> 0]
  /\ stage = [r \in Limited |-> "new"] /\ now = [r \in Limited |-> 0]
  /\ tried = [w \in Windows |-> {}] /\ passed = [w \in Windows |-> {}]
  /\ over = [w \in Windows |-> {}]

ReadClock(r) ==
  /\ stage[r] = "new"
  /\ stage' = [stage EXCEPT ![r] = "minute"] /\ now' = [now EXCEPT ![r] = clock]
  /\ UNCHANGED <<clock, scores, touched, tried, passed, over>>

\* Mutant: a score at the edge of the window stays.
PruneInside(r, w) == {s \in scores[w] : s + Size[w] >= now[r]}

\* zremrangebyscore from 0 to now - window_seconds, both ends included.
Prune(r, w) == {s \in scores[w] : s + Size[w] > now[r]}

Counted(r, w) == Prune(r, w) \cup {now[r]}

Count(r, w) ==
  /\ stage[r] = w
  /\ scores' = [scores EXCEPT ![w] = Counted(r, w)]
  /\ touched' = [touched EXCEPT ![w] = clock]
  /\ tried' = [tried EXCEPT ![w] = @ \cup {now[r]}]
  /\ UNCHANGED <<clock, now>>

Within(r, w) == Cardinality(Counted(r, w)) <= Quota[w]

NextStage(w) == IF w = "minute" THEN "hour" ELSE "admitted"

Pass(r, w) ==
  /\ Count(r, w) /\ Within(r, w)
  /\ stage' = [stage EXCEPT ![r] = NextStage(w)]
  /\ passed' = [passed EXCEPT ![w] = @ \cup {now[r]}]
  /\ UNCHANGED over

\* The score of a refused request stays in the window.
Refuse(r, w) ==
  /\ Count(r, w) /\ ~Within(r, w)
  /\ stage' = [stage EXCEPT ![r] = "refused"]
  /\ over' = [over EXCEPT ![w] = @ \cup {r}]
  /\ UNCHANGED passed

TimeToLive(w) == Size[w] + Buffer

Expire(w) ==
  /\ scores[w] # {} /\ clock >= touched[w] + TimeToLive(w)
  /\ scores' = [scores EXCEPT ![w] = {}]
  /\ UNCHANGED <<clock, touched, stage, now, tried, passed, over>>

Tick ==
  /\ clock < MaxTime /\ clock' = clock + 1
  /\ \A r \in Limited : stage[r] \in Windows => clock' <= now[r] + Skew
  /\ UNCHANGED <<scores, touched, stage, now, tried, passed, over>>

RateNext ==
  \/ \E r \in Limited : ReadClock(r)
  \/ \E r \in Limited, w \in Windows : Pass(r, w) \/ Refuse(r, w)
  \/ \E w \in Windows : Expire(w)
  \/ Tick

RateSpec == RateInit /\ [][RateNext]_rateVars

-----------------------------------------------------------------------------
Admitted == {r \in Limited : stage[r] = "admitted"}

\* Scores are readings of the clock, and who is admitted has passed both windows.
RateTypeOK ==
  /\ clock \in Nat
  /\ scores \in [Windows -> SUBSET (0..clock)] /\ touched \in [Windows -> 0..clock]
  /\ stage \in [Limited -> Windows \cup {"new", "admitted", "refused"}]
  /\ now \in [Limited -> 0..clock]
  /\ tried \in [Windows -> SUBSET (0..clock)] /\ passed \in [Windows -> SUBSET (0..clock)]
  /\ over \in [Windows -> SUBSET Limited]
  /\ \A r \in Limited : stage[r] \in {"hour", "admitted"} => now[r] \in passed["minute"]
  /\ \A r \in Admitted : now[r] \in passed["hour"]

\* The times of admission in the window that ends at t, less the Skew.
Recent(w, t) ==
  {s \in {now[r] : r \in Admitted} : t < s + Size[w] - Skew /\ s <= t}

\* In whatever order requests reach Redis, no window but for the Skew holds
\* more admissions than its quota; requests that read the same time count as one.
AtMostQuota ==
  \A w \in Windows : \A r \in Admitted : Cardinality(Recent(w, now[r])) <= Quota[w]

\* A request is turned away only if more than its quota have tried since the
\* window that ends with it began.
RefusedIsBusy ==
  \A w \in Windows : \A r \in over[w] :
    Cardinality({s \in tried[w] : s + Size[w] > now[r]}) > Quota[w]

\* The limiter keeps both its promises: it lets no more through than the quota,
\* and refuses no one while fewer have come.
QuotaIsExact == AtMostQuota /\ RefusedIsBusy
=============================================================================
