------------------------------ MODULE RateLimit ------------------------------
(***************************************************************************)
(* One key of the sliding window of rate-limit-store.ts, as the limiters   *)
(* of rate-limit.ts ask it.  (checkOtpSendRateLimit asks two limiters one  *)
(* after the other; keys do not interact.)                                 *)
(*                                                                         *)
(* A hit takes its stamp from the clock of the server and is evaluated by  *)
(* Redis in one step (a Lua script), perhaps later; a hit that throws lets *)
(* the request pass.  The memory store is the case where it is never late. *)
(* The clock counts ticks of 1/SecondTicks seconds.                        *)
(***************************************************************************)
EXTENDS Naturals, FiniteSets, FiniteSetsExt

CONSTANTS
  RateRequests,   \* requests in flight
  Limit, Window,  \* of the limiter; Window in seconds
  SecondTicks,    \* ticks in a second
  LastTick,       \* bound: the clock stops here
  MaxRateFaults   \* bound: late evaluations and failed ones

ASSUME RateAssumption ==
  /\ IsFiniteSet(RateRequests)
  /\ Limit \in Nat \ {0} /\ Window \in Nat \ {0} /\ SecondTicks \in Nat \ {0}
  /\ LastTick \in Nat /\ MaxRateFaults \in Nat

VARIABLES
  tick,        \* Date.now()
  members,     \* the sorted set: <<score, suffix>>, the suffix sets equal scores apart
  expires,     \* when the key expires (PEXPIRE)
  stamps,      \* the stamp of each request's hit
  passed,      \* history: the members of evaluations on time
  hint,        \* history: when the caller denied last may come again
  rateFaults   \* history

rateVars == <<tick, members, expires, stamps, passed, hint, rateFaults>>

Ticks == 0 .. LastTick
Never == LastTick + 1    \* later than any tick: no stamp, no hint, no expiry

RateInit ==
  /\ tick = 0
  /\ members = {}
  /\ expires = Never
  /\ stamps = [r \in RateRequests |-> Never]
  /\ passed = {}
  /\ hint = Never
  /\ rateFaults = 0

-----------------------------------------------------------------------------
WindowTicks == Window * SecondTicks

\* Fault: an entry leaves one tick early.
PrunedEarly(stamp) == {m \in members : m[1] + WindowTicks > stamp + 1}

\* ZREMRANGEBYSCORE key 0 now - window
Pruned(stamp) == {m \in members : m[1] + WindowTicks > stamp}

\* From the stamp to the moment the oldest member leaves.
Wait(bag, stamp) ==
  LET oldest == Min({m[1] : m \in bag}) IN oldest + WindowTicks - stamp

\* Fault: the seconds are rounded down.
RetryAfterRoundedDown(bag, stamp) == Max({1, Wait(bag, stamp) \div SecondTicks})

\* ceil((oldest + window - now) / 1000), at least 1
RetryAfter(bag, stamp) ==
  Max({1, (Wait(bag, stamp) + SecondTicks - 1) \div SecondTicks})

\* now-random: no other member has the name.
NewMember(bag, stamp) ==
  <<stamp, CHOOSE suffix \in 1..Limit : <<stamp, suffix>> \notin bag>>

RequestStarts(r) ==
  /\ stamps[r] = Never
  /\ stamps' = [stamps EXCEPT ![r] = tick]
  /\ UNCHANGED <<tick, members, expires, passed, hint, rateFaults>>

\* A hit that arrives late uses up one fault.
OnTime(r) == stamps[r] = tick

Evaluated(r) ==
  /\ stamps[r] # Never
  /\ stamps' = [stamps EXCEPT ![r] = Never]
  /\ OnTime(r) \/ rateFaults < MaxRateFaults
  /\ rateFaults' = IF OnTime(r) THEN rateFaults ELSE rateFaults + 1

\* The script counts fewer than limit members: ZADD, PEXPIRE, {1, 0}.
Allow(r) ==
  LET bag == Pruned(stamps[r])
  IN /\ Evaluated(r)
     /\ Cardinality(bag) < Limit
     /\ members' = bag \cup {NewMember(bag, stamps[r])}
     /\ expires' = tick + WindowTicks
     /\ passed' = IF OnTime(r) THEN passed \cup {NewMember(bag, tick)} ELSE passed
     /\ hint' = Never
     /\ UNCHANGED tick

\* It counts limit: {0, retryAfter}, and the request is answered 429.
Deny(r) ==
  LET bag == Pruned(stamps[r])
  IN /\ Evaluated(r)
     /\ Cardinality(bag) >= Limit
     /\ members' = bag
     /\ hint' = tick + RetryAfter(bag, stamps[r]) * SecondTicks
     /\ UNCHANGED <<tick, expires, passed>>

\* "Redis hit failed - allowing request"
HitFails(r) ==
  /\ stamps[r] # Never
  /\ rateFaults < MaxRateFaults
  /\ stamps' = [stamps EXCEPT ![r] = Never]
  /\ rateFaults' = rateFaults + 1
  /\ UNCHANGED <<tick, members, expires, passed, hint>>

KeyExpires ==
  /\ expires <= tick
  /\ members' = {}
  /\ expires' = Never
  /\ UNCHANGED <<tick, stamps, passed, hint, rateFaults>>

ClockTicks ==
  /\ tick < LastTick
  /\ tick' = tick + 1
  /\ UNCHANGED <<members, expires, stamps, passed, hint, rateFaults>>

RateNext ==
  \/ \E r \in RateRequests : RequestStarts(r) \/ Allow(r) \/ Deny(r) \/ HitFails(r)
  \/ KeyExpires
  \/ ClockTicks

RateSpec == RateInit /\ [][RateNext]_rateVars

-----------------------------------------------------------------------------
(* Properties *)

\* No window holds more on-time passes than the limit, whatever late hits with
\* old stamps, other hits' pruning and the expiry of the key do in between.
WithinLimit ==
  \A first \in {m[1] : m \in passed} :
    Cardinality({m \in passed : first <= m[1] /\ m[1] < first + WindowTicks}) <= Limit

\* Retry-After keeps its word: who waits as long as it said finds room, unless
\* someone else has been let in meanwhile.
RetryAfterIsTruthful == hint <= tick => Cardinality(Pruned(tick)) < Limit
=============================================================================
