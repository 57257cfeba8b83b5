----------------------------- MODULE RateLimiter -----------------------------
(***************************************************************************)
(* The rate limiter of services/rate_limiter.rs behind rate_limit_layer of *)
(* utils/rate_limit_middleware.rs, for one client at one endpoint that has *)
(* a rule of its own: a sliding window in the memory of each replica, and  *)
(* behind it a counter per fixed window that all replicas share.           *)
(*                                                                         *)
(* The shared counter is kept by four statements in one query.  They are   *)
(* no transaction: those of several replicas interleave, time passes       *)
(* between them, and when one of them meets a write conflict the others    *)
(* still take effect.  A conflict, a lost connection and a restart are     *)
(* faults, and MaxFaults bounds them.  Times are in units much longer than *)
(* a query usually takes; the clock never stands exactly at a deadline.    *)
(* RateInit, RateNext and RateSpec are named so that one module can extend *)
(* this one and Lockout.                                                   *)
(***************************************************************************)
EXTENDS Naturals, FiniteSets

CONSTANTS
  Replicas,
  Requests,   \* slots for requests in flight
  Max,        \* max_requests
  Period,     \* window_duration
  Block,      \* block_duration
  Idling,     \* the hour after which cleanup forgets a client
  Tries,      \* WRITE_CONFLICT_RETRIES
  MaxTime, MaxFaults,
  Shared, None

Times == 0..MaxTime
Row == [hits : Nat, window : Nat, until : Nat, touched : Times]

ASSUME RateLimiterAssumption ==
  /\ {Max, Period, Tries} \subseteq Nat \ {0} /\ {MaxTime, MaxFaults} \subseteq Nat
  /\ Block \in Nat /\ Period <= Block          \* as in every rule of RateLimitRules
  /\ Idling \in Nat /\ Block <= Idling
  /\ Shared \notin Replicas /\ None \notin Replicas \cup Times \cup Row
  /\ IsFiniteSet(Requests)

VARIABLES
  clock,
  local,      \* records: this client's entry in the map of each replica
  row,        \* rate_limit: the shared row, or None
  req,        \* requests that passed the local window and ask the shared one
  faults,
  passed,     \* history: by replica, requests that passed the local window in
              \* the last Window units
  admitted,   \* history: requests that the shared counter let pass in this fixed
              \* window, without those that passed because it gave no answer
  block,      \* history: when the last block began, by layer
  straggled   \* history: a query begun in an earlier unit of time ran in this window

rateVars == <<clock, local, row, req, faults, passed, admitted, block, straggled>>

Layers == Replicas \cup {Shared}

\* A stamp is a time and a number that tells requests of one time apart.
Stamps == SUBSET (Times \X Nat)
At(stamps, t) == {s \in stamps : s[1] = t}
Noted(stamps) == stamps \cup {<<clock, Cardinality(At(stamps, clock)) + 1>>}

RequestRecord == [stamps : Stamps, until : Nat]
NewRecord == [stamps |-> {}, until |-> 0]
NoReq == [pc |-> "idle", rep |-> None, at |-> 0, attempt |-> 0, failed |-> FALSE, just |-> FALSE]
Req == [pc : {"idle", "reset", "count", "block", "read"}, rep : Replicas \cup {None},
        at : Times, attempt : 0..(Tries - 1), failed : BOOLEAN, just : BOOLEAN]

RateTypeOK ==
  /\ clock \in Times
  /\ local \in [Replicas -> RequestRecord]
  /\ row \in Row \cup {None}
  /\ req \in [Requests -> Req]
  /\ faults \in 0..MaxFaults
  /\ passed \in [Replicas -> Stamps] /\ admitted \in Stamps
  /\ block \in [Layers -> Times \cup {None}]
  /\ straggled \in BOOLEAN

RateInit ==
  /\ clock = 0 /\ faults = 0
  /\ local = [r \in Replicas |-> NewRecord]
  /\ row = None
  /\ req = [q \in Requests |-> NoReq]
  /\ passed = [r \in Replicas |-> {}]
  /\ admitted = {}
  /\ block = [l \in Layers |-> None]
  /\ straggled = FALSE

IsBlocked(until) == clock < until
WindowOf(t) == t \div Period
NoFault == faults' = faults
Fault == faults < MaxFaults /\ faults' = faults + 1

\* A block begins; rate_limit_layer records an audit event for the request that
\* begins it and for no other.
Begins(l) == block' = [block EXCEPT ![l] = clock]

----------------------------------------------------------------------------
(* check_rate_limit_verbose, under the write lock of the records.          *)

Recent(stamps) == {s \in stamps : s[1] + Period > clock}

\* Mutant of IsRateLimited: one request too many.
LimitedLate(stamps) == Cardinality(stamps) > Max

IsRateLimited(stamps) == Cardinality(stamps) >= Max

\* A client that is blocked on this replica is refused and nothing changes.
\* Otherwise the request is one too many and begins a block, or it is noted
\* and goes on to the shared counter, with the number of the window it is in.
Arrive(q, r) ==
  /\ req[q] = NoReq
  /\ ~IsBlocked(local[r].until)
  /\ LET recent == Recent(local[r].stamps) IN
       IF IsRateLimited(recent)
       THEN /\ local' = [local EXCEPT ![r] = [stamps |-> recent, until |-> clock + Block]]
            /\ Begins(r)
            /\ UNCHANGED <<req, passed>>
       ELSE /\ local' = [local EXCEPT ![r].stamps = Noted(recent)]
            /\ req' = [req EXCEPT ![q] = [NoReq EXCEPT !.pc = "reset", !.rep = r, !.at = clock]]
            /\ passed' = [passed EXCEPT ![r] = Noted(@)]
            /\ UNCHANGED block
  /\ UNCHANGED <<clock, row, faults, admitted, straggled>>

----------------------------------------------------------------------------
(* shared_decision: four statements.                                       *)

Straggles(q) == straggled' = (straggled \/ req[q].at # clock)

\* A statement takes effect, or meets a conflict and the query goes on.
Statement(q, new, pc) ==
  /\ \/ row' = new /\ req' = [req EXCEPT ![q].pc = pc] /\ NoFault
     \/ row' = row /\ req' = [req EXCEPT ![q].pc = pc, ![q].failed = TRUE] /\ Fault
  /\ Straggles(q)
  /\ UNCHANGED <<clock, local, passed, admitted, block>>

\* Mutant of ResetHits: a new window lifts the block.
ResetLifts(q) ==
  /\ req[q].pc = "reset"
  /\ LET w == WindowOf(req[q].at) IN
     Statement(q, IF row # None /\ row.window # w
                  THEN [row EXCEPT !.hits = 0, !.window = w, !.until = 0] ELSE row, "count")

\* 1. A row of another window is set back to zero.
ResetHits(q) ==
  /\ req[q].pc = "reset"
  /\ LET w == WindowOf(req[q].at) IN
     Statement(q, IF row # None /\ row.window # w
                  THEN [row EXCEPT !.hits = 0, !.window = w] ELSE row, "count")

\* Mutant of CountHit: a row that exists starts again from one.
CountFromOne(q) ==
  /\ req[q].pc = "count"
  /\ Statement(q, [hits |-> 1, window |-> WindowOf(req[q].at),
                   until |-> IF row = None THEN 0 ELSE row.until, touched |-> clock], "block")

\* 2. The hit is counted, in a new row if there is none.
CountHit(q) ==
  /\ req[q].pc = "count"
  /\ Statement(q, [hits |-> IF row = None THEN 1 ELSE row.hits + 1,
                   window |-> WindowOf(req[q].at),
                   until |-> IF row = None THEN 0 ELSE row.until,
                   touched |-> clock], "block")

\* Mutant of BlockClient: a block that runs is prolonged.
ProlongBlock(q) ==
  /\ req[q].pc = "block"
  /\ IF row # None /\ row.hits > Max
     THEN /\ row' = [row EXCEPT !.until = clock + Block] /\ Begins(Shared)
          /\ req' = [req EXCEPT ![q].pc = "read", ![q].just = TRUE]
     ELSE row' = row /\ block' = block /\ req' = [req EXCEPT ![q].pc = "read"]
  /\ Straggles(q) /\ NoFault
  /\ UNCHANGED <<clock, local, passed, admitted>>

\* 3. One hit too many begins a block, unless one runs.
BlockClient(q) ==
  /\ req[q].pc = "block"
  /\ \/ IF row # None /\ row.hits > Max /\ ~IsBlocked(row.until)
        THEN /\ row' = [row EXCEPT !.until = clock + Block] /\ Begins(Shared) /\ NoFault
             /\ req' = [req EXCEPT ![q].pc = "read", ![q].just = TRUE]
        ELSE UNCHANGED <<row, block, faults>> /\ req' = [req EXCEPT ![q].pc = "read"]
     \/ /\ req' = [req EXCEPT ![q].pc = "read", ![q].failed = TRUE]
        /\ Fault /\ UNCHANGED <<row, block>>
  /\ Straggles(q)
  /\ UNCHANGED <<clock, local, passed, admitted>>

\* 4. The row is read and the request answered.  After a conflict the same
\* query is sent again, with the same window number, up to Retries times; then
\* check_shared lets the request pass on the word of the local window alone.
Decide(q) ==
  /\ req[q].pc = "read"
  /\ IF req[q].failed /\ req[q].attempt + 1 < Tries
     THEN req' = [req EXCEPT ![q].pc = "reset", ![q].attempt = @ + 1,
                             ![q].failed = FALSE, ![q].just = FALSE]
     ELSE req' = [req EXCEPT ![q] = NoReq]
  /\ admitted' = IF req[q].failed \/ req[q].just \/ (row # None /\ IsBlocked(row.until))
                 THEN admitted ELSE Noted(admitted)
  /\ Straggles(q)
  /\ UNCHANGED <<clock, local, row, faults, passed, block>>

\* The query fails altogether (check_shared lets the request pass), or its
\* client hangs up.
QueryLost(q) ==
  /\ req[q] # NoReq
  /\ req' = [req EXCEPT ![q] = NoReq] /\ Fault
  /\ UNCHANGED <<clock, local, row, passed, admitted, block, straggled>>

----------------------------------------------------------------------------
(* The hourly cleanup, restarts and time.                                  *)

\* cleanup_expired_records: an entry that neither blocks nor is recent goes.
CleanupLocal(r) ==
  /\ local[r] # NewRecord
  /\ ~IsBlocked(local[r].until)
  /\ \A s \in local[r].stamps : s[1] + Idling <= clock
  /\ local' = [local EXCEPT ![r] = NewRecord]
  /\ UNCHANGED <<clock, row, req, faults, passed, admitted, block, straggled>>

\* cleanup_shared_records.
CleanupShared ==
  /\ row # None
  /\ ~IsBlocked(row.until)
  /\ row.touched + Idling < clock
  /\ row' = None
  /\ UNCHANGED <<clock, local, req, faults, passed, admitted, block, straggled>>

\* A replica starts again with an empty map; what it was doing is gone.
Restart(r) ==
  /\ Fault
  /\ local' = [local EXCEPT ![r] = NewRecord]
  /\ req' = [q \in Requests |-> IF req[q].rep = r THEN NoReq ELSE req[q]]
  /\ passed' = [passed EXCEPT ![r] = {}]
  /\ block' = [block EXCEPT ![r] = None]
  /\ UNCHANGED <<clock, row, admitted, straggled>>

ClockTick ==
  /\ clock < MaxTime
  /\ clock' = clock + 1
  /\ passed' = [r \in Replicas |-> {s \in passed[r] : s[1] + Period > clock + 1}]
  /\ IF WindowOf(clock) = WindowOf(clock + 1) THEN UNCHANGED <<admitted, straggled>>
     ELSE admitted' = {} /\ straggled' = FALSE
  /\ UNCHANGED <<local, row, req, faults, block>>

RateNext ==
  \/ \E q \in Requests :
       \/ \E r \in Replicas : Arrive(q, r)
       \/ ResetHits(q) \/ CountHit(q) \/ BlockClient(q) \/ Decide(q) \/ QueryLost(q)
  \/ \E r \in Replicas : CleanupLocal(r) \/ Restart(r)
  \/ CleanupShared \/ ClockTick

RateSpec == RateInit /\ [][RateNext]_rateVars

----------------------------------------------------------------------------
(* Properties.                                                             *)

\* While a replica runs it lets at most Max requests pass in any window of
\* time, wherever the window begins and whatever the cleanup forgets: this is
\* all that holds when the database is away (check_shared falls back to it).
LocalBound == \A r \in Replicas : Cardinality(passed[r]) <= Max

\* The shared counter lets at most Max requests of all replicas together pass
\* in one fixed window, even if some replicas restart (with_shared_backend: N
\* replicas must not mean N times the quota).  Two kinds of requests are
\* outside: in a window in which a query begun in an earlier unit of time runs
\* nothing is claimed (straggled; EveryWindowBound is false), and a request
\* whose query is lost or meets a conflict each time it is sent passes on the
\* local window alone (check_shared), so that LocalBound is all that bounds it.
SharedBound == ~straggled => Cardinality(admitted) <= Max

\* A block holds from the unit of time after it began to its end: no request
\* passes its layer, on any replica if it is the shared one, and neither the
\* change of windows nor the cleanup lifts it.
BlockHolds ==
  \A l \in Layers : block[l] # None /\ block[l] < clock /\ clock < block[l] + Block =>
    At(IF l = Shared THEN admitted ELSE passed[l], clock) = {}

\* A block is never prolonged and never begun twice, so that one flood costs
\* one audit event per layer and block (rate_limit_layer records JustBlocked).
OneBlockAtATime ==
  [][\A l \in Layers : block'[l] \notin {block[l], None} =>
        block[l] = None \/ block[l] + Block <= clock]_rateVars

\* Not kept: the bound of SharedBound in every window.  The window number is
\* computed before the query and kept for its retries; a query that arrives
\* late sets the row back to its own window, and the next one sets it to zero.
EveryWindowBound == Cardinality(admitted) <= Max
=============================================================================
