---------------------------- MODULE PrefixRateCap ----------------------------
(***************************************************************************)
(* The hotpath's per-prefix rate cap.  check_and_record is lock-free: a    *)
(* step is one atomic access.  Each thread reads a clock before it calls   *)
(* and may be delayed anywhere, so it acts on an old reading; the thread   *)
(* that wins the roll of the window zeroes the buckets one by one while    *)
(* the others go on counting.                                              *)
(***************************************************************************)
EXTENDS Integers, FiniteSets

CONSTANTS
  Threads,
  NumBuckets,  \* BUCKETS
  Cap,         \* cap_per_window, not 0: a disabled cap touches no bucket
  Window,      \* window_ms
  Wrap,        \* a bucket counts modulo Wrap (2^32 in the code)
  MaxTime,     \* bound: the clock
  MaxCalls,    \* bound: calls begun
  None

Buckets == 0..NumBuckets-1

ASSUME CapAssumption ==
  /\ IsFiniteSet(Threads)
  /\ NumBuckets \in Nat \ {0}
  /\ Cap \in Nat \ {0}
  /\ Window \in Nat \ {0}
  /\ Wrap \in Nat /\ Wrap > Cap + Cardinality(Threads)
  /\ MaxTime \in Nat /\ MaxCalls \in Nat

VARIABLES
  window_start,  \* the clock at which the window opened, plus one; 0: never
  buckets,
  \* per thread: where it is in check_and_record, its clock reading plus one,
  \* its bucket, the window_start it loaded, the next bucket it will zero
  pc, now, bucket, start, zeroing,
  clock, calls,
  \* history: admissions per bucket since the window opened, and whether some
  \* other call overlapped the roll of the window
  admits, overlapped

vars == <<window_start, buckets, pc, now, bucket, start, zeroing, clock, calls,
          admits, overlapped>>

Init ==
  /\ window_start = 0
  /\ buckets = [b \in Buckets |-> 0]
  /\ pc = [t \in Threads |-> "idle"]
  /\ now = [t \in Threads |-> None]
  /\ bucket = [t \in Threads |-> None]
  /\ start = [t \in Threads |-> None]
  /\ zeroing = [t \in Threads |-> None]
  /\ clock = 0
  /\ calls = 0
  /\ admits = [b \in Buckets |-> 0]
  /\ overlapped = FALSE

Goto(t, label) == pc' = [pc EXCEPT ![t] = label]

\* Some winner of a roll has not zeroed every bucket yet.
Rolling == \E t \in Threads : pc[t] = "zero"

\* Mutant: a clock reading older than the window counts as expired.
ExpiredByWrapping(t) ==
  start[t] = 0 \/ now[t] - start[t] >= Window \/ now[t] < start[t]

\* now.saturating_sub(start) >= window_ms, or no window has opened yet.
Expired(t) == start[t] = 0 \/ now[t] - start[t] >= Window

Tick ==
  /\ clock < MaxTime
  /\ clock' = clock + 1
  /\ UNCHANGED <<window_start, buckets, pc, now, bucket, start, zeroing, calls,
                 admits, overlapped>>

------------------------------------------------------------------------------

Call(t, b) ==
  /\ pc[t] = "idle" /\ calls < MaxCalls
  /\ calls' = calls + 1
  /\ now' = [now EXCEPT ![t] = clock + 1]
  /\ bucket' = [bucket EXCEPT ![t] = b]
  /\ Goto(t, "load")
  /\ overlapped' = (overlapped \/ Rolling)
  /\ UNCHANGED <<window_start, buckets, start, zeroing, clock, admits>>

LoadStart(t) ==
  /\ pc[t] = "load"
  /\ start' = [start EXCEPT ![t] = window_start]
  /\ Goto(t, "check")
  /\ UNCHANGED <<window_start, buckets, now, bucket, zeroing, clock, calls,
                 admits, overlapped>>

WindowHolds(t) ==
  /\ pc[t] = "check" /\ ~Expired(t)
  /\ Goto(t, "add")
  /\ UNCHANGED <<window_start, buckets, now, bucket, start, zeroing, clock, calls,
                 admits, overlapped>>

\* The exchange succeeds: a new window opens.
WinRoll(t) ==
  /\ pc[t] = "check" /\ Expired(t)
  /\ window_start = start[t]
  /\ window_start' = now[t]
  /\ zeroing' = [zeroing EXCEPT ![t] = 0]
  /\ Goto(t, "zero")
  /\ admits' = [b \in Buckets |-> 0]
  /\ overlapped' = \E u \in Threads \ {t} : pc[u] # "idle"
  /\ UNCHANGED <<buckets, now, bucket, start, clock, calls>>

\* Mutant: a lost exchange is retried with the same window_start.
LoseRollKeepsStart(t) ==
  /\ pc[t] = "check" /\ Expired(t)
  /\ UNCHANGED vars

\* A peer moved the window, or the weak exchange failed spuriously.
LoseRoll(t) ==
  /\ pc[t] = "check" /\ Expired(t)
  /\ Goto(t, "load")
  /\ UNCHANGED <<window_start, buckets, now, bucket, start, zeroing, clock, calls,
                 admits, overlapped>>

ZeroBucket(t) ==
  /\ pc[t] = "zero"
  /\ buckets' = [buckets EXCEPT ![zeroing[t]] = 0]
  /\ IF zeroing[t] + 1 \in Buckets
     THEN zeroing' = [zeroing EXCEPT ![t] = @ + 1] /\ UNCHANGED pc
     ELSE zeroing' = [zeroing EXCEPT ![t] = None] /\ Goto(t, "add")
  /\ UNCHANGED <<window_start, now, bucket, start, clock, calls, admits,
                 overlapped>>

Finish(t) ==
  /\ Goto(t, "idle")
  /\ now' = [now EXCEPT ![t] = None]
  /\ bucket' = [bucket EXCEPT ![t] = None]
  /\ start' = [start EXCEPT ![t] = None]

\* Mutant: the cap is off by one.
AdmitAtCap(t) ==
  /\ pc[t] = "add"
  /\ buckets[bucket[t]] <= Cap
  /\ buckets' = [buckets EXCEPT ![bucket[t]] = (@ + 1) % Wrap]
  /\ admits' = [admits EXCEPT ![bucket[t]] = @ + 1]
  /\ Finish(t)
  /\ UNCHANGED <<window_start, zeroing, clock, calls, overlapped>>

\* fetch_add found the bucket below the cap: the call is admitted.
Admit(t) ==
  /\ pc[t] = "add"
  /\ buckets[bucket[t]] < Cap
  /\ buckets' = [buckets EXCEPT ![bucket[t]] = (@ + 1) % Wrap]
  /\ admits' = [admits EXCEPT ![bucket[t]] = @ + 1]
  /\ Finish(t)
  /\ UNCHANGED <<window_start, zeroing, clock, calls, overlapped>>

\* fetch_add found it at the cap: the call is turned away, but its increment
\* stands until the fetch_sub.
Refuse(t) ==
  /\ pc[t] = "add"
  /\ buckets[bucket[t]] >= Cap
  /\ buckets' = [buckets EXCEPT ![bucket[t]] = (@ + 1) % Wrap]
  /\ Goto(t, "undo")
  /\ UNCHANGED <<window_start, now, bucket, start, zeroing, clock, calls, admits,
                 overlapped>>

Undo(t) ==
  /\ pc[t] = "undo"
  /\ buckets' = [buckets EXCEPT ![bucket[t]] = (@ + Wrap - 1) % Wrap]
  /\ Finish(t)
  /\ UNCHANGED <<window_start, zeroing, clock, calls, admits, overlapped>>

Check(t) ==
  \/ LoadStart(t)
  \/ WindowHolds(t)
  \/ WinRoll(t)
  \/ LoseRoll(t)
  \/ ZeroBucket(t)
  \/ Admit(t)
  \/ Refuse(t)
  \/ Undo(t)

Next ==
  \/ \E t \in Threads : Check(t) \/ \E b \in Buckets : Call(t, b)
  \/ Tick

Spec == Init /\ [][Next]_vars

\* Threads are scheduled, and an exchange that could succeed does not fail
\* spuriously for ever.
Fairness == \A t \in Threads : WF_vars(Check(t)) /\ SF_vars(WinRoll(t))

FairSpec == Spec /\ Fairness

------------------------------------------------------------------------------

TypeOK ==
  /\ window_start \in 0..MaxTime+1
  /\ buckets \in [Buckets -> 0..Wrap-1]
  /\ pc \in [Threads -> {"idle", "load", "check", "zero", "add", "undo"}]
  /\ now \in [Threads -> (1..MaxTime+1) \cup {None}]
  /\ bucket \in [Threads -> Buckets \cup {None}]
  /\ start \in [Threads -> (0..MaxTime+1) \cup {None}]
  /\ zeroing \in [Threads -> Buckets \cup {None}]
  /\ clock \in 0..MaxTime
  /\ calls \in 0..MaxCalls
  /\ admits \in [Buckets -> Nat]
  /\ overlapped \in BOOLEAN

Undoing(b) == Cardinality({t \in Threads : pc[t] = "undo" /\ bucket[t] = b})

\* While a window opened without another call in flight, the cap is hard: the
\* bucket is the number of calls it admitted plus the refusals not yet undone,
\* it admits at most Cap, and it never wraps, however the calls that follow
\* the roll interleave.
CapIsHardWhenRollIsAlone ==
  window_start # 0 /\ ~overlapped /\ ~Rolling =>
    \A b \in Buckets :
      /\ buckets[b] = admits[b] + Undoing(b)
      /\ admits[b] <= Cap

\* The cap is hard outside a contended roll.
CapIsHard == TypeOK /\ CapIsHardWhenRollIsAlone

\* Windows open in order and each for its full length: no delayed thread rolls
\* back to an earlier clock or closes a window before its time.
WindowsInOrder ==
  [][window_start' # window_start =>
       window_start = 0 \/ window_start' >= window_start + Window]_vars

\* A refusal takes its increment back: when no call is in flight no bucket
\* stands above the cap.
RollbackLeavesNoResidue ==
  (\A t \in Threads : pc[t] = "idle") => \A b \in Buckets : buckets[b] <= Cap

\* Every call returns, whatever its peers do and however the clock moves.
CallsReturn == \A t \in Threads : pc[t] # "idle" ~> pc[t] = "idle"

------------------------------------------------------------------------------
(* The inductive invariant behind the cap.                                  *)

\* What a call knows where it stands.
CallInv ==
  \A t \in Threads :
    /\ pc[t] # "idle" => now[t] \in 1..MaxTime+1 /\ bucket[t] \in Buckets
    /\ pc[t] = "check" => start[t] \in 0..MaxTime+1
    /\ pc[t] = "zero" => zeroing[t] \in Buckets

\* A winner that nobody overlapped is alone, nothing has been admitted in its
\* window yet, and the buckets it has passed are empty.
RollInv ==
  ~overlapped => \A t \in Threads : pc[t] = "zero" =>
    /\ \A u \in Threads \ {t} : pc[u] = "idle"
    /\ \A b \in Buckets : admits[b] = 0 /\ (b < zeroing[t] => buckets[b] = 0)

CapInv == TypeOK /\ CallInv /\ RollInv /\ CapIsHardWhenRollIsAlone
==============================================================================
