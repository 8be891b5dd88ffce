------------------------------- MODULE Limits -------------------------------
(***************************************************************************)
(* The two limits on guessing: the lock on an account whose password keeps *)
(* being wrong (apps/web/lib/lockout.ts, over app.login_attempts) and the  *)
(* fixed window in front of POST /v1/token (apps/web/lib/rate-limit.ts, in *)
(* the memory of one process).                                             *)
(***************************************************************************)
EXTENDS Naturals, FiniteSets, Sequences, Absent

CONSTANTS
  Accounts,       \* addresses, whether or not anybody has them
  Attempts,       \* the sign-ins that may be under way at once
  Callers,        \* the keys of the window: client ids
  MaxFailures,
  LockTime,       \* LOCKOUT_MINUTES and ATTEMPT_WINDOW_MINUTES, which are equal
  RequestTime,    \* BOUND: how long a sign-in takes
  CallsPerWindow, WindowTime,
  MaxTracked,
  MaxTime, MaxSignIns, MaxArrivals \* BOUND

\* A row of login_attempts, and a window.
Failure == [failures : Nat, last : Nat, until : Nat]
Window == [count : Nat, resetAt : Nat]

ASSUME LimitsAssumption ==
  /\ None \notin Accounts /\ None \notin Failure /\ None \notin Window
  /\ IsFiniteSet(Attempts) /\ IsFiniteSet(Callers)
  /\ {MaxFailures, LockTime, RequestTime, CallsPerWindow, WindowTime, MaxTracked} \subseteq Nat
  /\ {MaxTime, MaxSignIns, MaxArrivals} \subseteq Nat
  \* MAX_FAILURES is 5, and the window of POST /v1/token 30 calls in a minute.
  /\ MaxFailures > 1 /\ CallsPerWindow > 0 /\ WindowTime > 0

VARIABLES
  failed,  \* account -> its row of login_attempts, None without one
  signIn,  \* what each sign-in is doing
  guesses, \* history: account -> the times of the wrong passwords tried since its row was last dropped
  windows, \* caller -> its window, None without one
  passed,  \* history: caller -> the times it was let through, since the map was last cleared
  now, signIns, arrivals

lockVars == <<failed, signIn, guesses>>
rateVars == <<windows, passed>>
limitVars == <<lockVars, rateVars, now, signIns, arrivals>>

NoSignIn == [pc |-> "idle", account |-> None, right |-> FALSE, since |-> 0]

LimitInit ==
  /\ failed = [a \in Accounts |-> None]
  /\ signIn = [s \in Attempts |-> NoSignIn]
  /\ guesses = [a \in Accounts |-> <<>>]
  /\ windows = [c \in Callers |-> None]
  /\ passed = [c \in Callers |-> <<>>]
  /\ now = 0 /\ signIns = 0 /\ arrivals = 0

---------------------------------------------------------------------------
(* The lock *)

LockedOut(a) == failed[a] # None /\ failed[a].until > now

\* The before-hook: an account that is locked is refused, whatever its password.
CheckLock(s) == \E a \in Accounts, right \in BOOLEAN :
  /\ signIn[s].pc = "idle" /\ signIns < MaxSignIns /\ signIns' = signIns + 1
  /\ ~LockedOut(a)
  /\ signIn' = [signIn EXCEPT ![s] = [pc |-> "verify", account |-> a, right |-> right, since |-> now]]
  /\ UNCHANGED <<failed, guesses, rateVars, now, arrivals>>

\* Better Auth compares the password: the guess is made here.
Verify(s) ==
  LET a == signIn[s].account IN
  /\ signIn[s].pc = "verify"
  /\ guesses' = IF signIn[s].right THEN guesses ELSE [guesses EXCEPT ![a] = Append(@, now)]
  /\ signIn' = [signIn EXCEPT ![s].pc = IF signIn[s].right THEN "forget" ELSE "collect"]
  /\ UNCHANGED <<failed, rateVars, now, signIns, arrivals>>

\* The after-hook of a sign-in that worked.
Forget(s) ==
  /\ signIn[s].pc = "forget"
  /\ failed' = [failed EXCEPT ![signIn[s].account] = None]
  /\ guesses' = [guesses EXCEPT ![signIn[s].account] = <<>>]
  /\ signIn' = [signIn EXCEPT ![s] = NoSignIn]
  /\ UNCHANGED <<rateVars, now, signIns, arrivals>>

\* Rows that no longer say anything, of any account.
SaysNothing(a) ==
  /\ failed[a] # None
  /\ failed[a].last + LockTime < now
  /\ failed[a].until = 0 \/ failed[a].until < now

\* The after-hook of one that did not, first statement.
Collect(s) ==
  /\ signIn[s].pc = "collect"
  /\ failed' = [a \in Accounts |-> IF SaysNothing(a) THEN None ELSE failed[a]]
  /\ signIn' = [signIn EXCEPT ![s].pc = "count"]
  /\ UNCHANGED <<guesses, rateVars, now, signIns, arrivals>>

\* Mutant: only the failure that crosses the threshold says when the lock ends.
LockedOnce(n, until) == IF n = MaxFailures THEN now + LockTime ELSE 0
\* locked_until: stamped on every failure from the one that crosses the threshold.
LockedUntil(n, until) == IF n >= MaxFailures THEN now + LockTime ELSE until

\* Second statement: insert, or count one more.
CountFailure(s) ==
  LET a == signIn[s].account IN
  /\ signIn[s].pc = "count"
  /\ failed' = [failed EXCEPT ![a] =
       IF @ = None THEN [failures |-> 1, last |-> now, until |-> 0]
       ELSE [failures |-> @.failures + 1, last |-> now, until |-> LockedUntil(@.failures + 1, @.until)]]
  /\ signIn' = [signIn EXCEPT ![s] = NoSignIn]
  /\ UNCHANGED <<guesses, rateVars, now, signIns, arrivals>>

---------------------------------------------------------------------------
(* The window *)

Tracked(w) == {c \in Callers : w[c] # None}
NoWindow == [c \in Callers |-> None]

\* sweep: what has run out; all of it when that is not enough.
SweepStale(w) ==
  LET left == [c \in Callers |-> IF w[c] # None /\ w[c].resetAt <= now THEN None ELSE w[c]]
  IN IF Cardinality(Tracked(left)) > MaxTracked THEN NoWindow ELSE left

SweepWhenFull(w) == IF Cardinality(Tracked(w)) > MaxTracked THEN SweepStale(w) ELSE w

OneMoreCall(w) == [count |-> w.count + 1, resetAt |-> w.resetAt]

\* rateLimit, one call of POST /v1/token: nothing comes between its lines.
RateLimit(c) ==
  LET kept == SweepWhenFull(windows)
      since == IF kept = NoWindow /\ windows # NoWindow THEN [d \in Callers |-> <<>>] ELSE passed
      fresh == kept[c] = None \/ kept[c].resetAt <= now
      ok == fresh \/ kept[c].count < CallsPerWindow
  IN /\ arrivals < MaxArrivals /\ arrivals' = arrivals + 1
     /\ windows' = IF ~ok THEN kept
                   ELSE [kept EXCEPT ![c] = IF fresh THEN [count |-> 1, resetAt |-> now + WindowTime]
                                            ELSE OneMoreCall(kept[c])]
     /\ passed' = IF ok THEN [since EXCEPT ![c] = Append(@, now)] ELSE since
     /\ UNCHANGED <<lockVars, now, signIns>>

\* A restart of the process: its windows are gone, the rows are not.
Restart ==
  /\ arrivals < MaxArrivals /\ arrivals' = arrivals + 1
  /\ windows' = NoWindow /\ passed' = [c \in Callers |-> <<>>]
  /\ UNCHANGED <<lockVars, now, signIns>>

---------------------------------------------------------------------------
LimitTick ==
  /\ now < MaxTime /\ now' = now + 1
  /\ \A s \in Attempts : signIn[s].pc # "idle" => now < signIn[s].since + RequestTime
  /\ UNCHANGED <<lockVars, rateVars, signIns, arrivals>>

LimitNext ==
  \/ \E s \in Attempts : CheckLock(s) \/ Verify(s) \/ Forget(s) \/ Collect(s) \/ CountFailure(s)
  \/ \E c \in Callers : RateLimit(c)
  \/ Restart
  \/ LimitTick
LimitSpec == LimitInit /\ [][LimitNext]_limitVars
---------------------------------------------------------------------------
(* Properties *)

LimitTypeOK ==
  /\ failed \in [Accounts -> [failures : Nat, last : 0 .. MaxTime, until : 0 .. MaxTime + LockTime] \cup {None}]
  /\ signIn \in [Attempts -> [pc : {"idle", "verify", "forget", "collect", "count"},
                              account : Accounts \cup {None}, right : BOOLEAN, since : 0 .. MaxTime]]
  /\ guesses \in [Accounts -> Seq(0 .. MaxTime)] /\ passed \in [Callers -> Seq(0 .. MaxTime)]
  /\ windows \in [Callers -> [count : 1 .. CallsPerWindow, resetAt : Nat] \cup {None}]
  /\ now \in 0 .. MaxTime /\ signIns \in 0 .. MaxSignIns /\ arrivals \in 0 .. MaxArrivals

\* How many of these times are within a span of length d that ends at t.
Within(times, t, d) == Cardinality({i \in DOMAIN times : times[i] <= t /\ times[i] + d > t})

\* "refuses the account outright once the threshold is crossed": between two right passwords,
\* however many addresses the guesses come from, no span of LOCKOUT_MINUTES holds more of them
\* than the threshold and the sign-ins that were already past the check when it was crossed.
GuessesBounded ==
  \A a \in Accounts, t \in 0 .. now :
    Within(guesses[a], t, LockTime) <= MaxFailures + Cardinality(Attempts) - 1

\* "a failure older than the window must not count toward a lock": no failure is counted on top
\* of one from longer ago than the window and the time a request takes - not even one that had
\* locked the account.
OldFailuresForgotten ==
  [][\A a \in Accounts, s \in Attempts :
       signIn[s].account = a /\ CountFailure(s) /\ failed[a] # None =>
         now <= failed[a].last + LockTime + RequestTime]_limitVars

\* A lock in force ends early for one reason only: a right password that was let past the check
\* before the lock was set.
LockStands ==
  [][\A a \in Accounts : LockedOut(a) /\ now' = now =>
       \/ failed'[a] # None /\ failed'[a].until >= failed[a].until
       \/ \E s \in Attempts : signIn[s].account = a /\ Forget(s)]_limitVars

\* rate-limit.ts: "Bounds the map against a caller who rotates the key on every request".
TrackedBounded == Cardinality(Tracked(windows)) <= MaxTracked + 1

\* A fixed window lets through at most two windows' worth in any span of its length, until the
\* map is cleared or the process restarts.
CallsBounded ==
  \A c \in Callers, t \in 0 .. now : Within(passed[c], t, WindowTime) <= 2 * CallsPerWindow

\* The promises of the lockout and the rate limiter, together.
LimitsCorrect ==
  /\ [](LimitTypeOK /\ GuessesBounded /\ TrackedBounded /\ CallsBounded)
  /\ OldFailuresForgotten
  /\ LockStands
=============================================================================
