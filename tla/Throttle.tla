------------------------------ MODULE Throttle ------------------------------
(***************************************************************************)
(* throttle(f, interval) of chessboard-1.0.0.js (58-84), through which     *)
(* mouse and touch moves reach a dragged piece.  Calls are numbered; args  *)
(* is the last one made, received the last one that f was called with.     *)
(***************************************************************************)
EXTENDS Integers

CONSTANTS Interval,      \* of the timer, in ticks
          MaxCalls       \* bound: calls made

ASSUME ThrottleAssumption == Interval \in Nat \ {0} /\ MaxCalls \in Nat

VARIABLES timeout, shouldFire, args,
          received,
          since          \* ticks since f was called, Interval if not less

throttleVars == <<timeout, shouldFire, args, received, since>>

ThrottleInit ==
    /\ timeout = FALSE /\ shouldFire = FALSE
    /\ args = 0 /\ received = 0 /\ since = Interval

\* Mutant: the timer is not set again.
FireUnarmed(x) == received' = x /\ since' = 0 /\ timeout' = FALSE

Fire(x) == received' = x /\ since' = 0 /\ timeout' = TRUE

\* Mutant: a call during the interval is dropped.
CallDropped ==
    /\ args < MaxCalls
    /\ args' = args + 1
    /\ IF timeout THEN UNCHANGED <<timeout, received, since>> ELSE Fire(args')
    /\ UNCHANGED shouldFire

Call ==
    /\ args < MaxCalls
    /\ args' = args + 1
    /\ IF timeout
       THEN shouldFire' = TRUE /\ UNCHANGED <<timeout, received, since>>
       ELSE Fire(args') /\ UNCHANGED shouldFire

HandleTimeout ==
    /\ timeout /\ since = Interval
    /\ IF shouldFire
       THEN Fire(args) /\ shouldFire' = FALSE
       ELSE timeout' = FALSE /\ UNCHANGED <<shouldFire, received, since>>
    /\ UNCHANGED args

Tick == since < Interval /\ since' = since + 1
        /\ UNCHANGED <<timeout, shouldFire, args, received>>

ThrottleNext == Call \/ HandleTimeout \/ Tick

\* Time passes, and the browser runs a timer that is due.
ThrottleSpec ==
    /\ ThrottleInit /\ [][ThrottleNext]_throttleVars
    /\ WF_throttleVars(HandleTimeout) /\ WF_throttleVars(Tick)

-----------------------------------------------------------------------------
\* f is called at most once in an interval, by calls and the timer together.
OncePerInterval == [][received' # received => since = Interval]_throttleVars

\* The last call of a burst is not lost: f is called with it or a later one,
\* though calls before it may never arrive.
LastCallArrives == \A n \in 1..MaxCalls : args = n ~> received >= n
=============================================================================
