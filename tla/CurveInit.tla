------------------------------ MODULE CurveInit ------------------------------
(***************************************************************************)
(* How threads that use the library initialise the parameters of the       *)
(* curve, which libff keeps in global variables.  The classes of bls/, the *)
(* class Dkg and the tools call ThresholdUtils::initCurve, which takes a   *)
(* mutex and does the work once.  Most constructors of                     *)
(* threshold_encryption/ and those of DKGTESecret and DKGTEWrapper call    *)
(* libff::init_alt_bn128_params directly: they write the parameters again  *)
(* on every call, without the mutex and without setting is_initialized.    *)
(***************************************************************************)
EXTENDS Naturals, FiniteSets

CONSTANTS
  Threads,
  Ways,        \* how constructors initialise: a subset of {"guarded", "direct"}
  MaxCalls,    \* bound on the calls of each thread
  NoThread

ASSUME CurveConstants ==
    /\ Ways \subseteq {"guarded", "direct"}
    /\ MaxCalls \in Nat
    /\ NoThread \notin Threads

VARIABLES
  pc,               \* where each thread is
  way,              \* how the call each thread is in initialises the curve
  calls,            \* the number of calls each thread has started
  initMutex,        \* the thread that holds initMutex
  isInitialized,    \* ThresholdUtils::is_initialized
  params,           \* the globals of libff: "unset", "partly" or "set"
  inits             \* how often initCurve called init_alt_bn128_params (history)

vars == <<pc, way, calls, initMutex, isInitialized, params, inits>>

Init ==
    /\ pc = [t \in Threads |-> "idle"]
    /\ way \in [Threads -> Ways]
    /\ calls = [t \in Threads |-> 0]
    /\ initMutex = NoThread
    /\ isInitialized = FALSE
    /\ params = "unset"
    /\ inits = 0

Goto(t, from, to) == pc[t] = from /\ pc' = [pc EXCEPT ![t] = to]

\* A thread calls a constructor of the library.
Enter(t, w) ==
    /\ calls[t] < MaxCalls
    /\ Goto(t, "idle", IF w = "guarded" THEN "lock" ELSE "init")
    /\ way' = [way EXCEPT ![t] = w]
    /\ calls' = [calls EXCEPT ![t] = @ + 1]
    /\ UNCHANGED <<initMutex, isInitialized, params, inits>>

\* std::lock_guard takes the mutex.
Lock(t) ==
    /\ initMutex = NoThread
    /\ Goto(t, "lock", "check")
    /\ initMutex' = t
    /\ UNCHANGED <<way, calls, isInitialized, params, inits>>

UnlockEarly(t) ==                           \* slip: the mutex is not held to the end
    /\ Goto(t, "check", "init")
    /\ initMutex' = NoThread
    /\ UNCHANGED <<way, calls, isInitialized, params, inits>>

CheckNothing(t) ==                          \* slip: the flag is not read
    /\ Goto(t, "check", "init")
    /\ UNCHANGED <<way, calls, initMutex, isInitialized, params, inits>>

Check(t) ==
    /\ Goto(t, "check", IF isInitialized THEN "unlock" ELSE "init")
    /\ UNCHANGED <<way, calls, initMutex, isInitialized, params, inits>>

\* init_alt_bn128_params writes many variables, one after the other.
BeginInit(t) ==
    /\ Goto(t, "init", "writing")
    /\ params' = "partly"
    /\ inits' = IF way[t] = "guarded" THEN inits + 1 ELSE inits
    /\ UNCHANGED <<way, calls, initMutex, isInitialized>>

EndInit(t) ==
    /\ Goto(t, "writing", IF way[t] = "guarded" THEN "flag" ELSE "use")
    /\ params' = IF \E u \in Threads \ {t} : pc[u] = "writing" THEN "partly" ELSE "set"
    /\ UNCHANGED <<way, calls, initMutex, isInitialized, inits>>

SetFlag(t) ==
    /\ Goto(t, "flag", "unlock")
    /\ isInitialized' = TRUE
    /\ UNCHANGED <<way, calls, initMutex, params, inits>>

Unlock(t) ==
    /\ Goto(t, "unlock", "use")
    /\ initMutex' = NoThread
    /\ UNCHANGED <<way, calls, isInitialized, params, inits>>

\* The rest of the call computes with the curve.
Use(t) ==
    /\ Goto(t, "use", "idle")
    /\ UNCHANGED <<way, calls, initMutex, isInitialized, params, inits>>

Step(t) ==
    \/ \E w \in Ways : Enter(t, w)
    \/ Lock(t) \/ Check(t) \/ BeginInit(t) \/ EndInit(t) \/ SetFlag(t) \/ Unlock(t)
    \/ Use(t)

Next == \E t \in Threads : Step(t)

Spec == Init /\ [][Next]_vars

-----------------------------------------------------------------------------
(* Properties.                                                             *)

Places == {"idle", "lock", "check", "init", "writing", "flag", "unlock", "use"}
InInitCurve == {"check", "init", "writing", "flag", "unlock"}

TypeOK ==
    /\ pc \in [Threads -> Places]
    /\ way \in [Threads -> Ways]
    /\ calls \in [Threads -> Nat]
    /\ initMutex \in Threads \cup {NoThread}
    /\ isInitialized \in BOOLEAN
    /\ params \in {"unset", "partly", "set"}
    /\ inits \in Nat

Guarded(t) == way[t] = "guarded"

\* Two threads race if one writes the parameters while the other uses or
\* writes them.  No two callers of initCurve ever do, even when other threads
\* construct threshold-encryption objects at the same time.
GuardedCallersDoNotRace ==
    \A t, u \in Threads :
        t # u /\ Guarded(t) /\ Guarded(u) /\ pc[t] = "writing"
            => pc[u] \notin {"writing", "use"}

\* initCurve writes the parameters at most once in the life of the process.
InitCurveWritesOnce == inits <= 1

OnlyInitCurve == \A t \in Threads : Guarded(t)
CompleteWhenUsed == \A t \in Threads : pc[t] = "use" => params = "set"

\* As long as every call goes through initCurve, the parameters are complete
\* whenever a call computes with them.
UsesCompleteParameters == []OnlyInitCurve => []CompleteWhenUsed

\* The inductive strengthening of the first two: the mutex excludes, and the
\* parameters are written before the flag is set, by one thread at most.
MutexExcludes ==
    \A t \in Threads :
        /\ Guarded(t) /\ pc[t] \in InInitCurve <=> initMutex = t
        /\ pc[t] \in {"lock", "check", "flag", "unlock"} => Guarded(t)

FlagFollowsInit ==
    /\ isInitialized =>
           \A t \in Threads : Guarded(t) => pc[t] \notin {"init", "writing", "flag"}
    /\ (\E t \in Threads : Guarded(t) /\ pc[t] = "use") => isInitialized
    /\ \A t \in Threads : Guarded(t) /\ pc[t] = "unlock" => isInitialized
    /\ \A t \in Threads : Guarded(t) /\ pc[t] = "init" => inits = 0
    /\ \/ inits = 0
       \/ inits = 1 /\ (isInitialized \/ \E t \in Threads :
                            Guarded(t) /\ pc[t] \in {"writing", "flag"})

IInv == TypeOK /\ MutexExcludes /\ FlagFollowsInit

\* What follows the writing of the parameters, as long as there are no direct calls.
WrittenBeforeFlag ==
    isInitialized \/ (\E t \in Threads : pc[t] = "flag") => params = "set"
=============================================================================
