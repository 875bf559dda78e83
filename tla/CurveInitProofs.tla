--------------------------- MODULE CurveInitProofs ---------------------------
(***************************************************************************)
(* Proofs about CurveInit for any set of threads: callers of initCurve do  *)
(* not race with each other and initialise the curve once.                 *)
(***************************************************************************)
EXTENDS CurveInit, TLAPS

LEMMA TypeStep == TypeOK /\ [Next]_vars => TypeOK'
PROOF
<1> SUFFICES ASSUME TypeOK, [Next]_vars PROVE TypeOK'
  OBVIOUS
<1>1. CASE UNCHANGED vars
  BY <1>1 DEF TypeOK, vars
<1>2. ASSUME NEW t \in Threads, NEW w \in Ways, Enter(t, w)
      PROVE  TypeOK'
  BY <1>2 DEF TypeOK, Enter, Goto, Places
<1>3. ASSUME NEW t \in Threads, Lock(t)
      PROVE  TypeOK'
  BY <1>3 DEF TypeOK, Lock, Goto, Places
<1>4. ASSUME NEW t \in Threads, Check(t)
      PROVE  TypeOK'
  BY <1>4 DEF TypeOK, Check, Goto, Places
<1>5. ASSUME NEW t \in Threads, BeginInit(t)
      PROVE  TypeOK'
  BY <1>5 DEF TypeOK, BeginInit, Goto, Places
<1>6. ASSUME NEW t \in Threads, EndInit(t)
      PROVE  TypeOK'
  BY <1>6 DEF TypeOK, EndInit, Goto, Places
<1>7. ASSUME NEW t \in Threads, SetFlag(t) \/ Unlock(t) \/ Use(t)
      PROVE  TypeOK'
  BY <1>7 DEF TypeOK, SetFlag, Unlock, Use, Goto, Places
<1> QED
  BY <1>1, <1>2, <1>3, <1>4, <1>5, <1>6, <1>7 DEF Next, Step

LEMMA MutexStep == TypeOK /\ MutexExcludes /\ [Next]_vars => MutexExcludes'
PROOF
<1> SUFFICES ASSUME TypeOK, MutexExcludes, [Next]_vars PROVE MutexExcludes'
  OBVIOUS
<1> USE DEF TypeOK, MutexExcludes, InInitCurve, Guarded
<1>1. CASE UNCHANGED vars
  BY <1>1 DEF vars
<1>2. ASSUME NEW t \in Threads, NEW w \in Ways, Enter(t, w)
      PROVE  MutexExcludes'
  <2>1. ASSUME NEW u \in Threads, u # t
        PROVE  pc'[u] = pc[u] /\ way'[u] = way[u]
    BY <1>2, <2>1 DEF Enter, Goto
  <2>2. /\ pc[t] = "idle" /\ way'[t] = w /\ initMutex' = initMutex
        /\ pc'[t] = IF w = "guarded" THEN "lock" ELSE "init"
    BY <1>2 DEF Enter, Goto
  <2>3. initMutex # t
    BY <2>2
  <2>4. ASSUME NEW u \in Threads
        PROVE  /\ way'[u] = "guarded" /\ pc'[u] \in InInitCurve <=> initMutex' = u
               /\ pc'[u] \in {"lock", "check", "flag", "unlock"} => way'[u] = "guarded"
    <3>1. CASE u = t
      BY <2>2, <2>3, <3>1
    <3>2. CASE u # t
      BY <2>1, <2>2, <3>2
    <3> QED
      BY <3>1, <3>2
  <2> QED
    BY <2>4
<1>3. ASSUME NEW t \in Threads, Lock(t)
      PROVE  MutexExcludes'
  <2>1. ASSUME NEW u \in Threads, u # t
        PROVE  pc'[u] = pc[u] /\ way'[u] = way[u] /\ initMutex # u
    BY <1>3, <2>1, CurveConstants DEF Lock, Goto
  <2> QED
    BY <1>3, <2>1 DEF Lock, Goto
<1>4. ASSUME NEW t \in Threads, Check(t)
      PROVE  MutexExcludes'
  BY <1>4 DEF Check, Goto
<1>5. ASSUME NEW t \in Threads, BeginInit(t)
      PROVE  MutexExcludes'
  BY <1>5 DEF BeginInit, Goto
<1>6. ASSUME NEW t \in Threads, EndInit(t)
      PROVE  MutexExcludes'
  BY <1>6 DEF EndInit, Goto
<1>7. ASSUME NEW t \in Threads, SetFlag(t)
      PROVE  MutexExcludes'
  BY <1>7 DEF SetFlag, Goto
<1>8. ASSUME NEW t \in Threads, Unlock(t)
      PROVE  MutexExcludes'
  BY <1>8, CurveConstants DEF Unlock, Goto
<1>9. ASSUME NEW t \in Threads, Use(t)
      PROVE  MutexExcludes'
  BY <1>9 DEF Use, Goto
<1> QED
  BY <1>1, <1>2, <1>3, <1>4, <1>5, <1>6, <1>7, <1>8, <1>9 DEF Next, Step

\* A guarded thread inside initCurve is alone there.
LEMMA AloneInInitCurve ==
  ASSUME MutexExcludes, NEW t \in Threads, NEW u \in Threads, Guarded(t), Guarded(u),
         pc[t] \in InInitCurve, pc[u] \in InInitCurve
  PROVE  t = u
BY DEF MutexExcludes

LEMMA FlagStep ==
  TypeOK /\ MutexExcludes /\ FlagFollowsInit /\ [Next]_vars => FlagFollowsInit'
PROOF
<1> SUFFICES ASSUME TypeOK, MutexExcludes, FlagFollowsInit, [Next]_vars
             PROVE  FlagFollowsInit'
  OBVIOUS
<1> USE DEF FlagFollowsInit, Guarded
<1>1. CASE UNCHANGED vars
  BY <1>1 DEF vars
<1>2. ASSUME NEW t \in Threads, NEW w \in Ways, Enter(t, w)
      PROVE  FlagFollowsInit'
  <2>1. ASSUME NEW u \in Threads, u # t
        PROVE  pc'[u] = pc[u] /\ way'[u] = way[u]
    BY <1>2, <2>1 DEF Enter, Goto, TypeOK
  <2>2. /\ pc[t] = "idle" /\ isInitialized' = isInitialized /\ inits' = inits
        /\ way'[t] = "guarded" => pc'[t] = "lock"
    BY <1>2 DEF Enter, Goto, TypeOK
  <2> QED
    BY <2>1, <2>2
<1>3. ASSUME NEW t \in Threads, Lock(t)
      PROVE  FlagFollowsInit'
  BY <1>3 DEF Lock, Goto, TypeOK
<1>4. ASSUME NEW t \in Threads, Check(t)
      PROVE  FlagFollowsInit'
  <2>1. way[t] = "guarded" /\ pc[t] = "check"
    BY <1>4 DEF Check, Goto, MutexExcludes
  <2>2. ~isInitialized => inits = 0
    <3> SUFFICES ASSUME NEW u \in Threads, Guarded(u), pc[u] \in {"writing", "flag"}
                 PROVE  FALSE
      OBVIOUS
    <3> QED
      BY <2>1, AloneInInitCurve DEF InInitCurve
  <2> QED
    BY <1>4, <2>1, <2>2 DEF Check, Goto, TypeOK
<1>5. ASSUME NEW t \in Threads, BeginInit(t)
      PROVE  FlagFollowsInit'
  <2>1. CASE way[t] = "guarded"
    <3>1. pc[t] = "init" /\ inits = 0 /\ ~isInitialized
      BY <1>5, <2>1 DEF BeginInit, Goto
    <3>2. inits' = 1 /\ ~isInitialized' /\ way' = way /\ pc'[t] = "writing"
      BY <1>5, <2>1, <3>1 DEF BeginInit, Goto, TypeOK
    <3>3. \A u \in Threads : u # t => pc'[u] = pc[u]
      BY <1>5 DEF BeginInit, Goto, TypeOK
    <3>4. \A u \in Threads : way[u] = "guarded" /\ u # t => pc[u] # "init"
      BY <2>1, <3>1, AloneInInitCurve DEF InInitCurve
    <3> QED
      BY <2>1, <3>1, <3>2, <3>3, <3>4
  <2>2. CASE way[t] # "guarded"
    BY <1>5, <2>2 DEF BeginInit, Goto, TypeOK
  <2> QED
    BY <2>1, <2>2
<1>6. ASSUME NEW t \in Threads, EndInit(t)
      PROVE  FlagFollowsInit'
  BY <1>6 DEF EndInit, Goto, TypeOK
<1>7. ASSUME NEW t \in Threads, SetFlag(t)
      PROVE  FlagFollowsInit'
  <2>1. way[t] = "guarded" /\ pc[t] = "flag"
    BY <1>7 DEF SetFlag, Goto, MutexExcludes
  <2>2. \A u \in Threads : way[u] = "guarded" /\ u # t =>
            pc[u] \notin {"init", "writing", "flag"}
    BY <2>1, AloneInInitCurve DEF InInitCurve
  <2>3. /\ isInitialized' /\ inits' = inits /\ way' = way /\ pc'[t] = "unlock"
        /\ \A u \in Threads : u # t => pc'[u] = pc[u]
    BY <1>7 DEF SetFlag, Goto, TypeOK
  <2> QED
    BY <2>1, <2>2, <2>3
<1>8. ASSUME NEW t \in Threads, Unlock(t)
      PROVE  FlagFollowsInit'
  BY <1>8 DEF Unlock, Goto, TypeOK, MutexExcludes
<1>9. ASSUME NEW t \in Threads, Use(t)
      PROVE  FlagFollowsInit'
  BY <1>9 DEF Use, Goto, TypeOK
<1> QED
  BY <1>1, <1>2, <1>3, <1>4, <1>5, <1>6, <1>7, <1>8, <1>9 DEF Next, Step

\* The mutex excludes, and the flag is set after the parameters are written.
THEOREM Invariant == Spec => []IInv
PROOF
<1>1. Init => IInv
  <2> SUFFICES ASSUME Init PROVE IInv
    OBVIOUS
  <2>1. \A t \in Threads : pc[t] = "idle" /\ initMutex # t
    BY CurveConstants DEF Init
  <2>2. TypeOK
    BY DEF Init, TypeOK, Places
  <2>3. MutexExcludes
    BY <2>1 DEF MutexExcludes, InInitCurve
  <2>4. FlagFollowsInit
    BY <2>1 DEF Init, FlagFollowsInit
  <2> QED
    BY <2>2, <2>3, <2>4 DEF IInv
<1>2. IInv /\ [Next]_vars => IInv'
  BY TypeStep, MutexStep, FlagStep DEF IInv
<1> QED
  BY <1>1, <1>2, PTL DEF Spec

\* No two callers of initCurve race on the parameters of the curve.
THEOREM GuardedDoNotRace == Spec => []GuardedCallersDoNotRace
PROOF
<1>1. IInv => GuardedCallersDoNotRace
  <2> SUFFICES ASSUME IInv, NEW t \in Threads, NEW u \in Threads, t # u,
                      Guarded(t), Guarded(u), pc[t] = "writing",
                      pc[u] \in {"writing", "use"}
               PROVE  FALSE
    BY DEF GuardedCallersDoNotRace
  <2>1. CASE pc[u] = "writing"
    BY <2>1, AloneInInitCurve DEF IInv, InInitCurve
  <2>2. CASE pc[u] = "use"
    BY <2>2 DEF IInv, FlagFollowsInit
  <2> QED
    BY <2>1, <2>2
<1> QED
  BY <1>1, Invariant, PTL

\* initCurve initialises the curve once, whatever other callers do.
THEOREM InitOnce == Spec => []InitCurveWritesOnce
PROOF
<1>1. IInv => InitCurveWritesOnce
  BY DEF IInv, FlagFollowsInit, InitCurveWritesOnce
<1> QED
  BY <1>1, Invariant, PTL

-----------------------------------------------------------------------------
(* Without direct calls.                                                   *)

LEMMA WrittenStep ==
  IInv /\ OnlyInitCurve /\ WrittenBeforeFlag /\ [Next]_vars => WrittenBeforeFlag'
PROOF
<1> SUFFICES ASSUME IInv, OnlyInitCurve, WrittenBeforeFlag, [Next]_vars
             PROVE  WrittenBeforeFlag'
  OBVIOUS
<1> USE DEF WrittenBeforeFlag
<1>1. TypeOK /\ MutexExcludes /\ FlagFollowsInit /\ \A t \in Threads : Guarded(t)
  BY DEF IInv, OnlyInitCurve
<1>2. CASE UNCHANGED vars
  BY <1>2 DEF vars
<1>3. ASSUME NEW t \in Threads, NEW w \in Ways, Enter(t, w)
      PROVE  WrittenBeforeFlag'
  BY <1>1, <1>3 DEF TypeOK, Enter, Goto
<1>4. ASSUME NEW t \in Threads, Lock(t) \/ Check(t) \/ SetFlag(t) \/ Unlock(t) \/ Use(t)
      PROVE  WrittenBeforeFlag'
  BY <1>1, <1>4 DEF TypeOK, Lock, Check, SetFlag, Unlock, Use, Goto
<1>5. ASSUME NEW t \in Threads, BeginInit(t)
      PROVE  WrittenBeforeFlag'
  <2>1. pc[t] = "init" /\ isInitialized' = isInitialized /\ pc' = [pc EXCEPT ![t] = "writing"]
    BY <1>5 DEF BeginInit, Goto
  <2>2. ~isInitialized
    BY <1>1, <2>1 DEF FlagFollowsInit
  <2>3. \A u \in Threads : u # t => pc[u] # "flag"
    BY <1>1, <2>1, AloneInInitCurve DEF InInitCurve
  <2> QED
    BY <1>1, <2>1, <2>2, <2>3 DEF TypeOK
<1>6. ASSUME NEW t \in Threads, EndInit(t)
      PROVE  WrittenBeforeFlag'
  <2>1. pc[t] = "writing"
    BY <1>6 DEF EndInit, Goto
  <2>2. \A u \in Threads \ {t} : pc[u] # "writing"
    BY <1>1, <2>1, AloneInInitCurve DEF InInitCurve
  <2>3. params' = "set"
    BY <1>6, <2>2 DEF EndInit
  <2> QED
    BY <2>3
<1> QED
  BY <1>2, <1>3, <1>4, <1>5, <1>6 DEF Next, Step

\* If every call goes through initCurve, no call computes with parameters that
\* are not there, or not all of them.
THEOREM CompleteParameters == Spec => UsesCompleteParameters
PROOF
<1>1. Init => WrittenBeforeFlag
  BY DEF Init, WrittenBeforeFlag
<1>2. IInv /\ OnlyInitCurve /\ WrittenBeforeFlag => CompleteWhenUsed
  BY DEF IInv, OnlyInitCurve, WrittenBeforeFlag, CompleteWhenUsed, FlagFollowsInit
<1> QED
  BY <1>1, <1>2, Invariant, WrittenStep, PTL DEF Spec, UsesCompleteParameters
=============================================================================
