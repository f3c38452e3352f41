--------------------------- MODULE SemaphoreProofs ---------------------------
(***************************************************************************)
(* The tokens of rtos/semaphore.h for every number of tasks, every initial *)
(* and maximal count and every number of gives, in programs that suspend   *)
(* no task while it waits or sleeps and end before the tick counter        *)
(* overflows.                                                              *)
(*                                                                         *)
(* TokensConserved needs TakerInv: a task that runs inside take() must be  *)
(* one that a give() has chosen, for it will count as having taken a       *)
(* token.  It is, because the tasks in the list are BLOCKED (or DELETED)   *)
(* inside block_current, where neither the clock (TimerInv) nor a client   *)
(* of the kernel wakes them.                                               *)
(***************************************************************************)
EXTENDS Semaphore, SchedulerProofs

SemInv ==
  /\ TypeOK /\ RunningIsCurrent /\ TimerInv
  /\ TakerInv /\ TokensConserved

\* What the members of the list are.
LEMMA TakerFacts ==
  ASSUME SemInv
  PROVE  /\ waiters \in Seq(Handles) /\ Distinct(waiters)
         /\ Members(waiters) \subseteq Handles
         /\ \A t \in Members(waiters) :
              /\ t \in Created /\ pc[t] = "take"
              /\ state[t] \in {"BLOCKED", "DELETED"}
              /\ inside[t] = "block_current"
         /\ Handed \subseteq Handles
         /\ IsFiniteSet(Handed) /\ Cardinality(Handed) \in Nat
<1>1. waiters \in Seq(Handles) /\ Distinct(waiters)
  BY DEF SemInv, TakerInv, SemTypeOK, Distinct
<1>2. Members(waiters) \subseteq Handles
  BY <1>1, MembersType
<1>3. Handed \subseteq Handles
  BY DEF Handed
<1> QED
  BY <1>1, <1>2, <1>3, HandlesFinite DEF SemInv, TakerInv

\* The semaphore and its clients make only the calls that the kernel's
\* specification provides for.
LEMMA SemRefines ==
  ASSUME ClientDiscipline
  PROVE  SemInv /\ [SemNext]_allVars => [Next]_vars
<1> SUFFICES ASSUME SemInv, [SemNext]_allVars PROVE [Next]_vars
  OBVIOUS
<1>1. CASE UNCHANGED allVars
  BY <1>1 DEF allVars
<1>2. CASE take
  BY <1>2 DEF take, Next, BlockCall, ClientDiscipline
<1>3. CASE give
  <2>1. ASSUME NEW i \in DOMAIN waiters, unblock(waiters[i]) PROVE UnblockCall
    BY <2>1, TakerFacts DEF UnblockCall, Unblockable, ClientDiscipline, Members
  <2> QED
    BY <1>3, <2>1 DEF give, Next
<1>4. CASE TakeReturns \/ try_take
  BY <1>4 DEF TakeReturns, try_take
<1>5. CASE OtherStep
  BY <1>5 DEF OtherStep, Next
<1> QED
  BY <1>1, <1>2, <1>3, <1>4, <1>5 DEF SemNext

LEMMA SemStep ==
  ASSUME ClientDiscipline
  PROVE  SemInv /\ [SemNext]_allVars => TakerInv' /\ TokensConserved'
<1> SUFFICES ASSUME SemInv, [SemNext]_allVars
             PROVE  TakerInv' /\ TokensConserved'
  OBVIOUS
<1>a. /\ initial_count \in Nat /\ max_count \in Nat /\ MaxGives \in Nat
      /\ initial_count <= max_count
  BY SemaphoreAssumption
<1>c. /\ Created \subseteq Handles
      /\ INVALID_TASK \notin Handles
      /\ task_count \in Nat
  BY CreatedFacts DEF SemInv
<1>t. /\ count \in 0..max_count /\ given \in 0..MaxGives
      /\ taken \in Nat /\ pc \in [Handles -> {"out", "take"}]
      /\ count + Cardinality(Handed) + taken = initial_count + given
  BY <1>a DEF SemInv, TakerInv, SemTypeOK, TokensConserved
<1>f. /\ waiters \in Seq(Handles) /\ Distinct(waiters)
      /\ Members(waiters) \subseteq Handles
      /\ \A t \in Members(waiters) :
           /\ t \in Created /\ pc[t] = "take"
           /\ state[t] \in {"BLOCKED", "DELETED"} /\ inside[t] = "block_current"
      /\ Handed \subseteq Handles
      /\ IsFiniteSet(Handed) /\ Cardinality(Handed) \in Nat
  BY TakerFacts
<1>o. At("out") \/ At("take") =>
        /\ current \in Created /\ current \in Handles
        /\ current \notin Members(waiters)
  BY <1>c, <1>f DEF At, Running, SemInv, TypeOK, RunningIsCurrent
<1>g. Created \subseteq Created'
  BY SemRefines, CreatedGrows DEF SemInv
\* The tokens that were taken are bounded by those that were there.
<1>b. ASSUME TokensConserved', count' \in Nat, taken' \in Nat,
             given' \in 0..MaxGives, Cardinality(Handed)' \in Nat
      PROVE  taken' \in 0..(initial_count + MaxGives)
  BY <1>a, <1>b DEF TokensConserved
\* Steps that move a token between the count and its taker.
<1>m. ASSUME UNCHANGED <<vars, waiters, pc>>,
             count' \in 0..max_count, given' \in 0..MaxGives, taken' \in Nat,
             count' + taken' + given = count + taken + given',
             count' # 0 => waiters = <<>>
      PROVE  TakerInv' /\ TokensConserved'
  <2>1. Handed' = Handed
    BY <1>m DEF Handed
  <2>2. \A c, k, g \in Nat :
          c + k + given = count + taken + g =>
            c + Cardinality(Handed) + k = initial_count + g
    <3> DEFINE n == Cardinality(Handed)
    <3>1. /\ n \in Nat /\ count \in Nat /\ taken \in Nat /\ given \in Nat
          /\ initial_count \in Nat
          /\ count + n + taken = initial_count + given
      BY <1>a, <1>f, <1>t
    <3> HIDE DEF n
    <3>2. \A c, k, g \in Nat :
            c + k + given = count + taken + g => c + n + k = initial_count + g
      BY <3>1
    <3> QED
      BY <3>2 DEF n
  <2>3. count' \in Nat /\ taken' \in Nat /\ given' \in Nat
    BY <1>a, <1>m
  <2>4. count' + Cardinality(Handed) + taken' = initial_count + given'
    BY <1>m, <2>2, <2>3
  <2>5. TokensConserved'
    BY <2>1, <2>4 DEF TokensConserved
  <2>6. SemTypeOK'
    BY <1>a, <1>b, <1>f, <1>m, <1>t, <2>1, <2>5 DEF SemTypeOK
  <2> QED
    BY <1>m, <2>5, <2>6 DEF SemInv, TakerInv, vars, Created
<1>0. CASE UNCHANGED allVars
  BY <1>0, <1>m, <1>t DEF allVars, semVars, SemInv, TakerInv
\* take() waits: its caller enters the list and is not among the chosen.
<1>1. ASSUME At("out"), count = 0,
             waiters' = Enqueued(waiters, current),
             pc' = [pc EXCEPT ![current] = "take"],
             block_current,
             UNCHANGED <<count, taken, given>>
      PROVE  TakerInv' /\ TokensConserved'
  <2>1. /\ waiters' \in Seq(Handles) /\ Distinct(waiters')
        /\ Members(waiters') = Members(waiters) \cup {current}
    BY <1>1, <1>f, <1>o, EnqueuedDistinct
  <2>2. Handed' = Handed
    BY <1>1, <1>o, <1>t, <2>1 DEF Handed, At
  <2>3. TokensConserved'
    BY <1>1, <1>t, <2>2 DEF TokensConserved
  <2>4. SemTypeOK'
    BY <1>1, <1>o, <1>t, <2>1 DEF SemInv, TakerInv, SemTypeOK
  <2>5. ASSUME NEW t \in Members(waiters')
        PROVE  /\ pc'[t] = "take"
               /\ state'[t] \in {"BLOCKED", "DELETED"}
               /\ inside'[t] = "block_current"
    BY <1>1, <1>f, <1>o, <1>t, <2>1
    DEF block_current, GiveUp, SemInv, TypeOK
  <2>6. \A t \in Handles : pc'[t] # "out" => t \in Created'
    BY <1>1, <1>g, <1>o, <1>t DEF SemInv, TakerInv
  <2> QED
    BY <1>1, <2>1, <2>3, <2>4, <2>5, <2>6 DEF TakerInv, Distinct
<1>2. CASE take
  <2>1. CASE count > 0
    <3>1. /\ UNCHANGED <<vars, waiters, pc, given>>
          /\ count' = count - 1 /\ taken' = taken + 1
      BY <1>2, <1>t, <2>1 DEF take
    <3>2. waiters = <<>>
      BY <2>1 DEF SemInv, TakerInv
    <3> QED
      BY <1>a, <1>m, <1>t, <2>1, <3>1, <3>2
  <2>2. CASE count = 0
    BY <1>1, <1>2, <2>2 DEF take
  <2> QED
    BY <1>t, <2>1, <2>2
\* Whoever runs inside take() was chosen.
<1>3. CASE TakeReturns
  <2>1. /\ current \in Handles /\ current \in Handed
        /\ pc' = [pc EXCEPT ![current] = "out"]
        /\ taken' = taken + 1
        /\ UNCHANGED <<vars, count, waiters, given>>
    BY <1>3, <1>o DEF TakeReturns, At, Handed
  <2>2. Handed' = Handed \ {current}
    BY <1>t, <2>1 DEF Handed
  <2>3. Cardinality(Handed') = Cardinality(Handed) - 1
    BY <1>f, <2>1, <2>2, FS_RemoveElement
  <2>4. TokensConserved'
    BY <1>a, <1>f, <1>t, <2>1, <2>3 DEF TokensConserved
  <2>5. Cardinality(Handed') \in Nat
    BY <1>f, <2>2, HandlesFinite
  <2>6. SemTypeOK'
    BY <1>a, <1>b, <1>f, <1>t, <2>1, <2>4, <2>5 DEF SemTypeOK
  <2>7. \A t \in Members(waiters) : t # current
    BY <1>3, <1>o DEF TakeReturns
  <2> QED
    BY <1>f, <1>t, <2>1, <2>4, <2>6, <2>7 DEF SemInv, TakerInv, vars, Created
<1>4. CASE give
  <2>1. CASE waiters = <<>> /\ count < max_count /\ count' = count + 1
             /\ UNCHANGED <<vars, waiters>>
    BY <1>4, <1>a, <1>m, <1>t, <2>1 DEF give
  <2>2. ASSUME NEW i \in DOMAIN waiters,
               waiters' = SwapRemove(waiters, i),
               unblock(waiters[i]), UNCHANGED count
        PROVE  TakerInv' /\ TokensConserved'
    <3>0. /\ given' = given + 1 /\ given < MaxGives /\ UNCHANGED <<pc, taken>>
      BY <1>4 DEF give
    <3>1. /\ waiters' \in Seq(Handles) /\ Distinct(waiters')
          /\ Members(waiters') = Members(waiters) \ {waiters[i]}
      BY <1>f, <2>2, SwapRemoveFacts, SwapRemoveDistinct
    <3>2. waiters[i] \in Members(waiters) /\ waiters # <<>>
      BY <1>f DEF Members
    <3>3. Handed' = Handed \cup {waiters[i]} /\ waiters[i] \notin Handed
      BY <1>f, <3>0, <3>1, <3>2 DEF Handed
    <3>4. Cardinality(Handed') = Cardinality(Handed) + 1
      BY <1>f, <3>3, FS_AddElement
    <3>5. TokensConserved'
      BY <1>a, <1>f, <1>t, <2>2, <3>0, <3>4 DEF TokensConserved
    <3>6. SemTypeOK'
      BY <1>a, <1>b, <1>f, <1>t, <2>2, <3>0, <3>1, <3>4, <3>5 DEF SemTypeOK
    <3>7. ASSUME NEW t \in Members(waiters')
          PROVE  /\ pc'[t] = "take"
                 /\ state'[t] \in {"BLOCKED", "DELETED"}
                 /\ inside'[t] = "block_current"
      <4>1. /\ t \in Members(waiters) /\ t # waiters[i] /\ t \in Created
            /\ waiters[i] \in Created
        BY <1>f, <3>1, <3>2
      <4>2. t # current
        BY <1>4, <1>c, <1>o, <4>1 DEF give, Idle
      <4>3. state'[t] = state[t] /\ inside'[t] = inside[t]
        BY <2>2, <4>1, <4>2, BlockUnblockEffect DEF SemInv
      <4> QED
        BY <1>f, <3>0, <4>1, <4>3
    <3>8. waiters' # <<>> => count' = 0
      BY <2>2, <3>2 DEF SemInv, TakerInv
    <3> QED
      BY <1>g, <3>0, <3>1, <3>5, <3>6, <3>7, <3>8
      DEF SemInv, TakerInv, Distinct
  <2> QED
    BY <1>4, <2>1, <2>2 DEF give
<1>5. CASE try_take
  BY <1>5, <1>a, <1>m, <1>t DEF try_take, SemInv, TakerInv
<1>6. CASE OtherStep
  <2>1. TokensConserved' /\ SemTypeOK'
    BY <1>6
    DEF OtherStep, semVars, SemInv, TakerInv, SemTypeOK, TokensConserved, Handed
  <2>2. KernelStep \/ TaskCall
    BY <1>6 DEF OtherStep
  <2>3. \A t \in Members(waiters) :
          state'[t] \in {"BLOCKED", "DELETED"} /\ inside'[t] = "block_current"
    BY <1>f, <2>2, BlockedStays DEF SemInv, ClientDiscipline
  <2> QED
    BY <1>6, <1>g, <2>1, <2>3 DEF OtherStep, semVars, SemInv, TakerInv
<1> QED
  BY <1>0, <1>2, <1>3, <1>4, <1>5, <1>6 DEF SemNext

LEMMA SemInvariant ==
  ASSUME ClientDiscipline
  PROVE  SemSpec => []SemInv
<1>1. SemInit => SemInv
  <2> SUFFICES ASSUME SemInit PROVE SemInv
    OBVIOUS
  <2>1. TypeOK /\ RunningIsCurrent /\ TimerInv
    BY InitialInvariants DEF SemInit
  <2>2. Members(waiters) = {} /\ Handed = {}
    BY DEF SemInit, Members, Handed
  <2>3. TakerInv
    BY <2>2, SemaphoreAssumption DEF SemInit, TakerInv, SemTypeOK
  <2>4. TokensConserved
    BY <2>2, SemaphoreAssumption, FS_EmptySet DEF SemInit, TokensConserved
  <2> QED
    BY <2>1, <2>3, <2>4 DEF SemInv
<1>2. SemInv /\ [SemNext]_allVars => SemInv'
  BY SemStep, SemRefines, TypeStep, RunningStep, TimerStep
  DEF SemInv, ClientDiscipline
<1> QED
  BY <1>1, <1>2, PTL DEF SemSpec

\* For every number of tasks and every count: each token is in the count, on
\* its way to the waiter that give() chose, or was taken; take() never
\* returns without one and give() loses none, although it bypasses the count.
THEOREM TokensCorrect ==
  ASSUME ClientDiscipline
  PROVE  SemSpec => []TokensConserved
BY SemInvariant, PTL DEF SemInv

\* For every number of tasks: a task waits only while the count is zero, it
\* is in the list once although a full list would drop it, and it does not
\* run before a give() has chosen it.
THEOREM TakersCorrect ==
  ASSUME ClientDiscipline
  PROVE  SemSpec => []TakerInv
BY SemInvariant, PTL DEF SemInv

\* The semaphore and its clients implement the kernel's specification.
THEOREM SemaphoreImplementsScheduler ==
  ASSUME ClientDiscipline
  PROVE  SemSpec => Spec
<1>1. SemInit => Init
  BY DEF SemInit
<1> QED
  BY <1>1, SemInvariant, SemRefines, PTL DEF SemSpec, Spec
=============================================================================
