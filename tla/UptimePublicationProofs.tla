---------------------- MODULE UptimePublicationProofs ----------------------
(* Proofs about UptimePublication, for every set of threads and every value. *)
EXTENDS UptimePublication, TLAPS

Initializing(t) == pc[t] \in {"sample", "publish"}

\* The state word tells whether a thread initialises, which one is unique, and
\* mutation and catching up wait for a ready state: until then the floor is 0.
InitShape ==
    /\ state \in {"uninitialized", "initializing", Ready}
    /\ \A t \in Threads : Initializing(t) => state = "initializing"
    /\ \A t, u \in Threads : Initializing(t) /\ Initializing(u) => t = u
    /\ \A t \in Threads :
           pc[t] \in {"host", "raise", "raiseCas", "lock", "addLoad", "addCas"}
               => state = Ready
    /\ \A t \in Threads : pc[t] = "reload" => state # "uninitialized"
    /\ \A t \in Threads :
           /\ pc[t] = "lock" => op[t] # "read"
           /\ pc[t] \in {"addLoad", "addCas"} => op[t] = "add"
           /\ pc[t] = "host" => op[t] = "read"
           /\ pc[t] \in {"raise", "raiseCas"} => op[t] # "add"
    /\ state \in {"uninitialized", "initializing"} => uptime = 0
    /\ \A t \in Threads :
           (pc[t] = "host" \/ (pc[t] \in {"raise", "raiseCas"} /\ op[t] = "read"))
               => state = "auto"

\* Every step keeps every variable in its type.
LEMMA TypeStep ==
    ASSUME TypeOK, InitShape, Next
    PROVE  TypeOK'
<1>1. ASSUME NEW t \in Threads, BeginRead(t)
      PROVE  TypeOK'
  BY <1>1, ValuesAssumption DEF BeginRead, At, Goto, shared, TypeOK, Labels,
     AddFits
<1>2. ASSUME NEW t \in Threads, NEW kind \in {"add", "raise"}, NEW v \in Amounts, BeginMutation(t, kind, v)
      PROVE  TypeOK'
  BY <1>2, ValuesAssumption DEF BeginMutation, At, Goto, shared, TypeOK, Labels,
     AddFits
<1>3. ASSUME NEW t \in Threads, LoadState(t)
      PROVE  TypeOK'
  BY <1>3, ValuesAssumption DEF LoadState, AfterReload, At, Goto, shared,
     TypeOK, Labels, AddFits
<1>4. ASSUME NEW t \in Threads, ClaimInitialization(t)
      PROVE  TypeOK'
  BY <1>4, ValuesAssumption DEF ClaimInitialization, At, Goto, TypeOK, Labels,
     AddFits
<1>5. ASSUME NEW t \in Threads, SampleOrigin(t)
      PROVE  TypeOK'
  BY <1>5, ValuesAssumption DEF SampleOrigin, At, Goto, TypeOK, Labels, AddFits,
     InitShape, Initializing
<1>6. ASSUME NEW t \in Threads, PublishReady(t)
      PROVE  TypeOK'
  BY <1>6, ValuesAssumption DEF PublishReady, At, Goto, TypeOK, Labels, AddFits,
     Ready
<1>7. ASSUME NEW t \in Threads, SampleHost(t)
      PROVE  TypeOK'
  BY <1>7, ValuesAssumption DEF SampleHost, At, Goto, shared, TypeOK, Labels,
     AddFits, HostUptimeNs
<1>8. ASSUME NEW t \in Threads, LoadForRaise(t)
      PROVE  TypeOK'
  BY <1>8, ValuesAssumption DEF LoadForRaise, At, Goto, shared, TypeOK, Labels,
     AddFits
<1>9. ASSUME NEW t \in Threads, RaiseCas(t)
      PROVE  TypeOK'
  BY <1>9, ValuesAssumption DEF RaiseCas, At, FloorAfterRaise, Goto, Raised,
     TypeOK, Labels, AddFits, Max2
<1>10. ASSUME NEW t \in Threads, ReturnUptime(t)
      PROVE  TypeOK'
  BY <1>10, ValuesAssumption DEF ReturnUptime, At, Done, Goto, shared, TypeOK,
     Labels, AddFits, Max2
<1>11. ASSUME NEW t \in Threads, Lock(t)
      PROVE  TypeOK'
  BY <1>11, ValuesAssumption DEF Lock, At, Goto, TypeOK, Labels, AddFits
<1>12. ASSUME NEW t \in Threads, AddLoad(t)
      PROVE  TypeOK'
  BY <1>12, ValuesAssumption DEF AddLoad, At, Goto, shared, TypeOK, Labels,
     AddFits
<1>13. ASSUME NEW t \in Threads, AddCas(t)
      PROVE  TypeOK'
  BY <1>13, ValuesAssumption DEF AddCas, AddFits, AddSucceeds, At, Goto, TypeOK,
     Labels, AddFits, Max2
<1>14. ASSUME NEW t \in Threads, Unlock(t)
      PROVE  TypeOK'
  BY <1>14, ValuesAssumption DEF Unlock, At, Done, TypeOK, Labels, AddFits
<1>15. ASSUME NEW t \in Threads, CheckFails(t)
      PROVE  TypeOK'
  BY <1>15, ValuesAssumption DEF CheckFails, AddFits, At, shared, TypeOK,
     Labels, AddFits
<1>16. ASSUME HostTick
      PROVE  TypeOK'
  BY <1>16, ValuesAssumption DEF HostTick, locals, TypeOK, Labels, AddFits
<1>17. ASSUME UNCHANGED vars
      PROVE  TypeOK'
  BY <1>17, ValuesAssumption DEF vars, shared, locals, TypeOK, Labels, AddFits
<1> QED
  BY <1>1, <1>2, <1>3, <1>4, <1>5, <1>6, <1>7, <1>8, <1>9, <1>10, <1>11, <1>12,
     <1>13, <1>14, <1>15, <1>16, <1>17 DEF Next, Proceed, Aborted

\* The initial values have their types.
LEMMA TypeInit ==
    ASSUME Init
    PROVE  TypeOK
<1>1. pc \in [Threads -> Labels] /\ op \in [Threads -> {"read", "add", "raise"}]
  BY DEF Init, Labels
<1>2. value \in [Threads -> Nat] /\ current \in [Threads -> Nat]
  BY DEF Init
<1>3. lock \subseteq Threads
  BY DEF Init
<1> QED BY <1>1, <1>2, <1>3, ValuesAssumption DEF Init, TypeOK

-----------------------------------------------------------------------------
(* Initialisation happens once *)

\* Initialisation is claimed once and nothing overtakes it.
LEMMA InitShapeStep ==
    ASSUME TypeOK, InitShape, Next
    PROVE  InitShape'
<1>1. ASSUME NEW t \in Threads, BeginRead(t)
      PROVE  InitShape'
  BY <1>1, ValuesAssumption DEF BeginRead, At, Goto, shared, TypeOK, InitShape,
     Initializing, Ready
<1>2. ASSUME NEW t \in Threads, NEW kind \in {"add", "raise"}, NEW v \in Amounts, BeginMutation(t, kind, v)
      PROVE  InitShape'
  BY <1>2, ValuesAssumption DEF BeginMutation, At, Goto, shared, TypeOK,
     InitShape, Initializing, Ready
<1>3. ASSUME NEW t \in Threads, LoadState(t)
      PROVE  InitShape'
  BY <1>3, ValuesAssumption DEF LoadState, AfterReload, At, Goto, shared,
     TypeOK, InitShape, Initializing, Ready
<1>4. ASSUME NEW t \in Threads, ClaimInitialization(t)
      PROVE  InitShape'
  BY <1>4, ValuesAssumption DEF ClaimInitialization, At, Goto, TypeOK,
     InitShape, Initializing, Ready
<1>5. ASSUME NEW t \in Threads, SampleOrigin(t)
      PROVE  InitShape'
  BY <1>5, ValuesAssumption DEF SampleOrigin, At, Goto, TypeOK, InitShape,
     Initializing, Ready
<1>6. ASSUME NEW t \in Threads, PublishReady(t)
      PROVE  InitShape'
  BY <1>6, ValuesAssumption DEF PublishReady, At, Goto, TypeOK, InitShape,
     Initializing, Ready
<1>7. ASSUME NEW t \in Threads, SampleHost(t)
      PROVE  InitShape'
  BY <1>7, ValuesAssumption DEF SampleHost, At, Goto, shared, TypeOK, InitShape,
     Initializing, Ready
<1>8. ASSUME NEW t \in Threads, LoadForRaise(t)
      PROVE  InitShape'
  BY <1>8, ValuesAssumption DEF LoadForRaise, At, Goto, shared, TypeOK,
     InitShape, Initializing, Ready
<1>9. ASSUME NEW t \in Threads, RaiseCas(t)
      PROVE  InitShape'
  BY <1>9, ValuesAssumption DEF RaiseCas, At, FloorAfterRaise, Goto, Raised,
     TypeOK, InitShape, Initializing, Ready
<1>10. ASSUME NEW t \in Threads, ReturnUptime(t)
      PROVE  InitShape'
  BY <1>10, ValuesAssumption DEF ReturnUptime, At, Done, Goto, shared, TypeOK,
     InitShape, Initializing, Ready
<1>11. ASSUME NEW t \in Threads, Lock(t)
      PROVE  InitShape'
  BY <1>11, ValuesAssumption DEF Lock, At, Goto, TypeOK, InitShape,
     Initializing, Ready
<1>12. ASSUME NEW t \in Threads, AddLoad(t)
      PROVE  InitShape'
  BY <1>12, ValuesAssumption DEF AddLoad, At, Goto, shared, TypeOK, InitShape,
     Initializing, Ready
<1>13. ASSUME NEW t \in Threads, AddCas(t)
      PROVE  InitShape'
  BY <1>13, ValuesAssumption DEF AddCas, AddFits, AddSucceeds, At, Goto, TypeOK,
     InitShape, Initializing, Ready
<1>14. ASSUME NEW t \in Threads, Unlock(t)
      PROVE  InitShape'
  BY <1>14, ValuesAssumption DEF Unlock, At, Done, TypeOK, InitShape,
     Initializing, Ready
<1>15. ASSUME NEW t \in Threads, CheckFails(t)
      PROVE  InitShape'
  BY <1>15, ValuesAssumption DEF CheckFails, AddFits, At, shared, TypeOK,
     InitShape, Initializing, Ready
<1>16. ASSUME HostTick
      PROVE  InitShape'
  BY <1>16, ValuesAssumption DEF HostTick, locals, TypeOK, InitShape,
     Initializing, Ready
<1>17. ASSUME UNCHANGED vars
      PROVE  InitShape'
  BY <1>17, ValuesAssumption DEF vars, shared, locals, TypeOK, InitShape,
     Initializing, Ready
<1> QED
  BY <1>1, <1>2, <1>3, <1>4, <1>5, <1>6, <1>7, <1>8, <1>9, <1>10, <1>11, <1>12,
     <1>13, <1>14, <1>15, <1>16, <1>17 DEF Next, Proceed, Aborted

-----------------------------------------------------------------------------
(* Where the uptime comes from *)

\* A value on its way to the floor is at most what the host clock shows, or is
\* an explicit one.
ValueShape ==
    \A t \in Threads :
        (pc[t] \in {"raise", "raiseCas"} /\ op[t] = "read") => value[t] <= HostUptimeNs

\* A sampled host uptime stays behind the host clock.
LEMMA ValueShapeStep ==
    ASSUME TypeOK, InitShape, ValueShape, Next
    PROVE  ValueShape'
<1>1. ASSUME NEW t \in Threads, BeginRead(t)
      PROVE  ValueShape'
  BY <1>1 DEF BeginRead, At, Goto, shared, TypeOK, InitShape, Initializing,
     Ready, ValueShape, HostUptimeNs
<1>2. ASSUME NEW t \in Threads, NEW kind \in {"add", "raise"}, NEW v \in Amounts, BeginMutation(t, kind, v)
      PROVE  ValueShape'
  BY <1>2 DEF BeginMutation, At, Goto, shared, TypeOK, InitShape, Initializing,
     Ready, ValueShape, HostUptimeNs
<1>3. ASSUME NEW t \in Threads, LoadState(t)
      PROVE  ValueShape'
  BY <1>3 DEF LoadState, AfterReload, At, Goto, shared, TypeOK, InitShape,
     Initializing, Ready, ValueShape, HostUptimeNs
<1>4. ASSUME NEW t \in Threads, ClaimInitialization(t)
      PROVE  ValueShape'
  BY <1>4 DEF ClaimInitialization, At, Goto, TypeOK, InitShape, Initializing,
     Ready, ValueShape, HostUptimeNs
<1>5. ASSUME NEW t \in Threads, SampleOrigin(t)
      PROVE  ValueShape'
  BY <1>5 DEF SampleOrigin, At, Goto, TypeOK, InitShape, Initializing, Ready,
     ValueShape, HostUptimeNs
<1>6. ASSUME NEW t \in Threads, PublishReady(t)
      PROVE  ValueShape'
  BY <1>6 DEF PublishReady, At, Goto, TypeOK, InitShape, Initializing, Ready,
     ValueShape, HostUptimeNs
<1>7. ASSUME NEW t \in Threads, SampleHost(t)
      PROVE  ValueShape'
  BY <1>7 DEF SampleHost, At, Goto, shared, TypeOK, InitShape, Initializing,
     Ready, ValueShape, HostUptimeNs
<1>8. ASSUME NEW t \in Threads, LoadForRaise(t)
      PROVE  ValueShape'
  BY <1>8 DEF LoadForRaise, At, Goto, shared, TypeOK, InitShape, Initializing,
     Ready, ValueShape, HostUptimeNs
<1>9. ASSUME NEW t \in Threads, RaiseCas(t)
      PROVE  ValueShape'
  BY <1>9 DEF RaiseCas, At, FloorAfterRaise, Goto, Raised, TypeOK, InitShape,
     Initializing, Ready, ValueShape, HostUptimeNs
<1>10. ASSUME NEW t \in Threads, ReturnUptime(t)
      PROVE  ValueShape'
  BY <1>10 DEF ReturnUptime, At, Done, Goto, shared, TypeOK, InitShape,
     Initializing, Ready, ValueShape, HostUptimeNs
<1>11. ASSUME NEW t \in Threads, Lock(t)
      PROVE  ValueShape'
  BY <1>11 DEF Lock, At, Goto, TypeOK, InitShape, Initializing, Ready,
     ValueShape, HostUptimeNs
<1>12. ASSUME NEW t \in Threads, AddLoad(t)
      PROVE  ValueShape'
  BY <1>12 DEF AddLoad, At, Goto, shared, TypeOK, InitShape, Initializing,
     Ready, ValueShape, HostUptimeNs
<1>13. ASSUME NEW t \in Threads, AddCas(t)
      PROVE  ValueShape'
  BY <1>13 DEF AddCas, AddFits, AddSucceeds, At, Goto, TypeOK, InitShape,
     Initializing, Ready, ValueShape, HostUptimeNs
<1>14. ASSUME NEW t \in Threads, Unlock(t)
      PROVE  ValueShape'
  BY <1>14 DEF Unlock, At, Done, TypeOK, InitShape, Initializing, Ready,
     ValueShape, HostUptimeNs
<1>15. ASSUME NEW t \in Threads, CheckFails(t)
      PROVE  ValueShape'
  BY <1>15 DEF CheckFails, AddFits, At, shared, TypeOK, InitShape, Initializing,
     Ready, ValueShape, HostUptimeNs
<1>16. ASSUME HostTick
      PROVE  ValueShape'
  BY <1>16 DEF HostTick, locals, TypeOK, InitShape, Initializing, Ready,
     ValueShape, HostUptimeNs
<1>17. ASSUME UNCHANGED vars
      PROVE  ValueShape'
  BY <1>17 DEF vars, shared, locals, TypeOK, InitShape, Initializing, Ready,
     ValueShape, HostUptimeNs
<1> QED
  BY <1>1, <1>2, <1>3, <1>4, <1>5, <1>6, <1>7, <1>8, <1>9, <1>10, <1>11, <1>12,
     <1>13, <1>14, <1>15, <1>16, <1>17 DEF Next, Proceed, Aborted

\* The second part of UptimeIsAccountedFor; the first is the uptime's type.
FloorAccounted ==
    uptime <= IF state = "auto" THEN Max2(explicit, HostUptimeNs) ELSE explicit

\* Every step keeps reads monotone and the uptime accounted for.
LEMMA FloorStep ==
    ASSUME TypeOK, InitShape, ValueShape, ReadsMonotone, FloorAccounted, Next
    PROVE  ReadsMonotone' /\ FloorAccounted'
<1>1. ASSUME NEW t \in Threads, BeginRead(t)
      PROVE  ReadsMonotone' /\ FloorAccounted'
  BY <1>1, ValuesAssumption DEF BeginRead, At, Goto, shared, TypeOK, InitShape,
     Initializing, Ready, ValueShape, ReadsMonotone, FloorAccounted,
     HostUptimeNs, Max2
<1>2. ASSUME NEW t \in Threads, NEW kind \in {"add", "raise"}, NEW v \in Amounts, BeginMutation(t, kind, v)
      PROVE  ReadsMonotone' /\ FloorAccounted'
  BY <1>2, ValuesAssumption DEF BeginMutation, At, Goto, shared, TypeOK,
     InitShape, Initializing, Ready, ValueShape, ReadsMonotone,
     FloorAccounted, HostUptimeNs, Max2
<1>3. ASSUME NEW t \in Threads, LoadState(t)
      PROVE  ReadsMonotone' /\ FloorAccounted'
  BY <1>3, ValuesAssumption DEF LoadState, AfterReload, At, Goto, shared,
     TypeOK, InitShape, Initializing, Ready, ValueShape, ReadsMonotone,
     FloorAccounted, HostUptimeNs, Max2
<1>4. ASSUME NEW t \in Threads, ClaimInitialization(t)
      PROVE  ReadsMonotone' /\ FloorAccounted'
  BY <1>4, ValuesAssumption DEF ClaimInitialization, At, Goto, TypeOK,
     InitShape, Initializing, Ready, ValueShape, ReadsMonotone,
     FloorAccounted, HostUptimeNs, Max2
<1>5. ASSUME NEW t \in Threads, SampleOrigin(t)
      PROVE  ReadsMonotone' /\ FloorAccounted'
  BY <1>5, ValuesAssumption DEF SampleOrigin, At, Goto, TypeOK, InitShape,
     Initializing, Ready, ValueShape, ReadsMonotone, FloorAccounted,
     HostUptimeNs, Max2
<1>6. ASSUME NEW t \in Threads, PublishReady(t)
      PROVE  ReadsMonotone' /\ FloorAccounted'
  BY <1>6, ValuesAssumption DEF PublishReady, At, Goto, TypeOK, InitShape,
     Initializing, Ready, ValueShape, ReadsMonotone, FloorAccounted,
     HostUptimeNs, Max2
<1>7. ASSUME NEW t \in Threads, SampleHost(t)
      PROVE  ReadsMonotone' /\ FloorAccounted'
  BY <1>7, ValuesAssumption DEF SampleHost, At, Goto, shared, TypeOK, InitShape,
     Initializing, Ready, ValueShape, ReadsMonotone, FloorAccounted,
     HostUptimeNs, Max2
<1>8. ASSUME NEW t \in Threads, LoadForRaise(t)
      PROVE  ReadsMonotone' /\ FloorAccounted'
  BY <1>8, ValuesAssumption DEF LoadForRaise, At, Goto, shared, TypeOK,
     InitShape, Initializing, Ready, ValueShape, ReadsMonotone,
     FloorAccounted, HostUptimeNs, Max2
<1>9. ASSUME NEW t \in Threads, RaiseCas(t)
      PROVE  ReadsMonotone' /\ FloorAccounted'
  <2> USE <1>9 DEF RaiseCas, At, Goto, Raised, FloorAfterRaise
  <2>1. state' = state /\ now' = now /\ origin' = origin /\ seen' = seen
    BY DEF TypeOK
  <2>2. CASE ~Raised(t) \/ value[t] <= current[t]
    <3>1. uptime' = uptime
      BY <2>2
    <3>2. explicit' \in Nat /\ explicit <= explicit'
      BY <2>2 DEF TypeOK, Max2
    <3> QED BY <2>1, <3>1, <3>2
        DEF TypeOK, ReadsMonotone, FloorAccounted, Max2, HostUptimeNs
  <2>3. CASE Raised(t) /\ value[t] > current[t]
    <3>1. uptime' = value[t] /\ uptime = current[t] /\ state = Ready
      BY <2>3 DEF TypeOK, InitShape
    <3>2. ReadsMonotone'
      BY <2>1, <2>3, <3>1 DEF TypeOK, ReadsMonotone
    <3>3. CASE op[t] = "raise"
      <4>1. explicit' = Max2(explicit, value[t])
        BY <2>3, <3>3
      <4> QED BY <2>1, <3>1, <3>2, <4>1
          DEF TypeOK, FloorAccounted, Max2, HostUptimeNs
    <3>4. CASE op[t] # "raise"
      <4>1. op[t] = "read"
        BY <3>4 DEF TypeOK, InitShape
      <4>2. state = "auto" /\ value[t] <= HostUptimeNs
        BY <4>1 DEF InitShape, ValueShape
      <4>3. explicit' = explicit
        BY <2>3, <3>4
      <4> QED BY <2>1, <3>1, <3>2, <4>2, <4>3
          DEF TypeOK, FloorAccounted, Max2, HostUptimeNs
    <3> QED BY <3>3, <3>4
  <2> QED BY <2>2, <2>3 DEF TypeOK
<1>10. ASSUME NEW t \in Threads, ReturnUptime(t)
      PROVE  ReadsMonotone' /\ FloorAccounted'
  BY <1>10, ValuesAssumption DEF ReturnUptime, At, Done, Goto, shared, TypeOK,
     InitShape, Initializing, Ready, ValueShape, ReadsMonotone,
     FloorAccounted, HostUptimeNs, Max2
<1>11. ASSUME NEW t \in Threads, Lock(t)
      PROVE  ReadsMonotone' /\ FloorAccounted'
  BY <1>11, ValuesAssumption DEF Lock, At, Goto, TypeOK, InitShape,
     Initializing, Ready, ValueShape, ReadsMonotone, FloorAccounted,
     HostUptimeNs, Max2
<1>12. ASSUME NEW t \in Threads, AddLoad(t)
      PROVE  ReadsMonotone' /\ FloorAccounted'
  BY <1>12, ValuesAssumption DEF AddLoad, At, Goto, shared, TypeOK, InitShape,
     Initializing, Ready, ValueShape, ReadsMonotone, FloorAccounted,
     HostUptimeNs, Max2
<1>13. ASSUME NEW t \in Threads, AddCas(t)
      PROVE  ReadsMonotone' /\ FloorAccounted'
  BY <1>13, ValuesAssumption DEF AddCas, AddFits, AddSucceeds, At, Goto, TypeOK,
     InitShape, Initializing, Ready, ValueShape, ReadsMonotone,
     FloorAccounted, HostUptimeNs, Max2
<1>14. ASSUME NEW t \in Threads, Unlock(t)
      PROVE  ReadsMonotone' /\ FloorAccounted'
  BY <1>14, ValuesAssumption DEF Unlock, At, Done, TypeOK, InitShape,
     Initializing, Ready, ValueShape, ReadsMonotone, FloorAccounted,
     HostUptimeNs, Max2
<1>15. ASSUME NEW t \in Threads, CheckFails(t)
      PROVE  ReadsMonotone' /\ FloorAccounted'
  BY <1>15, ValuesAssumption DEF CheckFails, AddFits, At, shared, TypeOK,
     InitShape, Initializing, Ready, ValueShape, ReadsMonotone,
     FloorAccounted, HostUptimeNs, Max2
<1>16. ASSUME HostTick
      PROVE  ReadsMonotone' /\ FloorAccounted'
  BY <1>16, ValuesAssumption DEF HostTick, locals, TypeOK, InitShape,
     Initializing, Ready, ValueShape, ReadsMonotone, FloorAccounted,
     HostUptimeNs, Max2
<1>17. ASSUME UNCHANGED vars
      PROVE  ReadsMonotone' /\ FloorAccounted'
  BY <1>17, ValuesAssumption DEF vars, shared, locals, TypeOK, InitShape,
     Initializing, Ready, ValueShape, ReadsMonotone, FloorAccounted,
     HostUptimeNs, Max2
<1> QED
  BY <1>1, <1>2, <1>3, <1>4, <1>5, <1>6, <1>7, <1>8, <1>9, <1>10, <1>11, <1>12,
     <1>13, <1>14, <1>15, <1>16, <1>17 DEF Next, Proceed, Aborted

-----------------------------------------------------------------------------
(* Theorems *)

IInv == TypeOK /\ InitShape /\ ValueShape /\ ReadsMonotone /\ FloorAccounted

\* The strengthened invariant holds initially.
LEMMA IInvInit ==
    ASSUME Init
    PROVE  IInv
<1>1. TypeOK
  BY TypeInit
<1>2. \A t \in Threads : pc[t] = "idle"
  BY DEF Init
<1>3. InitShape /\ ValueShape
  BY <1>2 DEF Init, InitShape, ValueShape, Initializing
<1>4. ReadsMonotone /\ FloorAccounted
  BY DEF Init, ReadsMonotone, FloorAccounted
<1> QED BY <1>1, <1>3, <1>4 DEF IInv

\* Every step preserves the strengthened invariant.
LEMMA IInvStep ==
    ASSUME IInv, [Next]_vars
    PROVE  IInv'
<1>1. CASE Next
  BY <1>1, TypeStep, InitShapeStep, ValueShapeStep, FloorStep DEF IInv
<1>2. CASE UNCHANGED vars
  BY <1>2 DEF IInv, vars, shared, locals, TypeOK, InitShape, Initializing, ValueShape,
     ReadsMonotone, FloorAccounted, HostUptimeNs
<1> QED BY <1>1, <1>2

\* The strengthening holds in every reachable state.
THEOREM InvariantHolds == Spec => []IInv
BY IInvInit, IInvStep, PTL DEF Spec

\* Every variable keeps its type.
THEOREM TypeCorrect == Spec => []TypeOK
<1>1. IInv => TypeOK
  BY DEF IInv
<1> QED BY <1>1, InvariantHolds, PTL

\* A read returns at least what any read before it returned, in any context.
THEOREM ReadsAreMonotone == Spec => []ReadsMonotone
<1>1. IInv => ReadsMonotone
  BY DEF IInv
<1> QED BY <1>1, InvariantHolds, PTL

\* The uptime never exceeds both the host clock and the explicit operations,
\* and no sum of a lag leaves its signed range.
THEOREM NoTimeFromNowhere == Spec => []UptimeIsAccountedFor
<1>1. IInv => UptimeIsAccountedFor
  BY DEF IInv, TypeOK, FloorAccounted, UptimeIsAccountedFor
<1> QED BY <1>1, InvariantHolds, PTL

\* A ready publication has no initialiser left to change it.
LEMMA OriginStep ==
    ASSUME TypeOK, InitShape, Next, state \in {"manual", "auto"}
    PROVE  state' = state /\ origin' = origin
<1>1. ASSUME NEW t \in Threads, BeginRead(t)
      PROVE  state' = state /\ origin' = origin
  BY <1>1 DEF BeginRead, At, Goto, shared, InitShape, Initializing, TypeOK,
     Ready
<1>2. ASSUME NEW t \in Threads, NEW kind \in {"add", "raise"}, NEW v \in Amounts, BeginMutation(t, kind, v)
      PROVE  state' = state /\ origin' = origin
  BY <1>2 DEF BeginMutation, At, Goto, shared, InitShape, Initializing, TypeOK,
     Ready
<1>3. ASSUME NEW t \in Threads, LoadState(t)
      PROVE  state' = state /\ origin' = origin
  BY <1>3 DEF LoadState, AfterReload, At, Goto, shared, InitShape, Initializing,
     TypeOK, Ready
<1>4. ASSUME NEW t \in Threads, ClaimInitialization(t)
      PROVE  state' = state /\ origin' = origin
  BY <1>4 DEF ClaimInitialization, At, Goto, InitShape, Initializing, TypeOK,
     Ready
<1>5. ASSUME NEW t \in Threads, SampleOrigin(t)
      PROVE  state' = state /\ origin' = origin
  BY <1>5 DEF SampleOrigin, At, Goto, InitShape, Initializing, TypeOK, Ready
<1>6. ASSUME NEW t \in Threads, PublishReady(t)
      PROVE  state' = state /\ origin' = origin
  BY <1>6 DEF PublishReady, At, Goto, InitShape, Initializing, TypeOK, Ready
<1>7. ASSUME NEW t \in Threads, SampleHost(t)
      PROVE  state' = state /\ origin' = origin
  BY <1>7 DEF SampleHost, At, Goto, shared, InitShape, Initializing, TypeOK,
     Ready
<1>8. ASSUME NEW t \in Threads, LoadForRaise(t)
      PROVE  state' = state /\ origin' = origin
  BY <1>8 DEF LoadForRaise, At, Goto, shared, InitShape, Initializing, TypeOK,
     Ready
<1>9. ASSUME NEW t \in Threads, RaiseCas(t)
      PROVE  state' = state /\ origin' = origin
  BY <1>9 DEF RaiseCas, At, FloorAfterRaise, Goto, Raised, InitShape,
     Initializing, TypeOK, Ready
<1>10. ASSUME NEW t \in Threads, ReturnUptime(t)
      PROVE  state' = state /\ origin' = origin
  BY <1>10 DEF ReturnUptime, At, Done, Goto, shared, InitShape, Initializing,
     TypeOK, Ready
<1>11. ASSUME NEW t \in Threads, Lock(t)
      PROVE  state' = state /\ origin' = origin
  BY <1>11 DEF Lock, At, Goto, InitShape, Initializing, TypeOK, Ready
<1>12. ASSUME NEW t \in Threads, AddLoad(t)
      PROVE  state' = state /\ origin' = origin
  BY <1>12 DEF AddLoad, At, Goto, shared, InitShape, Initializing, TypeOK, Ready
<1>13. ASSUME NEW t \in Threads, AddCas(t)
      PROVE  state' = state /\ origin' = origin
  BY <1>13 DEF AddCas, AddFits, AddSucceeds, At, Goto, InitShape, Initializing,
     TypeOK, Ready
<1>14. ASSUME NEW t \in Threads, Unlock(t)
      PROVE  state' = state /\ origin' = origin
  BY <1>14 DEF Unlock, At, Done, InitShape, Initializing, TypeOK, Ready
<1>15. ASSUME NEW t \in Threads, CheckFails(t)
      PROVE  state' = state /\ origin' = origin
  BY <1>15 DEF CheckFails, AddFits, At, shared, InitShape, Initializing, TypeOK,
     Ready
<1>16. ASSUME HostTick
      PROVE  state' = state /\ origin' = origin
  BY <1>16 DEF HostTick, locals, InitShape, Initializing, TypeOK, Ready
<1>17. ASSUME UNCHANGED vars
      PROVE  state' = state /\ origin' = origin
  BY <1>17 DEF vars, shared, locals, InitShape, Initializing, TypeOK, Ready
<1> QED
  BY <1>1, <1>2, <1>3, <1>4, <1>5, <1>6, <1>7, <1>8, <1>9, <1>10, <1>11, <1>12,
     <1>13, <1>14, <1>15, <1>16, <1>17 DEF Next, Proceed, Aborted

\* Mode and host origin never change once they are published.
THEOREM OriginNeverChanges == Spec => OriginIsImmutable
<1>1. ASSUME IInv, [Next]_vars
      PROVE  [(state \in {"manual", "auto"}) => (state' = state /\ origin' = origin)]_vars
  BY <1>1, OriginStep DEF IInv
<1> QED BY <1>1, InvariantHolds, PTL DEF Spec, OriginIsImmutable
=============================================================================
