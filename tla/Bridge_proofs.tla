---------------------------- MODULE Bridge_proofs -----------------------------
(***************************************************************************)
(* Proofs about Bridge, for any set of threads, any installed runtime and  *)
(* any number of calls and changes of the gates.                           *)
(***************************************************************************)
EXTENDS Bridge, TLAPS

\* The static of backend(): one thread is in its initialiser while it is being
\* loaded, none before or after, and what failed to load could not be loaded.
Lock ==
  /\ module = "none" => loads = 0
  /\ module # "none" => loads = 1
  /\ module = "failed" => ~backend.loadable
  /\ \A t \in Thread : at[t] = "load" => module = "loading"
  /\ \A t, u \in Thread : at[t] = "load" /\ at[u] = "load" => t = u
  /\ resolved # {} => module = "loaded"

\* What a thread inside a wrapper carries: the gates as they have been while it
\* was inside, and a payload that only its own open gate has replaced.
CallOf(t) ==
  /\ at[t] # "idle" => (launchGate => openLaunch[t]) /\ (substGate => openSubst[t])
  /\ at[t] = "identify" => fn[t] = "registerFatBinary"
  /\ at[t] = "gate" => fn[t] = "launchKernel"
  /\ at[t] = "call" /\ fn[t] = "launchKernel" => openLaunch[t]
  /\ at[t] = "call" /\ fn[t] = "registerFatBinary" =>
       sends[t] = arg[t] \/ (sends[t] = Ours /\ arg[t] = "ours" /\ openSubst[t])
InCall == \A t \in Thread : CallOf(t)

Substituted(h) == given[h] # "none" => registered[h] \in {given[h]} \cup (IF given[h] = "ours" THEN {Ours} ELSE {})
Full == {"registerFatBinary", "unregisterFatBinary"} \subseteq backend.exports /\ backend.loadable
Registrations ==
  /\ \A h \in Handle : Substituted(h)
  /\ LifecycleOneToOne

IInv == TypeOK /\ Lock /\ InCall /\ Registrations /\ NoSilentSuccess

-----------------------------------------------------------------------------
\* The initial state has the invariant.
LEMMA Initially == Init => IInv
<1> SUFFICES ASSUME Init PROVE IInv
  OBVIOUS
<1>1. TypeOK
  <2>1. 1 \in Handle
    BY BoundsAssumption DEF BoundsAssumption, Handle
  <2>2. backend \in Backends /\ resolved \subseteq backend.exports
    BY DEF Init
  <2>3. launchGate \in BOOLEAN /\ substGate \in BOOLEAN
    BY Zenon DEF Init
  <2>4. reached \in [Thread -> BOOLEAN] /\ openLaunch \in [Thread -> BOOLEAN] /\ openSubst \in [Thread -> BOOLEAN]
    BY Zenon DEF Init
  <2>5. module \in {"none", "loading", "loaded", "failed"} /\ loads \in Nat /\ calls \in Nat /\ toggles \in Nat
    BY DEF Init
  <2>6. /\ at \in [Thread -> {"idle", "resolve", "load", "identify", "gate", "call"}]
        /\ fn \in [Thread -> Wrapper] /\ arg \in [Thread -> Payload] /\ mod \in [Thread -> Handle]
        /\ sends \in [Thread -> Contents] /\ result \in [Thread -> Results]
    BY <2>1 DEF Init, Wrapper, Payload, Contents, Results
  <2>7. /\ registered \in [Handle -> Contents \cup {"none"}]
        /\ lastError \in [Thread -> {"success", "error"}]
        /\ given \in [Handle -> Payload \cup {"none"}]
    BY DEF Init
  <2> QED
    BY <2>2, <2>3, <2>4, <2>5, <2>6, <2>7 DEF TypeOK
<1>2. Lock /\ InCall /\ Registrations /\ NoSilentSuccess
  BY DEF Init, Lock, InCall, CallOf, Registrations, Substituted, LifecycleOneToOne, NoSilentSuccess
<1> QED
  BY <1>1, <1>2 DEF IInv

\* The values of the variables, step by step.
LEMMA TypeStep == ASSUME TypeOK, InCall, [Next]_vars PROVE TypeOK'
<1> USE BoundsAssumption DEF BoundsAssumption
<1>1. CASE Toggle
  <2>1. launchGate' \in BOOLEAN /\ substGate' \in BOOLEAN
    BY <1>1, Zenon DEF Toggle, TypeOK
  <2>2. openLaunch' \in [Thread -> BOOLEAN]
    BY <1>1, <2>1, Zenon DEF Toggle, TypeOK
  <2>3. openSubst' \in [Thread -> BOOLEAN]
    BY <1>1, <2>1, Zenon DEF Toggle, TypeOK
  <2>4. toggles' \in Nat
    BY <1>1 DEF Toggle, TypeOK
  <2>5. UNCHANGED <<backend, loader, thread, backendState, given, reached, calls>>
    BY <1>1 DEF Toggle
  <2> QED
    BY <2>1, <2>2, <2>3, <2>4, <2>5 DEF TypeOK, loader, thread, backendState
<1>2. ASSUME NEW t \in Thread, NEW f \in Wrapper, Enter(t, f) PROVE TypeOK'
  <2>1. arg' \in [Thread -> Payload]
    BY <1>2 DEF Enter, TypeOK
  <2>2. mod' \in [Thread -> Handle]
    BY <1>2 DEF Enter, TypeOK, Held
  <2>3. calls' \in Nat
    BY <1>2 DEF Enter, TypeOK
  <2>4. /\ at' \in [Thread -> {"idle", "resolve", "load", "identify", "gate", "call"}]
        /\ fn' \in [Thread -> Wrapper] /\ result' \in [Thread -> Results]
    BY <1>2 DEF Enter, TypeOK, Results
  <2>5. /\ reached' \in [Thread -> BOOLEAN] /\ openLaunch' \in [Thread -> BOOLEAN]
        /\ openSubst' \in [Thread -> BOOLEAN]
    BY <1>2 DEF Enter, TypeOK
  <2>6. UNCHANGED <<gates, loader, sends, backendState, given, toggles>>
    BY <1>2 DEF Enter
  <2> QED
    BY <2>1, <2>2, <2>3, <2>4, <2>5, <2>6 DEF TypeOK, gates, loader, backendState
<1>3. ASSUME NEW t \in Thread, UseStatic(t) PROVE TypeOK'
  BY <1>3 DEF UseStatic, Goto, TypeOK, Body, gates, loader, thread, backendState, observed
<1>4. ASSUME NEW t \in Thread, BeginLoad(t) PROVE TypeOK'
  BY <1>4 DEF BeginLoad, Goto, TypeOK, gates, loader, thread, backendState, observed
<1>5. ASSUME NEW t \in Thread, EndLoad(t) PROVE TypeOK'
  BY <1>5 DEF EndLoad, Goto, TypeOK, gates, loader, thread, backendState, observed
<1>6. ASSUME NEW t \in Thread, Resolve(t) PROVE TypeOK'
  BY <1>6 DEF Resolve, Goto, TypeOK, Body, gates, loader, thread, backendState, observed
<1>7. ASSUME NEW t \in Thread, ResolveFails(t) PROVE TypeOK'
  BY <1>7 DEF ResolveFails, Return, Goto, TypeOK, Unresolved, Drop, Results, gates, loader, thread, backendState, observed
<1>8. ASSUME NEW t \in Thread, Identify(t) PROVE TypeOK'
  BY <1>8 DEF Identify, Goto, TypeOK, Contents, Ours, gates, loader, thread, backendState, observed
<1>9. ASSUME NEW t \in Thread, GateOpen(t) PROVE TypeOK'
  BY <1>9 DEF GateOpen, Goto, TypeOK, gates, loader, thread, backendState, observed
<1>10. ASSUME NEW t \in Thread, GateClosed(t) PROVE TypeOK'
  BY <1>10 DEF GateClosed, Return, Goto, TypeOK, Results, gates, loader, thread, backendState, observed
<1>11. ASSUME NEW t \in Thread, CallRegister(t) PROVE TypeOK'
  BY <1>11 DEF CallRegister, Calling, Return, Goto, TypeOK, Contents, Results, gates, loader, thread, backendState, observed
<1>12. ASSUME NEW t \in Thread, CallUnregister(t) PROVE TypeOK'
  BY <1>12 DEF CallUnregister, Calling, Return, Goto, TypeOK, Drop, Results, gates, loader, thread, backendState, observed
<1>13. ASSUME NEW t \in Thread, CallVoid(t) PROVE TypeOK'
  BY <1>13 DEF CallVoid, Calling, Return, Goto, TypeOK, Unresolved, Results, gates, loader, thread, backendState, observed
<1>14. ASSUME NEW t \in Thread, CallError(t) PROVE TypeOK'
  <2>1. PICK rc \in {"success", "error"} :
          /\ Return(t, rc)
          /\ lastError' = IF rc = "error" THEN [lastError EXCEPT ![t] = rc] ELSE lastError
    BY <1>14 DEF CallError
  <2>2. lastError' \in [Thread -> {"success", "error"}]
    BY <2>1 DEF TypeOK
  <2>3. result' \in [Thread -> Results]
    BY <2>1 DEF Return, TypeOK, Results
  <2>4. at' \in [Thread -> {"idle", "resolve", "load", "identify", "gate", "call"}]
    BY <2>1 DEF Return, Goto, TypeOK
  <2>5. reached' \in [Thread -> BOOLEAN]
    BY <1>14 DEF CallError, Calling, TypeOK
  <2>6. UNCHANGED <<gates, loader, fn, arg, mod, sends, openLaunch, openSubst, calls, toggles, registered, given>>
    BY <1>14, <2>1 DEF CallError, Return
  <2> QED
    BY <2>2, <2>3, <2>4, <2>5, <2>6 DEF TypeOK, gates, loader
<1>15. ASSUME NEW t \in Thread, CallGetLastError(t) PROVE TypeOK'
  BY <1>15 DEF CallGetLastError, Calling, Return, Goto, TypeOK, Results, gates, loader, thread, backendState, observed
<1>16. CASE UNCHANGED vars
  BY <1>16 DEF vars, TypeOK, gates, loader, thread, backendState, observed
<1> QED
  BY <1>1, <1>2, <1>3, <1>4, <1>5, <1>6, <1>7, <1>8, <1>9, <1>10, <1>11, <1>12, <1>13, <1>14, <1>15, <1>16 DEF Next, Run, Call

\* The static, step by step.
LEMMA LockStep == ASSUME TypeOK, Lock, [Next]_vars PROVE Lock'
<1>1. CASE Toggle
  BY <1>1 DEF Toggle, TypeOK, Lock, gates, loader, thread, backendState, observed
<1>2. ASSUME NEW t \in Thread, NEW f \in Wrapper, Enter(t, f) PROVE Lock'
  BY <1>2 DEF Enter, TypeOK, Lock, gates, loader, thread, backendState, observed
<1>3. ASSUME NEW t \in Thread, UseStatic(t) PROVE Lock'
  BY <1>3 DEF UseStatic, Goto, TypeOK, Lock, Body, gates, loader, thread, backendState, observed
<1>4. ASSUME NEW t \in Thread, BeginLoad(t) PROVE Lock'
  BY <1>4 DEF BeginLoad, Goto, TypeOK, Lock, gates, loader, thread, backendState, observed
<1>5. ASSUME NEW t \in Thread, EndLoad(t) PROVE Lock'
  BY <1>5 DEF EndLoad, Goto, TypeOK, Lock, gates, loader, thread, backendState, observed
<1>6. ASSUME NEW t \in Thread, Resolve(t) PROVE Lock'
  BY <1>6 DEF Resolve, Goto, TypeOK, Lock, Body, gates, loader, thread, backendState, observed
<1>7. ASSUME NEW t \in Thread, ResolveFails(t) PROVE Lock'
  BY <1>7 DEF ResolveFails, Return, Goto, TypeOK, Lock, gates, loader, thread, backendState, observed
<1>8. ASSUME NEW t \in Thread, Identify(t) PROVE Lock'
  BY <1>8 DEF Identify, Goto, TypeOK, Lock, gates, loader, thread, backendState, observed
<1>9. ASSUME NEW t \in Thread, GateOpen(t) PROVE Lock'
  BY <1>9 DEF GateOpen, Goto, TypeOK, Lock, gates, loader, thread, backendState, observed
<1>10. ASSUME NEW t \in Thread, GateClosed(t) PROVE Lock'
  BY <1>10 DEF GateClosed, Return, Goto, TypeOK, Lock, gates, loader, thread, backendState, observed
<1>11. ASSUME NEW t \in Thread, CallRegister(t) PROVE Lock'
  BY <1>11 DEF CallRegister, Calling, Return, Goto, TypeOK, Lock, gates, loader, thread, backendState, observed
<1>12. ASSUME NEW t \in Thread, CallUnregister(t) PROVE Lock'
  BY <1>12 DEF CallUnregister, Calling, Return, Goto, TypeOK, Lock, gates, loader, thread, backendState, observed
<1>13. ASSUME NEW t \in Thread, CallVoid(t) PROVE Lock'
  BY <1>13 DEF CallVoid, Calling, Return, Goto, TypeOK, Lock, gates, loader, thread, backendState, observed
<1>14. ASSUME NEW t \in Thread, CallError(t) PROVE Lock'
  BY <1>14 DEF CallError, Calling, Return, Goto, TypeOK, Lock, gates, loader, thread, backendState, observed
<1>15. ASSUME NEW t \in Thread, CallGetLastError(t) PROVE Lock'
  BY <1>15 DEF CallGetLastError, Calling, Return, Goto, TypeOK, Lock, gates, loader, thread, backendState, observed
<1>16. CASE UNCHANGED vars
  BY <1>16 DEF vars, TypeOK, Lock, gates, loader, thread, backendState, observed
<1> QED
  BY <1>1, <1>2, <1>3, <1>4, <1>5, <1>6, <1>7, <1>8, <1>9, <1>10, <1>11, <1>12, <1>13, <1>14, <1>15, <1>16 DEF Next, Run, Call

\* What the threads carry, step by step.
LEMMA InCallStep == ASSUME TypeOK, InCall, [Next]_vars PROVE InCall'
<1>1. CASE Toggle
  BY <1>1 DEF Toggle, TypeOK, InCall, CallOf, gates, loader, thread, backendState, observed
<1>2. ASSUME NEW t \in Thread, NEW f \in Wrapper, Enter(t, f) PROVE InCall'
  BY <1>2 DEF Enter, TypeOK, InCall, CallOf, gates, loader, thread, backendState, observed
<1>3. ASSUME NEW t \in Thread, UseStatic(t) PROVE InCall'
  BY <1>3 DEF UseStatic, Goto, TypeOK, InCall, CallOf, Body, gates, loader, thread, backendState, observed
<1>4. ASSUME NEW t \in Thread, BeginLoad(t) PROVE InCall'
  BY <1>4 DEF BeginLoad, Goto, TypeOK, InCall, CallOf, gates, loader, thread, backendState, observed
<1>5. ASSUME NEW t \in Thread, EndLoad(t) PROVE InCall'
  BY <1>5 DEF EndLoad, Goto, TypeOK, InCall, CallOf, gates, loader, thread, backendState, observed
<1>6. ASSUME NEW t \in Thread, Resolve(t) PROVE InCall'
  BY <1>6 DEF Resolve, Goto, TypeOK, InCall, CallOf, Body, gates, loader, thread, backendState, observed
<1>7. ASSUME NEW t \in Thread, ResolveFails(t) PROVE InCall'
  BY <1>7 DEF ResolveFails, Return, Goto, TypeOK, InCall, CallOf, gates, loader, thread, backendState, observed
<1>8. ASSUME NEW t \in Thread, Identify(t) PROVE InCall'
  BY <1>8 DEF Identify, Goto, TypeOK, InCall, CallOf, gates, loader, thread, backendState, observed
<1>9. ASSUME NEW t \in Thread, GateOpen(t) PROVE InCall'
  BY <1>9 DEF GateOpen, Goto, TypeOK, InCall, CallOf, gates, loader, thread, backendState, observed
<1>10. ASSUME NEW t \in Thread, GateClosed(t) PROVE InCall'
  BY <1>10 DEF GateClosed, Return, Goto, TypeOK, InCall, CallOf, gates, loader, thread, backendState, observed
<1>11. ASSUME NEW t \in Thread, CallRegister(t) PROVE InCall'
  BY <1>11 DEF CallRegister, Calling, Return, Goto, TypeOK, InCall, CallOf, gates, loader, thread, backendState, observed
<1>12. ASSUME NEW t \in Thread, CallUnregister(t) PROVE InCall'
  BY <1>12 DEF CallUnregister, Calling, Return, Goto, TypeOK, InCall, CallOf, gates, loader, thread, backendState, observed
<1>13. ASSUME NEW t \in Thread, CallVoid(t) PROVE InCall'
  BY <1>13 DEF CallVoid, Calling, Return, Goto, TypeOK, InCall, CallOf, gates, loader, thread, backendState, observed
<1>14. ASSUME NEW t \in Thread, CallError(t) PROVE InCall'
  BY <1>14 DEF CallError, Calling, Return, Goto, TypeOK, InCall, CallOf, gates, loader, thread, backendState, observed
<1>15. ASSUME NEW t \in Thread, CallGetLastError(t) PROVE InCall'
  BY <1>15 DEF CallGetLastError, Calling, Return, Goto, TypeOK, InCall, CallOf, gates, loader, thread, backendState, observed
<1>16. CASE UNCHANGED vars
  BY <1>16 DEF vars, TypeOK, InCall, CallOf, gates, loader, thread, backendState, observed
<1> QED
  BY <1>1, <1>2, <1>3, <1>4, <1>5, <1>6, <1>7, <1>8, <1>9, <1>10, <1>11, <1>12, <1>13, <1>14, <1>15, <1>16 DEF Next, Run, Call

\* The registrations, step by step.
LEMMA RegistrationsStep == ASSUME TypeOK, Lock, InCall, Registrations, [Next]_vars PROVE Registrations'
<1>1. CASE Toggle
  BY <1>1 DEF Toggle, TypeOK, Registrations, Substituted, LifecycleOneToOne, gates, loader, thread, backendState, observed
<1>2. ASSUME NEW t \in Thread, NEW f \in Wrapper, Enter(t, f) PROVE Registrations'
  BY <1>2 DEF Enter, TypeOK, Registrations, Substituted, LifecycleOneToOne, gates, loader, thread, backendState, observed
<1>3. ASSUME NEW t \in Thread, UseStatic(t) PROVE Registrations'
  BY <1>3 DEF UseStatic, Goto, TypeOK, Registrations, Substituted, LifecycleOneToOne, gates, loader, thread, backendState, observed
<1>4. ASSUME NEW t \in Thread, BeginLoad(t) PROVE Registrations'
  BY <1>4 DEF BeginLoad, Goto, TypeOK, Registrations, Substituted, LifecycleOneToOne, gates, loader, thread, backendState, observed
<1>5. ASSUME NEW t \in Thread, EndLoad(t) PROVE Registrations'
  BY <1>5 DEF EndLoad, Goto, TypeOK, Registrations, Substituted, LifecycleOneToOne, gates, loader, thread, backendState, observed
<1>6. ASSUME NEW t \in Thread, Resolve(t) PROVE Registrations'
  BY <1>6 DEF Resolve, Goto, TypeOK, Registrations, Substituted, LifecycleOneToOne, gates, loader, thread, backendState, observed
<1>7. ASSUME NEW t \in Thread, ResolveFails(t) PROVE Registrations'
  BY <1>7 DEF ResolveFails, Return, Goto, TypeOK, Registrations, Substituted, LifecycleOneToOne, Drop, Lock, gates, loader, thread, backendState, observed
<1>8. ASSUME NEW t \in Thread, Identify(t) PROVE Registrations'
  BY <1>8 DEF Identify, Goto, TypeOK, Registrations, Substituted, LifecycleOneToOne, gates, loader, thread, backendState, observed
<1>9. ASSUME NEW t \in Thread, GateOpen(t) PROVE Registrations'
  BY <1>9 DEF GateOpen, Goto, TypeOK, Registrations, Substituted, LifecycleOneToOne, gates, loader, thread, backendState, observed
<1>10. ASSUME NEW t \in Thread, GateClosed(t) PROVE Registrations'
  BY <1>10 DEF GateClosed, Return, Goto, TypeOK, Registrations, Substituted, LifecycleOneToOne, gates, loader, thread, backendState, observed
<1>11. ASSUME NEW t \in Thread, CallRegister(t) PROVE Registrations'
  BY <1>11 DEF CallRegister, Calling, Return, Goto, TypeOK, Registrations, Substituted, LifecycleOneToOne, InCall, CallOf, Contents, Payload, Ours, gates, loader, thread, backendState, observed
<1>12. ASSUME NEW t \in Thread, CallUnregister(t) PROVE Registrations'
  BY <1>12 DEF CallUnregister, Calling, Return, Goto, TypeOK, Registrations, Substituted, LifecycleOneToOne, Drop, gates, loader, thread, backendState, observed
<1>13. ASSUME NEW t \in Thread, CallVoid(t) PROVE Registrations'
  BY <1>13 DEF CallVoid, Calling, Return, Goto, TypeOK, Registrations, Substituted, LifecycleOneToOne, gates, loader, thread, backendState, observed
<1>14. ASSUME NEW t \in Thread, CallError(t) PROVE Registrations'
  BY <1>14 DEF CallError, Calling, Return, Goto, TypeOK, Registrations, Substituted, LifecycleOneToOne, gates, loader, thread, backendState, observed
<1>15. ASSUME NEW t \in Thread, CallGetLastError(t) PROVE Registrations'
  BY <1>15 DEF CallGetLastError, Calling, Return, Goto, TypeOK, Registrations, Substituted, LifecycleOneToOne, gates, loader, thread, backendState, observed
<1>16. CASE UNCHANGED vars
  BY <1>16 DEF vars, TypeOK, Registrations, Substituted, LifecycleOneToOne, gates, loader, thread, backendState, observed
<1> QED
  BY <1>1, <1>2, <1>3, <1>4, <1>5, <1>6, <1>7, <1>8, <1>9, <1>10, <1>11, <1>12, <1>13, <1>14, <1>15, <1>16 DEF Next, Run, Call

\* Results, step by step.
LEMMA ResultStep == ASSUME TypeOK, NoSilentSuccess, [Next]_vars PROVE NoSilentSuccess'
<1>1. CASE Toggle
  BY <1>1 DEF Toggle, TypeOK, NoSilentSuccess, gates, loader, thread, backendState, observed
<1>2. ASSUME NEW t \in Thread, NEW f \in Wrapper, Enter(t, f) PROVE NoSilentSuccess'
  BY <1>2 DEF Enter, TypeOK, NoSilentSuccess, gates, loader, thread, backendState, observed
<1>3. ASSUME NEW t \in Thread, UseStatic(t) PROVE NoSilentSuccess'
  BY <1>3 DEF UseStatic, Goto, TypeOK, NoSilentSuccess, gates, loader, thread, backendState, observed
<1>4. ASSUME NEW t \in Thread, BeginLoad(t) PROVE NoSilentSuccess'
  BY <1>4 DEF BeginLoad, Goto, TypeOK, NoSilentSuccess, gates, loader, thread, backendState, observed
<1>5. ASSUME NEW t \in Thread, EndLoad(t) PROVE NoSilentSuccess'
  BY <1>5 DEF EndLoad, Goto, TypeOK, NoSilentSuccess, gates, loader, thread, backendState, observed
<1>6. ASSUME NEW t \in Thread, Resolve(t) PROVE NoSilentSuccess'
  BY <1>6 DEF Resolve, Goto, TypeOK, NoSilentSuccess, gates, loader, thread, backendState, observed
<1>7. ASSUME NEW t \in Thread, ResolveFails(t) PROVE NoSilentSuccess'
  BY <1>7 DEF ResolveFails, Return, Goto, TypeOK, NoSilentSuccess, Unresolved, gates, loader, thread, backendState, observed
<1>8. ASSUME NEW t \in Thread, Identify(t) PROVE NoSilentSuccess'
  BY <1>8 DEF Identify, Goto, TypeOK, NoSilentSuccess, gates, loader, thread, backendState, observed
<1>9. ASSUME NEW t \in Thread, GateOpen(t) PROVE NoSilentSuccess'
  BY <1>9 DEF GateOpen, Goto, TypeOK, NoSilentSuccess, gates, loader, thread, backendState, observed
<1>10. ASSUME NEW t \in Thread, GateClosed(t) PROVE NoSilentSuccess'
  BY <1>10 DEF GateClosed, Return, Goto, TypeOK, NoSilentSuccess, gates, loader, thread, backendState, observed
<1>11. ASSUME NEW t \in Thread, CallRegister(t) PROVE NoSilentSuccess'
  BY <1>11 DEF CallRegister, Calling, Return, Goto, TypeOK, NoSilentSuccess, gates, loader, thread, backendState, observed
<1>12. ASSUME NEW t \in Thread, CallUnregister(t) PROVE NoSilentSuccess'
  BY <1>12 DEF CallUnregister, Calling, Return, Goto, TypeOK, NoSilentSuccess, gates, loader, thread, backendState, observed
<1>13. ASSUME NEW t \in Thread, CallVoid(t) PROVE NoSilentSuccess'
  BY <1>13 DEF CallVoid, Calling, Return, Goto, TypeOK, NoSilentSuccess, Unresolved, gates, loader, thread, backendState, observed
<1>14. ASSUME NEW t \in Thread, CallError(t) PROVE NoSilentSuccess'
  BY <1>14 DEF CallError, Calling, Return, Goto, TypeOK, NoSilentSuccess, gates, loader, thread, backendState, observed
<1>15. ASSUME NEW t \in Thread, CallGetLastError(t) PROVE NoSilentSuccess'
  BY <1>15 DEF CallGetLastError, Calling, Return, Goto, TypeOK, NoSilentSuccess, gates, loader, thread, backendState, observed
<1>16. CASE UNCHANGED vars
  BY <1>16 DEF vars, TypeOK, NoSilentSuccess, gates, loader, thread, backendState, observed
<1> QED
  BY <1>1, <1>2, <1>3, <1>4, <1>5, <1>6, <1>7, <1>8, <1>9, <1>10, <1>11, <1>12, <1>13, <1>14, <1>15, <1>16 DEF Next, Run, Call

-----------------------------------------------------------------------------
\* The inductive invariant.
LEMMA Invariance == Spec => []IInv
<1>1. IInv /\ [Next]_vars => IInv'
  BY TypeStep, LockStep, InCallStep, RegistrationsStep, ResultStep DEF IInv
<1> QED
  BY Initially, <1>1, PTL DEF Spec

\* Type correctness of the bridge; no export is cached that the runtime lacks.
THEOREM TypeCorrect == Spec => []TypeOK
<1>1. IInv => TypeOK
  BY DEF IInv
<1> QED
  BY Invariance, <1>1, PTL

\* backend(): one load for the process, however many threads call first.
THEOREM LoadedOnceCorrect == Spec => []LoadedOnce
<1>1. IInv => LoadedOnce
  BY DEF IInv, Lock, LoadedOnce, TypeOK
<1> QED
  BY Invariance, <1>1, PTL

\* hipLaunchKernel and __hipRegisterFatBinary: each call obeys its own gates.
THEOREM GatesObeyedCorrect == Spec => []GatesObeyed
<1>1. IInv => GatesObeyed
  BY DEF IInv, TypeOK, InCall, CallOf, Registrations, Substituted, GatesObeyed, LaunchNeedsOpenGate, OnlyOursReplaced, Payload, Ours
<1> QED
  BY Invariance, <1>1, PTL

\* __hipRegisterFatBinary and __hipUnregisterFatBinary: "lifecycle kept 1:1".
THEOREM LifecycleCorrect == Spec => []LifecycleOneToOne
<1>1. IInv => LifecycleOneToOne
  BY DEF IInv, Registrations
<1> QED
  BY Invariance, <1>1, PTL

\* Every wrapper: success is reported by the runtime or not at all.
THEOREM NoSilentSuccessCorrect == Spec => []NoSilentSuccess
<1>1. IInv => NoSilentSuccess
  BY DEF IInv
<1> QED
  BY Invariance, <1>1, PTL
=============================================================================
