-------------------------------- MODULE Bridge --------------------------------
(***************************************************************************)
(* src/bridge/amdhip64_7.cpp: the DLL that forwards the HIP 7 calls of an  *)
(* application to the HIP 6 runtime, called from several threads at once.  *)
(*                                                                         *)
(* Every wrapper keeps its export in a static fn.  The first call of any   *)
(* wrapper loads the backend, once for the process: backend() initialises  *)
(* a function-local static, for which the other threads wait.  An export   *)
(* that cannot be resolved is looked up again by the next call.            *)
(*                                                                         *)
(* Two wrappers do more than forward.  __hipRegisterFatBinary identifies   *)
(* the payload and, with the substitution gate open, registers the         *)
(* embedded gfx1030 bundle in its place.  hipLaunchKernel forwards only    *)
(* with the launch gate open.  Both gates are environment variables, read  *)
(* at every call, which the session may change at any moment.              *)
(*                                                                         *)
(* The backend is external: it answers a forwarded call with success or    *)
(* an error, keeps the registered payloads and, per thread, the last error *)
(* that hipGetLastError returns and clears.                                *)
(***************************************************************************)
EXTENDS Integers

CONSTANTS
  Thread,
  Backends,    \* the runtimes that may be installed
  MaxCalls,    \* bound: calls the application makes
  MaxToggles   \* bound: changes of the gates

\* forward stands for the wrappers that BRIDGE_FWD_ERR defines.
Wrapper == {"registerFatBinary", "unregisterFatBinary", "registerFunction",
            "forward", "getLastError", "getErrorString", "launchKernel"}
\* What the application hands to __hipRegisterFatBinary.
Payload == {"ours", "other", "notAWrapper", "null"}
Ours == "gfx1030"   \* the embedded bundle

\* loadable: LoadLibraryExW succeeds; exports: the wrappers it has an export of.
ASSUME BackendsAssumption ==
  Backends \subseteq [loadable : BOOLEAN, exports : SUBSET Wrapper]
ASSUME BoundsAssumption == MaxCalls \in Nat \ {0} /\ MaxToggles \in Nat

VARIABLES
  backend,                 \* the runtime installed; never written
  launchGate, substGate,   \* the environment
  module,     \* backend()'s static: "none", "loading", "loaded" or "failed"
  loads,      \* how often the backend was loaded
  resolved,   \* the wrappers whose static fn is set
  at,         \* at[t]: where thread t is in its call
  fn, arg,    \* its wrapper, and the payload
  mod,        \* or the handle it was called with
  sends,      \* what __hipRegisterFatBinary is going to forward
  result,     \* what its last call returned
  registered, \* the backend: registered[h] is the payload of handle h
  lastError,  \* the backend: the last error of each thread
  given,      \* the application: given[h] is what it registered as h
  reached,    \* observed: the call has reached the backend
  openLaunch, openSubst, \* observed: the gate was open during the call
  calls, toggles

gates == <<backend, launchGate, substGate>>
loader == <<module, loads, resolved>>
thread == <<at, fn, arg, mod, sends, result>>
backendState == <<registered, lastError>>
observed == <<reached, openLaunch, openSubst>>
vars == <<gates, loader, thread, backendState, given, observed, calls, toggles>>

Handle == 1 .. MaxCalls

Init ==
  /\ backend \in Backends
  /\ launchGate = FALSE /\ substGate = FALSE
  /\ module = "none" /\ loads = 0 /\ resolved = {}
  /\ at = [t \in Thread |-> "idle"]
  /\ fn = [t \in Thread |-> "forward"]
  /\ arg = [t \in Thread |-> "null"] /\ mod = [t \in Thread |-> 1]
  /\ sends = [t \in Thread |-> "null"]
  /\ result = [t \in Thread |-> "none"]
  /\ registered = [h \in Handle |-> "none"]
  /\ lastError = [t \in Thread |-> "success"]
  /\ given = [h \in Handle |-> "none"]
  /\ reached = [t \in Thread |-> FALSE]
  /\ openLaunch = [t \in Thread |-> FALSE] /\ openSubst = [t \in Thread |-> FALSE]
  /\ calls = 0 /\ toggles = 0

-----------------------------------------------------------------------------
(* The session and the application.                                        *)

\* SetEnvironmentVariable, by any thread of the process.
Toggle ==
  /\ toggles < MaxToggles /\ toggles' = toggles + 1
  /\ \/ launchGate' = ~launchGate /\ UNCHANGED substGate
     \/ substGate' = ~substGate /\ UNCHANGED launchGate
  /\ openLaunch' = [t \in Thread |-> openLaunch[t] \/ launchGate']
  /\ openSubst' = [t \in Thread |-> openSubst[t] \/ substGate']
  /\ UNCHANGED <<backend, loader, thread, backendState, given, reached, calls>>

\* The handles the application holds and no thread is unregistering.
Held == {h \in Handle : given[h] # "none"} \
          {mod[t] : t \in {u \in Thread : at[u] # "idle" /\ fn[u] = "unregisterFatBinary"}}

\* Thread t enters wrapper f.
Enter(t, f) ==
  /\ at[t] = "idle" /\ calls < MaxCalls
  /\ calls' = calls + 1
  /\ at' = [at EXCEPT ![t] = "resolve"]
  /\ fn' = [fn EXCEPT ![t] = f]
  /\ \/ /\ f = "registerFatBinary"
        /\ \E a \in Payload : arg' = [arg EXCEPT ![t] = a]
        /\ UNCHANGED mod
     \/ /\ f = "unregisterFatBinary"
        /\ \E h \in Held : mod' = [mod EXCEPT ![t] = h]
        /\ UNCHANGED arg
     \/ f \notin {"registerFatBinary", "unregisterFatBinary"} /\ UNCHANGED <<arg, mod>>
  /\ result' = [result EXCEPT ![t] = "none"]
  /\ reached' = [reached EXCEPT ![t] = FALSE]
  /\ openLaunch' = [openLaunch EXCEPT ![t] = launchGate]
  /\ openSubst' = [openSubst EXCEPT ![t] = substGate]
  /\ UNCHANGED <<gates, loader, sends, backendState, given, toggles>>

-----------------------------------------------------------------------------
(* Resolving the export.                                                   *)

Goto(t, place) == at' = [at EXCEPT ![t] = place]

\* Where the wrapper goes on once it has its export.
Body(t) ==
  CASE fn[t] = "registerFatBinary" -> "identify"
    [] fn[t] = "launchKernel"      -> "gate"
    [] OTHER                       -> "call"

\* Mutant: kHipSuccess for a missing export.
MutUnresolvedIsFine(f) ==
  CASE f \in {"forward", "getLastError", "launchKernel"} -> "success"
    [] f = "registerFatBinary"                           -> "nullHandle"
    [] f = "getErrorString"                              -> "text"
    [] OTHER                                             -> "void"

\* What a wrapper without its export returns: a HIP error, a null handle, a
\* fixed text, or nothing at all.
Unresolved(f) ==
  CASE f \in {"forward", "getLastError", "launchKernel"} -> "unknown"
    [] f = "registerFatBinary"                           -> "nullHandle"
    [] f = "getErrorString"                              -> "text"
    [] OTHER                                             -> "void"

\* static fn is set by an earlier call.
UseStatic(t) ==
  /\ at[t] = "resolve" /\ fn[t] \in resolved
  /\ Goto(t, Body(t))
  /\ UNCHANGED <<gates, loader, fn, arg, mod, sends, result, backendState, given,
                 observed, calls, toggles>>

\* Mutant: the load is not guarded by the static.
MutLoadUnguarded(t) ==
  /\ at[t] = "resolve" /\ fn[t] \notin resolved
  /\ module \in {"none", "loading"}
  /\ module' = "loading" /\ loads' = loads + 1
  /\ Goto(t, "load")
  /\ UNCHANGED <<gates, resolved, fn, arg, mod, sends, result, backendState, given,
                 observed, calls, toggles>>

\* backend() runs for the first time.
BeginLoad(t) ==
  /\ at[t] = "resolve" /\ fn[t] \notin resolved
  /\ module = "none"
  /\ module' = "loading" /\ loads' = loads + 1
  /\ Goto(t, "load")
  /\ UNCHANGED <<gates, resolved, fn, arg, mod, sends, result, backendState, given,
                 observed, calls, toggles>>

EndLoad(t) ==
  /\ at[t] = "load"
  /\ module' = IF backend.loadable THEN "loaded" ELSE "failed"
  /\ Goto(t, "resolve")
  /\ UNCHANGED <<gates, loads, resolved, fn, arg, mod, sends, result, backendState, given,
                 observed, calls, toggles>>

\* resolve() finds the export; a static written twice gets the same value.
Resolve(t) ==
  /\ at[t] = "resolve" /\ fn[t] \notin resolved
  /\ module = "loaded" /\ fn[t] \in backend.exports
  /\ resolved' = resolved \cup {fn[t]}
  /\ Goto(t, Body(t))
  /\ UNCHANGED <<gates, module, loads, fn, arg, mod, sends, result, backendState, given,
                 observed, calls, toggles>>

\* Return to the application, which drops a handle it has unregistered.
Return(t, r) ==
  /\ Goto(t, "idle")
  /\ result' = [result EXCEPT ![t] = r]
  /\ UNCHANGED <<gates, loader, fn, arg, mod, sends, openLaunch, openSubst, calls, toggles>>

Drop(t) ==
  IF fn[t] = "unregisterFatBinary" THEN [given EXCEPT ![mod[t]] = "none"] ELSE given

\* Mutant: a backend that failed to load is waited for.
MutResolveWaits(t) ==
  /\ at[t] = "resolve" /\ fn[t] \notin resolved
  /\ module = "loaded" /\ fn[t] \notin backend.exports
  /\ reached' = reached
  /\ Return(t, Unresolved(fn[t]))
  /\ given' = Drop(t)
  /\ UNCHANGED backendState

ResolveFails(t) ==
  /\ at[t] = "resolve" /\ fn[t] \notin resolved
  /\ module \in {"loaded", "failed"}
  /\ module = "failed" \/ fn[t] \notin backend.exports
  /\ reached' = reached
  /\ Return(t, Unresolved(fn[t]))
  /\ given' = Drop(t)
  /\ UNCHANGED backendState

-----------------------------------------------------------------------------
(* The wrappers' bodies.                                                   *)

\* identify() is FatbinIdentity's parse: "ours" is its kMatch.
Identify(t) ==
  /\ at[t] = "identify"
  /\ sends' = [sends EXCEPT ![t] = IF arg[t] = "ours" /\ substGate THEN Ours ELSE arg[t]]
  /\ Goto(t, "call")
  /\ UNCHANGED <<gates, loader, fn, arg, mod, result, backendState, given, observed,
                 calls, toggles>>

\* Mutant: the gate is read when the wrapper is first resolved, and kept.
MutGateKept(t) ==
  /\ at[t] = "gate" /\ (launchGate \/ toggles > 0)
  /\ Goto(t, "call")
  /\ UNCHANGED <<gates, loader, fn, arg, mod, sends, result, backendState, given,
                 observed, calls, toggles>>

GateOpen(t) ==
  /\ at[t] = "gate" /\ launchGate
  /\ Goto(t, "call")
  /\ UNCHANGED <<gates, loader, fn, arg, mod, sends, result, backendState, given,
                 observed, calls, toggles>>

\* blocked_launch: kHipErrorLaunchFailure, and the backend hears nothing.
GateClosed(t) ==
  /\ at[t] = "gate" /\ ~launchGate
  /\ reached' = reached
  /\ Return(t, "launchFailure")
  /\ UNCHANGED <<backendState, given>>

Calling(t, f) ==
  /\ at[t] = "call" /\ fn[t] = f
  /\ reached' = [reached EXCEPT ![t] = TRUE]

CallRegister(t) ==
  /\ Calling(t, "registerFatBinary")
  /\ \E h \in Handle :
       /\ registered[h] = "none" /\ given[h] = "none"
       /\ registered' = [registered EXCEPT ![h] = sends[t]]
       /\ given' = [given EXCEPT ![h] = arg[t]]
  /\ Return(t, "success")
  /\ UNCHANGED lastError

\* Mutant: a substituted registration is not unregistered.
MutUnregisterOriginal(t) ==
  /\ Calling(t, "unregisterFatBinary")
  /\ registered' = IF registered[mod[t]] = Ours THEN registered
                     ELSE [registered EXCEPT ![mod[t]] = "none"]
  /\ given' = Drop(t)
  /\ Return(t, "void")
  /\ UNCHANGED lastError

CallUnregister(t) ==
  /\ Calling(t, "unregisterFatBinary")
  /\ registered' = [registered EXCEPT ![mod[t]] = "none"]
  /\ given' = Drop(t)
  /\ Return(t, "void")
  /\ UNCHANGED lastError

CallVoid(t) ==
  /\ Calling(t, "registerFunction") \/ Calling(t, "getErrorString")
  /\ Return(t, Unresolved(fn[t]))
  /\ UNCHANGED <<backendState, given>>

\* A call with a hipError_t: the backend remembers an error of its own.
CallError(t) ==
  /\ Calling(t, "forward") \/ Calling(t, "launchKernel")
  /\ \E rc \in {"success", "error"} :
       /\ Return(t, rc)
       /\ lastError' = IF rc = "error" THEN [lastError EXCEPT ![t] = rc] ELSE lastError
  /\ UNCHANGED <<registered, given>>

CallGetLastError(t) ==
  /\ Calling(t, "getLastError")
  /\ Return(t, lastError[t])
  /\ lastError' = [lastError EXCEPT ![t] = "success"]
  /\ UNCHANGED <<registered, given>>

Call(t) ==
  CallRegister(t) \/ CallUnregister(t) \/ CallVoid(t) \/ CallError(t) \/ CallGetLastError(t)

Run(t) ==
  \/ UseStatic(t) \/ BeginLoad(t) \/ EndLoad(t) \/ Resolve(t) \/ ResolveFails(t)
  \/ Identify(t) \/ GateOpen(t) \/ GateClosed(t) \/ Call(t)

Next ==
  \/ Toggle
  \/ \E t \in Thread : Run(t) \/ \E f \in Wrapper : Enter(t, f)

Spec == Init /\ [][Next]_vars

\* A thread inside the DLL runs; nothing is asked of the application.
FairSpec == Spec /\ \A t \in Thread : WF_vars(Run(t))

-----------------------------------------------------------------------------
(* Properties.                                                             *)

Contents == Payload \cup {Ours}
Results == {"none", "success", "error", "unknown", "launchFailure", "nullHandle",
            "text", "void"}

\* The values of the variables.
TypeOK ==
  /\ backend \in Backends
  /\ launchGate \in BOOLEAN /\ substGate \in BOOLEAN
  /\ module \in {"none", "loading", "loaded", "failed"} /\ loads \in Nat
  /\ resolved \subseteq backend.exports
  /\ at \in [Thread -> {"idle", "resolve", "load", "identify", "gate", "call"}]
  /\ fn \in [Thread -> Wrapper]
  /\ arg \in [Thread -> Payload] /\ mod \in [Thread -> Handle]
  /\ sends \in [Thread -> Contents]
  /\ result \in [Thread -> Results]
  /\ registered \in [Handle -> Contents \cup {"none"}]
  /\ lastError \in [Thread -> {"success", "error"}]
  /\ given \in [Handle -> Payload \cup {"none"}]
  /\ reached \in [Thread -> BOOLEAN]
  /\ openLaunch \in [Thread -> BOOLEAN] /\ openSubst \in [Thread -> BOOLEAN]
  /\ calls \in Nat /\ toggles \in Nat

\* The backend is loaded at most once, by one thread, and no export is used
\* before: concurrent first calls wait for the static of backend().
LoadedOnce ==
  /\ loads <= 1
  /\ \A t, u \in Thread : at[t] = "load" /\ at[u] = "load" => t = u
  /\ resolved # {} => module = "loaded"

\* A launch that is on its way to the backend found the gate open in this very
\* call: a gate that was open for an earlier launch does not count.
LaunchNeedsOpenGate ==
  \A t \in Thread : at[t] = "call" /\ fn[t] = "launchKernel" => openLaunch[t]

\* The backend holds for every handle what the application registered, or the
\* gfx1030 bundle in place of the one payload it is meant for, and then only if
\* the substitution gate was open in that very call.
OnlyOursReplaced ==
  /\ \A t \in Thread :
       at[t] = "call" /\ fn[t] = "registerFatBinary" /\ sends[t] = Ours => openSubst[t]
  /\ \A h \in Handle :
       given[h] # "none" => registered[h] \in {given[h]} \cup
                              (IF given[h] = "ours" THEN {Ours} ELSE {})

\* Both gates are asked by the call they decide, however they are switched
\* between and during calls.
GatesObeyed == LaunchNeedsOpenGate /\ OnlyOursReplaced

\* With all registration exports present, the backend holds exactly the
\* payloads whose handles the application has ("lifecycle kept 1:1").
LifecycleOneToOne ==
  {"registerFatBinary", "unregisterFatBinary"} \subseteq backend.exports /\ backend.loadable =>
    \A h \in Handle : given[h] = "none" <=> registered[h] = "none"

\* A call that never reached the backend does not report success.
NoSilentSuccess ==
  \A t \in Thread : result[t] = "success" => reached[t]

\* Every call returns, whether the backend can be loaded or not.
EveryCallReturns == \A t \in Thread : at[t] # "idle" ~> at[t] = "idle"

=============================================================================
