------------------------------ MODULE HostBridge -----------------------------
(***************************************************************************)
(* Host values and host calls together, as a bridge uses them              *)
(* (bridge_cffi/src/ffi/host_value.rs and the bridges of the SDKs): a call *)
(* of a host object is dispatched by the object's key, which the bridge    *)
(* looks up in its registry, and an answer may bring a key with it, whose  *)
(* stub is interned before it is known whether anybody waits for it.       *)
(***************************************************************************)
EXTENDS HostValues, HostCalls

VARIABLE callee     \* the key of the object that a root call calls

vars == <<hvars, kvars, callee>>

Init == HostInit /\ CallsInit /\ callee \in [Call -> Key]

\* host_dispatch_callback resolves the key when the call is dispatched; the
\* closure that is called keeps a stub alive meanwhile.
CallHost(c) ==
    \E k \in Key :
        /\ \E s \in Stub : clones[s] > 0 /\ keyOf[s] = k
        /\ callee' = [callee EXCEPT ![c] = k]
        /\ HostCall(c, host[k] = "entry")
        /\ UNCHANGED hvars

\* complete_host_call: the payload is decoded on the host's thread first.
CompleteHostCall(i, c) ==
    /\ Answer(i, c)
    /\ \/ UNCHANGED hvars
       \/ \E t \in Thread, k \in Key : Decode(t, k)
    /\ UNCHANGED callee

Next ==
    \/ HostNext /\ UNCHANGED <<kvars, callee>>
    \/ \E c \in Call :
        \/ (CancelCall(c) \/ CallRuns(c)) /\ UNCHANGED <<hvars, callee>>
        \/ CallHost(c)
        \/ \E i \in Id : CompleteHostCall(i, c)

Spec == Init /\ [][Next]_vars

-----------------------------------------------------------------------------
BridgeTypeOK == HostTypeOK /\ CallsTypeOK /\ callee \in [Call -> Key]

\* The object of a closure that is called is found in the host's registry,
\* unless its key was decoded too late, after a drain had condemned it or the
\* host had released it.
FindsCallable ==
    \A c \in Call : result[c].is = "not found" => callee[c] \in reborn
=============================================================================
