--------------------------- MODULE FutureContract ---------------------------
(***************************************************************************)
(* What a spawned future promises, whoever produces, awaits or cancels it: *)
(* it is issued once, settles once, and the error of a failed future is    *)
(* handed over (to an awaiter, or to the task that surfaces it) at most    *)
(* once.  Futures.tla implements this module.                              *)
(***************************************************************************)
EXTENDS Naturals

CONSTANT N                     \* how many futures may be issued

Fut == 1..N

Settled == {"value", "failed", "cancelled", "internal"}

VARIABLES outcome,             \* what has become of each future
          claimed              \* failed futures whose error was handed over

cvars == <<outcome, claimed>>

CInit == /\ outcome = [f \in Fut |-> "none"]
         /\ claimed = {}

\* Futures are issued in the order of their ids.
Issue(f) == /\ \A g \in Fut : g < f <=> outcome[g] # "none"
            /\ outcome' = [outcome EXCEPT ![f] = "open"]
            /\ UNCHANGED claimed

Settle(f, o) == /\ outcome[f] = "open"
                /\ outcome' = [outcome EXCEPT ![f] = o]
                /\ UNCHANGED claimed

\* One observer may see several failed futures at once (AwaitAny).
Claim(S) == /\ S # {}
            /\ \A f \in S : outcome[f] = "failed" /\ f \notin claimed
            /\ claimed' = claimed \union S
            /\ UNCHANGED outcome

CNext == \/ \E f \in Fut : Issue(f)
         \/ \E f \in Fut, o \in Settled : Settle(f, o)
         \/ \E S \in SUBSET Fut : Claim(S)

CSpec == CInit /\ [][CNext]_cvars
=============================================================================
