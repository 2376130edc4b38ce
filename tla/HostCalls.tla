------------------------------ MODULE HostCalls ------------------------------
(***************************************************************************)
(* Calls between a host and the engine, both ways.  A root call is known   *)
(* by a CallId of the host's, under which the host may cancel it before,   *)
(* while and after it runs (ActiveCallGuard, bex_engine/src/lib.rs).  When *)
(* the called function calls a host object, the system operation mints a   *)
(* 32-bit id, puts its completion handle in a process-wide table and lets  *)
(* the bridge start a task in the host, whose answer finds the handle by   *)
(* the id (sys_native/src/host_dispatch.rs and host_impls.rs).             *)
(***************************************************************************)
EXTENDS Integers, FiniteSets

CONSTANTS
    Call,       \* root calls, each with a CallId of its own
    Ids,        \* how many ids there are, 2^32 in the code
    MaxTasks    \* bound: no host object is called while so many tasks run

ASSUME IdsAssumption == Ids \in Nat \ {0, 1}

VARIABLES
    active,     \* active_calls: is there an entry, and is it pending?
    phase,      \* where each root call is
    fired,      \* the calls whose token has fired
    asked,      \* history: calls that the host cancelled before their end
    next,       \* NEXT_CALL_ID
    wrapped,    \* history: ids have been minted anew from the start
    id,         \* the id in the InflightGuard of a call, 0 without one
    table,      \* TABLE: the call that an id's handle belongs to
    tasks,      \* tasks in the host: the id they answer and for which call
    result      \* what has arrived in each call's oneshot channel

activeVars == <<active, phase, fired, asked>>
wireVars == <<next, wrapped, id, table, tasks, result>>
kvars == <<active, phase, fired, asked, next, wrapped, id, table, tasks, result>>

Id == 1..(Ids - 1)
None == [is |-> "none"]
NoCall == [is |-> "no call"]
HandleOf(c) == [is |-> "call", call |-> c]

CallsInit ==
    /\ active = [c \in Call |-> "none"]
    /\ phase = [c \in Call |-> "new"]
    /\ fired = {}
    /\ asked = {}
    /\ next = 1
    /\ wrapped = FALSE
    /\ id = [c \in Call |-> 0]
    /\ table = [i \in Id |-> NoCall]
    /\ tasks = {}
    /\ result = [c \in Call |-> None]

-----------------------------------------------------------------------------
\* Root calls.

\* cancel_function_call: an entry's token is fired; without an entry, the id
\* is reserved with a token that has fired.
CancelCall(c) ==
    /\ active' = [active EXCEPT ![c] = IF @ = "none" THEN "reserved" ELSE @]
    /\ fired' = IF active[c] = "entered" THEN fired \union {c} ELSE fired
    /\ asked' = IF phase[c] = "done" THEN asked ELSE asked \union {c}
    /\ UNCHANGED <<phase, wireVars>>

\* Bug: the call keeps the token it came with, which nobody fires.
RegisterAfresh(c) ==
    /\ phase[c] = "new"
    /\ active' = [active EXCEPT ![c] = "entered"]
    /\ phase' = [phase EXCEPT ![c] = "starting"]
    /\ UNCHANGED <<fired, asked, wireVars>>

\* ActiveCallGuard::register: a call whose id is reserved takes over the
\* token of the reservation.
Register(c) ==
    /\ phase[c] = "new"
    /\ active' = [active EXCEPT ![c] = "entered"]
    /\ phase' = [phase EXCEPT ![c] = "starting"]
    /\ fired' = IF active[c] = "reserved" THEN fired \union {c} ELSE fired
    /\ UNCHANGED <<asked, wireVars>>

\* The call returns, and the drop of its guard removes the entry.
End(c) ==
    /\ phase' = [phase EXCEPT ![c] = "done"]
    /\ active' = [active EXCEPT ![c] = "none"]
    /\ UNCHANGED <<fired, asked>>

\* A call that is cancelled before it starts never runs.
Begin(c) ==
    /\ phase[c] = "starting"
    /\ \/ c \in fired /\ End(c)
       \/ /\ c \notin fired
          /\ phase' = [phase EXCEPT ![c] = "running"]
          /\ UNCHANGED <<active, fired, asked>>
    /\ UNCHANGED wireVars

\* The function returns or fails.
Return(c) ==
    /\ phase[c] = "running"
    /\ End(c)
    /\ UNCHANGED wireVars

-----------------------------------------------------------------------------
\* Host calls.

\* Bug: the first id that the table does not have.
MintFree ==
    IF \E i \in Id : table[i] = NoCall
    THEN CHOOSE i \in Id : table[i] = NoCall /\ \A j \in 1..(i - 1) : table[j] # NoCall
    ELSE 1

\* next_call_id: 0 is skipped.
Minted == IF next = 0 THEN 1 ELSE next

Advance ==
    /\ next' = IF Minted + 1 = Ids THEN 0 ELSE Minted + 1
    /\ wrapped' = (wrapped \/ next = 0)

\* Bug: the answer to "no object under this key" is not sent.
DispatchUnchecked(c, i, found) ==
    /\ table' = [table EXCEPT ![i] = HandleOf(c)]
    /\ tasks' = IF found THEN tasks \union {<<i, c>>} ELSE tasks
    /\ UNCHANGED result

\* insert and fire_dispatch.  The bridge that finds no object for the key
\* completes the call at once.
Dispatch(c, i, found) ==
    IF found
    THEN /\ table' = [table EXCEPT ![i] = HandleOf(c)]
         /\ tasks' = tasks \union {<<i, c>>}
         /\ UNCHANGED result
    ELSE /\ result' = [result EXCEPT ![c] = [is |-> "not found"]]
         /\ UNCHANGED <<table, tasks>>

\* The system operation of a call that has not been cancelled.  An id that is
\* still in the table is refused: the call fails, without a guard.
HostCall(c, found) ==
    /\ phase[c] = "running"
    /\ c \notin fired
    /\ Cardinality(tasks) < MaxTasks
    /\ phase' = [phase EXCEPT ![c] = "waiting"]
    /\ Advance
    /\ \/ /\ table[Minted] = NoCall
          /\ Dispatch(c, Minted, found)
          /\ id' = [id EXCEPT ![c] = Minted]
       \/ /\ table[Minted] # NoCall
          /\ result' = [result EXCEPT ![c] = [is |-> "collision"]]
          /\ UNCHANGED <<id, table, tasks>>
    /\ UNCHANGED <<active, fired, asked>>

\* A call that has been cancelled ends where it would yield.
YieldCancelled(c) ==
    /\ phase[c] = "running"
    /\ c \in fired
    /\ End(c)
    /\ UNCHANGED wireVars

\* complete_host_call: the handle under the id gets the answer, if there is one.
Answer(i, c) ==
    /\ <<i, c>> \in tasks
    /\ tasks' = tasks \ {<<i, c>>}
    /\ table' = [table EXCEPT ![i] = NoCall]
    /\ result' = [d \in Call |-> IF table[i] = HandleOf(d)
                                 THEN [is |-> "answer", from |-> c]
                                 ELSE result[d]]
    /\ UNCHANGED <<activeVars, next, wrapped, id>>

\* Bug: the entry of a call that is no longer waited for is left.
KeepEntry(c) ==
    /\ result' = [result EXCEPT ![c] = None]
    /\ id' = [id EXCEPT ![c] = 0]
    /\ UNCHANGED <<next, wrapped, table, tasks>>

\* The operation's future goes, and with it the InflightGuard: whatever is in
\* the table under its id is taken out and dropped, which closes a channel.
DropFuture(c) ==
    LET hit(d) == id[c] # 0 /\ table[id[c]] = HandleOf(d) IN
    /\ table' = [i \in Id |-> IF i = id[c] THEN NoCall ELSE table[i]]
    /\ result' = [d \in Call |-> IF d = c THEN None
                                 ELSE IF hit(d) THEN [is |-> "closed"]
                                 ELSE result[d]]
    /\ id' = [id EXCEPT ![c] = 0]
    /\ UNCHANGED <<next, wrapped, tasks>>

\* The wait ends with what arrived, unless the call was cancelled.
Resume(c) ==
    /\ phase[c] = "waiting"
    /\ c \notin fired
    /\ result[c] # None
    /\ phase' = [phase EXCEPT ![c] = "running"]
    /\ DropFuture(c)
    /\ UNCHANGED <<active, fired, asked>>

WaitCancelled(c) ==
    /\ phase[c] = "waiting"
    /\ c \in fired
    /\ End(c)
    /\ DropFuture(c)

CallRuns(c) ==
    \/ Register(c) \/ Begin(c) \/ Return(c)
    \/ YieldCancelled(c) \/ Resume(c) \/ WaitCancelled(c)

CallsNext ==
    \/ \E c \in Call : \/ CancelCall(c) \/ CallRuns(c)
                       \/ \E found \in BOOLEAN : HostCall(c, found)
    \/ \E i \in Id, c \in Call : Answer(i, c)

-----------------------------------------------------------------------------
Outcome ==
    {None, [is |-> "collision"], [is |-> "not found"], [is |-> "closed"]}
        \union [is : {"answer"}, from : Call]

CallsTypeOK ==
    /\ active \in [Call -> {"none", "reserved", "entered"}]
    /\ phase \in [Call -> {"new", "starting", "running", "waiting", "done"}]
    /\ fired \subseteq Call
    /\ asked \subseteq Call
    /\ next \in 0..(Ids - 1)
    /\ wrapped \in BOOLEAN
    /\ id \in [Call -> 0..(Ids - 1)]
    /\ table \in [Id -> {NoCall} \union [is : {"call"}, call : Call]]
    /\ tasks \subseteq Id \X Call
    /\ result \in [Call -> Outcome]

\* A cancellation counts whenever it comes: before the call is known, while
\* it starts, or while it runs, the call runs with a token that has fired.
CancelIsSeen ==
    \A c \in asked : phase[c] \in {"starting", "running", "waiting"} => c \in fired

\* The table has the calls that wait for their answer and no other: what a
\* cancelled call leaves behind is evicted with its future.
NoEntryLeaks ==
    \A i \in Id, c \in Call :
        table[i] = HandleOf(c) => phase[c] = "waiting" /\ id[c] = i /\ result[c] = None

\* A call that waits will hear: its handle is in the table and a task in the
\* host is going to answer under its id.  An id that is met again does not
\* cost the earlier call its handle.
NobodyStranded ==
    \A c \in Call : (phase[c] = "waiting" /\ result[c] = None) =>
        /\ id[c] \in Id
        /\ table[id[c]] = HandleOf(c)
        /\ <<id[c], c>> \in tasks

\* A call gets the answer that was computed for it, as long as no id has been
\* minted anew: the late answer of a call that was cancelled finds no handle,
\* however many calls have been made since.
AnswersItsOwn ==
    \A c \in Call : (result[c].is = "answer" /\ ~wrapped) => result[c].from = c
=============================================================================
