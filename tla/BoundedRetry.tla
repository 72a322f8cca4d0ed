--------------------------- MODULE BoundedRetry ---------------------------
(***************************************************************************)
(* The retry discipline that both retrieval tools promise:                 *)
(*                                                                         *)
(*     prologue (configuration, client)      -- may raise to the caller    *)
(*     for attempt in range(1, max_retries + 1):                           *)
(*         try: ... return an answer                                       *)
(*         except Exception: sleep(2**attempt) unless this is the last     *)
(*     return the "temporarily unavailable" notice                         *)
(*                                                                         *)
(* One instance of the loop runs per tool call.  RagTool and AnalyticsTool *)
(* are each shown to implement this module.                                *)
(***************************************************************************)
EXTENDS Naturals, Sequences

CONSTANTS
    Calls,        \* the tool calls, each made once
    MaxRetries    \* TOOL_MAX_RETRIES after get_max_retries() clamped it

VARIABLES
    phase,     \* where each call is in the loop
    attempt,   \* the loop variable, 0 before the loop
    naps       \* the delays slept so far, in order

vars == <<phase, attempt, naps>>

Phase == {"idle", "trying", "sleeping", "answered", "exhausted", "raised"}

\* The exponential backoff after a failed attempt: time.sleep(2**attempt).
Delay(a) == 2 ^ a

Delays == {Delay(a) : a \in 1 .. MaxRetries}

TypeOK ==
    /\ phase \in [Calls -> Phase]
    /\ attempt \in [Calls -> 0 .. MaxRetries]
    /\ naps \in [Calls -> Seq(Delays)]

Init ==
    /\ phase = [c \in Calls |-> "idle"]
    /\ attempt = [c \in Calls |-> 0]
    /\ naps = [c \in Calls |-> <<>>]

-----------------------------------------------------------------------------
\* The prologue succeeds and the loop is entered.
Start(c) ==
    /\ phase[c] = "idle"
    /\ phase' = [phase EXCEPT ![c] = "trying"]
    /\ attempt' = [attempt EXCEPT ![c] = 1]
    /\ UNCHANGED naps

\* The prologue stands outside the try block: what it raises leaves the tool.
Abort(c) ==
    /\ phase[c] = "idle"
    /\ phase' = [phase EXCEPT ![c] = "raised"]
    /\ UNCHANGED <<attempt, naps>>

\* An attempt returns from inside the try block.
Succeed(c) ==
    /\ phase[c] = "trying"
    /\ phase' = [phase EXCEPT ![c] = "answered"]
    /\ UNCHANGED <<attempt, naps>>

\* An attempt fails with another one left: the call sleeps.
Fail(c) ==
    /\ phase[c] = "trying"
    /\ attempt[c] < MaxRetries
    /\ phase' = [phase EXCEPT ![c] = "sleeping"]
    /\ naps' = [naps EXCEPT ![c] = Append(@, Delay(attempt[c]))]
    /\ UNCHANGED attempt

\* The sleep ends and the loop takes its next iteration.
Wake(c) ==
    /\ phase[c] = "sleeping"
    /\ phase' = [phase EXCEPT ![c] = "trying"]
    /\ attempt' = [attempt EXCEPT ![c] = @ + 1]
    /\ UNCHANGED naps

\* The last attempt fails: no sleep, the loop ends, the notice is returned.
Exhaust(c) ==
    /\ phase[c] = "trying"
    /\ attempt[c] = MaxRetries
    /\ phase' = [phase EXCEPT ![c] = "exhausted"]
    /\ UNCHANGED <<attempt, naps>>

Next ==
    \E c \in Calls :
        \/ Start(c) \/ Abort(c)
        \/ Succeed(c) \/ Fail(c) \/ Wake(c) \/ Exhaust(c)

Spec == Init /\ [][Next]_vars

-----------------------------------------------------------------------------
\* How many delays a call has slept: one per attempt that failed before its
\* last one; the nap under way belongs to the attempt that has just failed.
NapsOf(p, a) ==
    CASE p = "idle" -> 0
      [] p = "raised" -> 0
      [] p = "sleeping" -> a
      [] OTHER -> a - 1

\* The whole delay history is a function of where the loop is: an attempt is
\* preceded by exactly the delays 2, 4, ..., 2^(attempt-1), one per earlier
\* failure, and giving up is never delayed by a sleep after the last attempt
\* (the `if attempt < max_retries` of both except blocks).
NapsMatchAttempts ==
    \A c \in Calls :
        naps[c] = [i \in 1 .. NapsOf(phase[c], attempt[c]) |-> Delay(i)]

\* The inductive strengthening: a call inside the loop has taken an attempt,
\* a sleeping one has another attempt to come.
RetryInv ==
    /\ TypeOK
    /\ \A c \in Calls :
        /\ phase[c] \notin {"idle", "raised"} => attempt[c] >= 1
        /\ phase[c] = "sleeping" => attempt[c] < MaxRetries
        /\ phase[c] = "exhausted" => attempt[c] = MaxRetries
    /\ NapsMatchAttempts
=============================================================================
