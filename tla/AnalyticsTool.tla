--------------------------- MODULE AnalyticsTool ---------------------------
(***************************************************************************)
(* cymbal_analytics_tool, the REST adapter to the Data Agent: the bounded  *)
(* retry loop around authentication, one POST with a timeout, and the      *)
(* rendering of the response.  The service is external: a request may be   *)
(* lost, and one whose client gave up is executed to its end all the same, *)
(* so a question may be under execution several times at once.             *)
(***************************************************************************)
EXTENDS DataAgentRender

CONSTANTS
    Calls,        \* the tool calls, each made once
    MaxRetries,   \* TOOL_MAX_RETRIES after get_max_retries() clamped it
    Response      \* the responses with status 200 that the service may give

ASSUME AnalyticsAssumption ==
    /\ MaxRetries \in Nat \ {0}
    /\ Response \subseteq Seq(ResponseStep)

VARIABLES
    pc,        \* where each call stands
    attempt,   \* the loop variable
    naps,      \* history: the delays it slept
    running,   \* the attempts whose request the service is executing
    got,       \* the response it was given, <<>> if none
    read,      \* how many of its steps the loop has gone through
    out,       \* what the loop has kept of them
    reply      \* what the call returned

rendering == <<got, read, out>>
vars == <<pc, attempt, naps, running, rendering, reply>>

PC == {"idle", "auth", "waiting", "rendering", "backoff", "done", "raised"}

Kind == {"none", "rendered", "empty", "unavailable", "raised"}

\* time.sleep(2**attempt)
Delay(a) == 2 ^ a

Delays == {Delay(a) : a \in 1 .. MaxRetries}

TypeOK ==
    /\ pc \in [Calls -> PC]
    /\ attempt \in [Calls -> 0 .. MaxRetries]
    /\ naps \in [Calls -> Seq(Delays)]
    /\ running \in [Calls -> SUBSET (1 .. MaxRetries)]
    /\ got \in [Calls -> Response \cup {<<>>}]
    /\ read \in [Calls -> Nat]
    /\ out \in [Calls -> Output]
    /\ reply \in [Calls -> Kind]

Init ==
    /\ pc = [c \in Calls |-> "idle"]
    /\ attempt = [c \in Calls |-> 0]
    /\ naps = [c \in Calls |-> <<>>]
    /\ running = [c \in Calls |-> {}]
    /\ got = [c \in Calls |-> <<>>]
    /\ read = [c \in Calls |-> 0]
    /\ out = [c \in Calls |-> Empty]
    /\ reply = [c \in Calls |-> "none"]

-----------------------------------------------------------------------------
\* Mutant of Fails: `if attempt < max_retries` is missing.
FailsUnguarded(c) ==
    /\ \/ /\ pc' = [pc EXCEPT ![c] = "backoff"]
          /\ naps' = [naps EXCEPT ![c] = Append(@, Delay(attempt[c]))]
          /\ UNCHANGED reply
       \/ /\ attempt[c] = MaxRetries
          /\ pc' = [pc EXCEPT ![c] = "done"]
          /\ reply' = [reply EXCEPT ![c] = "unavailable"]
          /\ UNCHANGED naps
    /\ UNCHANGED attempt

\* An attempt fails: sleep, or end the loop and return the notice.  The three
\* places that fail (retryable status, any other status but 200, permanent
\* refusals included, and the except block) do the same.
Fails(c) ==
    /\ \/ /\ attempt[c] < MaxRetries
          /\ pc' = [pc EXCEPT ![c] = "backoff"]
          /\ naps' = [naps EXCEPT ![c] = Append(@, Delay(attempt[c]))]
          /\ UNCHANGED reply
       \/ /\ attempt[c] = MaxRetries
          /\ pc' = [pc EXCEPT ![c] = "done"]
          /\ reply' = [reply EXCEPT ![c] = "unavailable"]
          /\ UNCHANGED naps
    /\ UNCHANGED attempt

\* The service has answered the request of the current attempt.
Answered(c) ==
    /\ pc[c] = "waiting"
    /\ attempt[c] \in running[c]
    /\ running' = [running EXCEPT ![c] = @ \ {attempt[c]}]

Invoke(c) ==
    /\ pc[c] = "idle"
    /\ pc' = [pc EXCEPT ![c] = "auth"]
    /\ attempt' = [attempt EXCEPT ![c] = 1]
    /\ UNCHANGED <<naps, running, rendering, reply>>

\* A missing project or data agent raises outside the try block.
PrologueRaises(c) ==
    /\ pc[c] = "idle"
    /\ pc' = [pc EXCEPT ![c] = "raised"]
    /\ reply' = [reply EXCEPT ![c] = "raised"]
    /\ UNCHANGED <<attempt, naps, running, rendering>>

AuthFails(c) ==
    /\ pc[c] = "auth"
    /\ Fails(c)
    /\ UNCHANGED <<running, rendering>>

\* requests.post: the request reaches the service or is lost on the way.
Post(c) ==
    /\ pc[c] = "auth"
    /\ pc' = [pc EXCEPT ![c] = "waiting"]
    /\ \/ running' = [running EXCEPT ![c] = @ \cup {attempt[c]}]
       \/ UNCHANGED running
    /\ UNCHANGED <<attempt, naps, rendering, reply>>

\* The timeout or a connection error: the service is not told to stop.
PostRaises(c) ==
    /\ pc[c] = "waiting"
    /\ Fails(c)
    /\ UNCHANGED <<running, rendering>>

\* Mutant of ReceiveFailure: the attempt is repeated without being counted.
ReceiveUncounted(c) ==
    /\ Answered(c)
    /\ pc' = [pc EXCEPT ![c] = "auth"]
    /\ UNCHANGED <<attempt, naps, rendering, reply>>

\* A status other than 200, or a body that is no JSON.
ReceiveFailure(c) ==
    /\ Answered(c)
    /\ Fails(c)
    /\ UNCHANGED rendering

\* Status 200: the rendering of the response begins.
Receive(c) ==
    /\ Answered(c)
    /\ \E r \in Response : got' = [got EXCEPT ![c] = r]
    /\ pc' = [pc EXCEPT ![c] = "rendering"]
    /\ UNCHANGED <<attempt, naps, read, out, reply>>

\* One round of the loop over the steps.
RenderStep(c) ==
    /\ pc[c] = "rendering"
    /\ read[c] < Len(got[c])
    /\ read' = [read EXCEPT ![c] = @ + 1]
    /\ out' = [out EXCEPT ![c] = Absorb(@, got[c][read[c] + 1])]
    /\ UNCHANGED <<pc, attempt, naps, running, got, reply>>

\* The next step, or the body as a whole, has not the shape the code expects:
\* the attempt fails in the except block, and its locals go with it.
RenderRaises(c) ==
    /\ pc[c] = "rendering"
    /\ Fails(c)
    /\ got' = [got EXCEPT ![c] = <<>>]
    /\ read' = [read EXCEPT ![c] = 0]
    /\ out' = [out EXCEPT ![c] = Empty]
    /\ UNCHANGED running

\* The loop is over: the sections, or the notice that there are none.
Return(c) ==
    /\ pc[c] = "rendering"
    /\ read[c] = Len(got[c])
    /\ pc' = [pc EXCEPT ![c] = "done"]
    /\ reply' = [reply EXCEPT ![c] = IF Blank(out[c]) THEN "empty" ELSE "rendered"]
    /\ UNCHANGED <<attempt, naps, running, rendering>>

\* Mutant of Wake: the next attempt has the number of the last one.
WakeUncounted(c) ==
    /\ pc[c] = "backoff"
    /\ pc' = [pc EXCEPT ![c] = "auth"]
    /\ UNCHANGED <<attempt, naps, running, rendering, reply>>

Wake(c) ==
    /\ pc[c] = "backoff"
    /\ pc' = [pc EXCEPT ![c] = "auth"]
    /\ attempt' = [attempt EXCEPT ![c] = @ + 1]
    /\ UNCHANGED <<naps, running, rendering, reply>>

\* External: the service ends an execution nobody waits for any more.
Discard(c) ==
    /\ \E a \in running[c] :
        /\ pc[c] = "waiting" => a # attempt[c]
        /\ running' = [running EXCEPT ![c] = @ \ {a}]
    /\ UNCHANGED <<pc, attempt, naps, rendering, reply>>

Step(c) ==
    \/ AuthFails(c) \/ Post(c) \/ PostRaises(c)
    \/ ReceiveFailure(c) \/ Receive(c) \/ Wake(c)
    \/ RenderStep(c) \/ RenderRaises(c) \/ Return(c)

Next == \E c \in Calls : Invoke(c) \/ PrologueRaises(c) \/ Step(c) \/ Discard(c)

Spec == Init /\ [][Next]_vars

\* Authentication ends, the timeout bounds the POST and time.sleep returns.
FairSpec == Spec /\ \A c \in Calls : WF_vars(Step(c))

-----------------------------------------------------------------------------
\* Where a call stands in the retry discipline.
PhaseOf(p, kind) ==
    CASE p = "idle" -> "idle"
      [] p \in {"auth", "waiting", "rendering"} -> "trying"
      [] p = "backoff" -> "sleeping"
      [] p = "raised" -> "raised"
      [] OTHER -> IF kind = "unavailable" THEN "exhausted" ELSE "answered"

LoopPhase == [c \in Calls |-> PhaseOf(pc[c], reply[c])]

Retry == INSTANCE BoundedRetry WITH phase <- LoopPhase

\* Authentication, the POST and the rendering together are one attempt of the
\* retry discipline, whichever of them fails and whatever the status is.
ImplementsRetry == Retry!Spec

\* What holds of one call.
CallInv(c) ==
    /\ pc[c] \in {"idle", "raised"} => attempt[c] = 0
    /\ pc[c] \in {"auth", "waiting", "rendering", "backoff"} => attempt[c] >= 1
    /\ pc[c] \notin {"done", "raised"} => reply[c] = "none"
    /\ pc[c] = "backoff" => attempt[c] < MaxRetries
    /\ running[c] \subseteq 1 .. attempt[c]
    /\ pc[c] \in {"auth", "rendering"} => attempt[c] \notin running[c]
    /\ read[c] <= Len(got[c])
    /\ pc[c] # "rendering" /\ reply[c] \notin {"rendered", "empty"} =>
          got[c] = <<>> /\ read[c] = 0 /\ out[c] = Empty
    /\ reply[c] \in {"rendered", "empty"} =>
          read[c] = Len(got[c]) /\ (reply[c] = "empty" <=> Blank(out[c]))

\* The inductive strengthening of the retry refinement, with the bound on the
\* service's work: a question is under execution at most once per attempt made
\* so far, for no attempt to come, and a call that has authenticated but not
\* yet posted has no execution of its own attempt.  What was read of a response
\* survives no failed attempt, and all of it was read when a call returns.
AnalyticsInv == TypeOK /\ \A c \in Calls : CallInv(c)

\* How many stages a call has left at most: authentication, the POST, the
\* rendering and the sleep of its attempt, and four for each attempt after it.
StagesLeft(c) ==
    LET later == 4 * (MaxRetries - attempt[c])
    IN  CASE pc[c] = "auth" -> later + 3
          [] pc[c] = "waiting" -> later + 2
          [] pc[c] = "rendering" -> later + 1
          [] pc[c] = "backoff" -> later
          [] OTHER -> 0

Unread(c) == Len(got[c]) - read[c]

\* The loop cannot go on without getting closer to its end, whatever the
\* service does and wherever an attempt fails: a call stays where it is, has
\* fewer stages left, or fewer steps to read of the response of this one
\* (analytics_tool.py:205 and :122).
EveryStepCounts ==
    [][\A c \in Calls : pc[c] \in {"auth", "waiting", "rendering", "backoff"} =>
          \/ UNCHANGED <<pc[c], attempt[c], read[c]>>
          \/ StagesLeft(c)' \in 0 .. StagesLeft(c) - 1
          \/ StagesLeft(c)' = StagesLeft(c) /\ Unread(c)' \in 0 .. Unread(c) - 1]_vars

\* Every call that is made returns or raises.
CallsReturn == \A c \in Calls : pc[c] = "auth" ~> pc[c] = "done"

-----------------------------------------------------------------------------
\* The steps a call has read; all of them once it has returned.
Steps(c) == {got[c][i] : i \in 1 .. read[c]}

\* The summary shows the prose of the response, all of it, and nothing of the
\* engine's thoughts or progress chatter, wherever in the stream they come.
OnlyProseShown ==
    \A c \in Calls :
        ToSet(out[c].text) = {s.part : s \in {t \in Steps(c) : ~t.thought}} \cap Prose

\* The SQL shown is that of the last data block that carries any, and only
\* without one the first SQL beside the data blocks; a null never wins over a
\* statement unless a data block carries it.
SqlShownIsLastOfData ==
    \A c \in Calls :
        LET data == {i \in 1 .. read[c] : got[c][i].dataSql # Absent}
            beside == {i \in 1 .. read[c] : got[c][i].payloadSql \notin {Absent, None}}
        IN  (\A i \in data : got[c][i].dataSql # None) =>
                out[c].sql =
                    IF data # {} THEN got[c][Max(data)].dataSql
                    ELSE IF beside # {} THEN got[c][Min(beside)].payloadSql
                    ELSE None

\* Where every result comes in one data block with its schema and its SQL, and no
\* data block comes without rows, the table shown has the headers and the rows of
\* the statement shown, however many statements there are and whatever SQL stands
\* beside the data blocks (what TableMatchesSql wants of any response).  Rows
\* without a schema, and a schema or SQL without rows, do mix: the earlier
\* headers, rows or SQL stay.
TableMatchesSqlOfData ==
    \A c \in Calls :
        /\ \A s \in Steps(c) :
              s.schema = s.rows /\ s.dataSql = IF s.rows = None THEN Absent ELSE s.rows
        /\ ShowsTable(out[c])
        => out[c].sql = out[c].rows /\ out[c].headers = out[c].rows

\* The notice that nothing was found hides neither SQL nor prose, nor a table
\* that came with its headers: if no step overwrites the SQL with an empty one
\* and no schema without fields erases the headers.
EmptyHidesNothing ==
    \A c \in Calls : reply[c] = "empty" =>
        /\ (\A s \in Steps(c) : {s.dataSql, s.payloadSql} \subseteq Statement \cup {Absent})
            => \A s \in Steps(c) : s.dataSql = Absent /\ s.payloadSql = Absent
        /\ \A s \in Steps(c) : ~s.thought => s.part \notin Prose
        /\ (\A s \in Steps(c) : s.schema # NoFields)
            => \A s \in Steps(c) : s.rows = None \/ s.schema = None

-----------------------------------------------------------------------------
\* What the documentation says of the tool and the code does not do.

\* analytics_tool.py:186-187: "the generated SQL, retrieved tabular data": the
\* table shown under an SQL statement is what that statement retrieved, at
\* least when every statement of the response came with its whole result.
TableMatchesSql ==
    \A c \in Calls :
        LET sqls == {s.dataSql : s \in Steps(c)} \cup {s.payloadSql : s \in Steps(c)}
        IN  /\ \A s \in Steps(c) : s.schema = s.rows
            /\ sqls \ {Absent} = {s.rows : s \in Steps(c)} \ {None}
            /\ reply[c] = "rendered" /\ ShowsTable(out[c])
            => out[c].sql = out[c].rows
=============================================================================
