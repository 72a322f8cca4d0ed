------------------------------ MODULE RagTool ------------------------------
(***************************************************************************)
(* pos_troubleshooting_rag_tool: the bounded retry loop around the vector  *)
(* job, the certified gate and the full-text fallback.  An attempt is two  *)
(* separate BigQuery jobs, so the chunk table may be reloaded between them *)
(* and between attempts; either job may fail, and then the attempt is      *)
(* begun again from the vector job after a delay.                          *)
(***************************************************************************)
EXTENDS RagRetrieval, SequencesExt

CONSTANTS
    Calls,        \* the tool calls, each made once
    MaxRetries,   \* TOOL_MAX_RETRIES after get_max_retries() clamped it
    MaxReloads,   \* bound on the number of times the table is reloaded
    NoQuery       \* stands for no query

ASSUME ToolAssumption ==
    /\ MaxRetries \in Nat \ {0}
    /\ MaxReloads \in Nat
    /\ NoQuery \notin Query

VARIABLES
    corpus,    \* the chunk table's contents
    reloads,   \* how often it was reloaded (bounds the model)
    pc,        \* where each call stands
    query,     \* its argument
    attempt,   \* the loop variable
    naps,      \* history: the delays it slept
    seen,      \* history: the table's contents since the call began
    reply      \* what it returned

table == <<corpus, reloads>>
loop == <<attempt, naps>>
vars == <<corpus, reloads, pc, query, attempt, naps, seen, reply>>

PC == {"idle", "vector", "fulltext", "backoff", "done", "raised"}

Running(c) == pc[c] \in {"vector", "fulltext", "backoff"}

\* time.sleep(2**attempt)
Delay(a) == 2 ^ a

Delays == {Delay(a) : a \in 1 .. MaxRetries}

TypeOK ==
    /\ corpus \in Corpus
    /\ reloads \in 0 .. MaxReloads
    /\ pc \in [Calls -> PC]
    /\ query \in [Calls -> Query \cup {NoQuery}]
    /\ attempt \in [Calls -> 0 .. MaxRetries]
    /\ naps \in [Calls -> Seq(Delays)]
    /\ seen \in [Calls -> Seq(Corpus)]
    /\ reply \in [Calls -> Reply]

Init ==
    /\ corpus \in Corpus
    /\ reloads = 0
    /\ pc = [c \in Calls |-> "idle"]
    /\ query = [c \in Calls |-> NoQuery]
    /\ attempt = [c \in Calls |-> 0]
    /\ naps = [c \in Calls |-> <<>>]
    /\ seen = [c \in Calls |-> <<>>]
    /\ reply = [c \in Calls |-> Bare("none")]

-----------------------------------------------------------------------------
\* The call returns r.
Return(c, r) ==
    /\ pc' = [pc EXCEPT ![c] = "done"]
    /\ reply' = [reply EXCEPT ![c] = r]

\* The prologue: configuration, primary code, client and vector SQL.
Invoke(c) ==
    /\ pc[c] = "idle"
    /\ \E q \in Query : query' = [query EXCEPT ![c] = q]
    /\ pc' = [pc EXCEPT ![c] = "vector"]
    /\ attempt' = [attempt EXCEPT ![c] = 1]
    /\ seen' = [seen EXCEPT ![c] = <<corpus>>]
    /\ UNCHANGED <<table, naps, reply>>

\* A missing project, missing credentials or a rejected embedding endpoint
\* raises in the prologue, which no try block surrounds.
PrologueRaises(c) ==
    /\ pc[c] = "idle"
    /\ \E q \in Query : query' = [query EXCEPT ![c] = q]
    /\ pc' = [pc EXCEPT ![c] = "raised"]
    /\ reply' = [reply EXCEPT ![c] = Bare("raised")]
    /\ UNCHANGED <<table, loop, seen>>

\* The vector job's first row passes the gate.
VectorCertifies(c) ==
    /\ pc[c] = "vector"
    /\ \E k \in VectorRows(query[c], corpus) :
        /\ Certified(query[c], k)
        /\ Return(c, [kind |-> "runbook", row |-> k])
    /\ UNCHANGED <<table, query, loop, seen>>

\* It returned no row, or one below the gate: on to the full-text fallback.
VectorFallsBelow(c) ==
    /\ pc[c] = "vector"
    /\ MayFallBelow(query[c], corpus)
    /\ pc' = [pc EXCEPT ![c] = "fulltext"]
    /\ UNCHANGED <<table, query, loop, seen, reply>>

FullTextFinds(c) ==
    /\ pc[c] = "fulltext"
    /\ \E k \in TextRows(query[c], corpus) :
        Return(c, [kind |-> "fulltext", row |-> k])
    /\ UNCHANGED <<table, query, loop, seen>>

\* Mutant of Decline: a full-text job that fails counts as one without rows.
DeclineOnFailure(c) ==
    /\ pc[c] = "fulltext"
    /\ Return(c, Bare("decline"))
    /\ UNCHANGED <<table, query, loop, seen>>

Decline(c) ==
    /\ pc[c] = "fulltext"
    /\ TextRows(query[c], corpus) = {}
    /\ Return(c, Bare("decline"))
    /\ UNCHANGED <<table, query, loop, seen>>

\* Mutant of JobFails: a vector job that fails counts as one without rows.
JobFailsToFallback(c) ==
    /\ pc[c] = "vector"
    /\ pc' = [pc EXCEPT ![c] = "fulltext"]
    /\ UNCHANGED <<table, query, loop, seen, reply>>

\* Mutant of JobFails: `if attempt < max_retries` is missing.
JobFailsUnguarded(c) ==
    /\ pc[c] \in {"vector", "fulltext"}
    /\ \/ /\ pc' = [pc EXCEPT ![c] = "backoff"]
          /\ naps' = [naps EXCEPT ![c] = Append(@, Delay(attempt[c]))]
          /\ UNCHANGED reply
       \/ /\ attempt[c] = MaxRetries
          /\ Return(c, Bare("unavailable"))
          /\ UNCHANGED naps
    /\ UNCHANGED <<table, query, attempt, seen>>

\* Mutant of JobFails: the attempt is repeated without being counted.
JobFailsUncounted(c) ==
    /\ pc[c] \in {"vector", "fulltext"}
    /\ pc' = [pc EXCEPT ![c] = "vector"]
    /\ UNCHANGED <<table, query, loop, seen, reply>>

\* Either job raises inside the try block: sleep unless this was the last
\* attempt, after which the loop ends and the notice is returned.
JobFails(c) ==
    /\ pc[c] \in {"vector", "fulltext"}
    /\ \/ /\ attempt[c] < MaxRetries
          /\ pc' = [pc EXCEPT ![c] = "backoff"]
          /\ naps' = [naps EXCEPT ![c] = Append(@, Delay(attempt[c]))]
          /\ UNCHANGED reply
       \/ /\ attempt[c] = MaxRetries
          /\ Return(c, Bare("unavailable"))
          /\ UNCHANGED naps
    /\ UNCHANGED <<table, query, attempt, seen>>

\* Mutant of Wake: the next iteration resumes with the full-text job.
WakeAtFallback(c) ==
    /\ pc[c] = "backoff"
    /\ pc' = [pc EXCEPT ![c] = "fulltext"]
    /\ attempt' = [attempt EXCEPT ![c] = @ + 1]
    /\ UNCHANGED <<table, query, naps, seen, reply>>

\* The next iteration starts over with the vector job.
Wake(c) ==
    /\ pc[c] = "backoff"
    /\ pc' = [pc EXCEPT ![c] = "vector"]
    /\ attempt' = [attempt EXCEPT ![c] = @ + 1]
    /\ UNCHANGED <<table, query, naps, seen, reply>>

\* External: the ingestion pipeline replaces the chunk table.
Reload ==
    /\ reloads < MaxReloads
    /\ reloads' = reloads + 1
    /\ corpus' \in Corpus
    /\ seen' = [c \in Calls |->
                  IF Running(c) THEN Append(seen[c], corpus') ELSE seen[c]]
    /\ UNCHANGED <<pc, query, loop, reply>>

\* What the call does by itself once it is in the loop.
Step(c) ==
    \/ VectorCertifies(c) \/ VectorFallsBelow(c)
    \/ FullTextFinds(c) \/ Decline(c)
    \/ JobFails(c) \/ Wake(c)

Next == Reload \/ \E c \in Calls : Invoke(c) \/ PrologueRaises(c) \/ Step(c)

Spec == Init /\ [][Next]_vars

\* A BigQuery job ends, well or badly, and time.sleep returns.
FairSpec == Spec /\ \A c \in Calls : WF_vars(Step(c))

-----------------------------------------------------------------------------
\* The contract the call implements, over the same histories.
Contract == INSTANCE RagContract
                WITH NoReply <- Bare("none"), Refused <- Bare("raised")

\* Every reply is justified by table contents of the call's own lifetime: a
\* decline needs the gate to have failed on some contents and the full-text
\* search to have failed on those or later ones, and nothing that an earlier,
\* failed attempt saw may leak into the answer of a later one.
ImplementsContract == Contract!Spec

\* Where a call stands in the retry discipline.
PhaseOf(p, kind) ==
    CASE p = "idle" -> "idle"
      [] p \in {"vector", "fulltext"} -> "trying"
      [] p = "backoff" -> "sleeping"
      [] p = "raised" -> "raised"
      [] OTHER -> IF kind = "unavailable" THEN "exhausted" ELSE "answered"

LoopPhase == [c \in Calls |-> PhaseOf(pc[c], reply[c].kind)]

Retry == INSTANCE BoundedRetry WITH phase <- LoopPhase

\* The two-job attempt is one attempt of the retry discipline: a failure of
\* the full-text job spends the attempt of the vector job before it, the delay
\* doubles, and the notice is returned only when the budget is spent.
ImplementsRetry == Retry!Spec

\* A reply to a query with a fault code of the table is never a decline: if
\* each contents the table had while the call ran had a chunk that mentions
\* the primary code, the full-text fallback cannot have missed it, whatever
\* the similarity scores, the failures and the reloads in between were.
CoveredCodeNeverDeclined ==
    \A c \in Calls :
        /\ pc[c] = "done"
        /\ \A i \in DOMAIN seen[c] : TextRows(query[c], seen[c][i]) # {}
        => reply[c].kind # "decline"

\* A match that is certain is answered by the vector job: if each contents the
\* table had while the call ran had a chunk that passes the gate, boost
\* included, and cannot be cut off by top_k, the reply is a runbook or the
\* notice that the service is unavailable.  No row that ranks above that chunk
\* fails the gate, and no failure of a job sends the call to the fallback.
CertifiedMatchAnswered ==
    \A c \in Calls :
        /\ pc[c] = "done"
        /\ \A i \in DOMAIN seen[c] : \E e \in seen[c][i] :
              Certified(query[c], e) /\ ~CanBeCutOff(query[c], e, seen[c][i])
        => reply[c].kind \in {"runbook", "unavailable"}

\* The inductive strengthening of the properties, part by part.
\* A call that was not made has no argument and one that was has one.
AskedInv == \A c \in Calls : pc[c] = "idle" <=> query[c] = NoQuery

\* A call in the loop has not replied, its history ends with what the table
\* holds now, and one that sleeps has an attempt left.
LoopInv ==
    \A c \in Calls :
        /\ pc[c] = "idle" => reply[c] = Bare("none")
        /\ Running(c) =>
            /\ reply[c] = Bare("none")
            /\ attempt[c] >= 1
            /\ seen[c] # <<>>
            /\ Last(seen[c]) = corpus
        /\ pc[c] = "backoff" => attempt[c] < MaxRetries

\* A call in the fallback got there through the gate, in this very call.
GateInv ==
    \A c \in Calls : pc[c] = "fulltext" =>
        \E i \in DOMAIN seen[c] : MayFallBelow(query[c], seen[c][i])

\* What a call returned is justified, and a runbook is the vector job's row
\* from the last contents the call saw.
ReplyInv ==
    \A c \in Calls :
        /\ pc[c] = "raised" => reply[c] = Bare("raised")
        /\ pc[c] = "done" =>
            /\ reply[c].kind \in {"runbook", "fulltext", "decline", "unavailable"}
            /\ Justified(query[c], seen[c], reply[c])
            /\ seen[c] # <<>>
            /\ reply[c].kind = "runbook" =>
                    /\ reply[c].row \in VectorRows(query[c], Last(seen[c]))
                    /\ Certified(query[c], reply[c].row)

RInv == TypeOK /\ AskedInv /\ LoopInv /\ GateInv /\ ReplyInv

\* What the boost guarantees of the runbook chosen: a chunk of the table that
\* mentions the primary code is passed over only for a row that ranks at least
\* as high with its boost counted, or because top_k cut it off, there being
\* TopK other chunks at least as similar.
ExactChunkPassedOverOnlyByRank ==
    \A c \in Calls : reply[c].kind = "runbook" =>
        \A e \in Last(seen[c]) : Says(e, PrimaryCode(query[c])) =>
            \/ RanksAtLeast(query[c], reply[c].row, e)
            \/ CanBeCutOff(query[c], e, Last(seen[c]))

\* How many steps a running call has left at most: the jobs and the sleep of
\* the attempt it is in, and three for each attempt after that.
StepsLeft(c) ==
    LET later == 3 * (MaxRetries - attempt[c])
    IN  CASE pc[c] = "vector" -> later + 2
          [] pc[c] = "fulltext" -> later + 1
          [] pc[c] = "backoff" -> later
          [] OTHER -> 0

\* The loop cannot go on without getting closer to its end: whatever happens,
\* a running call stays where it is or has fewer steps left, so that it takes
\* at most 3 * MaxRetries - 1 of them (rag_tool.py:209: one for loop, from
\* which only the last attempt or a return leads out).
EveryStepCounts ==
    [][\A c \in Calls : Running(c) =>
          \/ UNCHANGED <<pc[c], attempt[c]>>
          \/ StepsLeft(c)' \in 0 .. StepsLeft(c) - 1]_vars

\* Every call that is made returns or raises.
CallsReturn == \A c \in Calls : Running(c) ~> pc[c] = "done"

-----------------------------------------------------------------------------
\* What the documentation says of the tool and the code does not do.

\* README.md:96 and rag_tool.py:5-7: a chunk with the very fault code of the
\* query receives the exact boost, so that no row without the code is chosen
\* over it that ranks lower than it does with that boost.  (Queries naming one fault code, and
\* tables of at most TopK chunks, so that every chunk competes.)
NamedCodeOutranks ==
    \A c \in Calls, t \in FaultCode :
        /\ reply[c].kind = "runbook" /\ t \notin Mentions[reply[c].row]
        /\ ToSet(Words[query[c]]) \cap FaultCode = {t}
        /\ Cardinality(Last(seen[c])) <= TopK
        => \A e \in Last(seen[c]) : t \in Mentions[e] =>
                Boosted(query[c], reply[c].row)
                    >= Min({Scale, Sim[query[c]][e] + ExactBoost})
=============================================================================
