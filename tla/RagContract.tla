---------------------------- MODULE RagContract ----------------------------
(***************************************************************************)
(* What one call of pos_troubleshooting_rag_tool promises its caller, said *)
(* without attempts, failures or the order of the two BigQuery jobs: the   *)
(* reply is justified by the contents the corpus had while the call ran.   *)
(* The corpus may be reloaded at any time.  The gate is read no later than *)
(* the full-text fallback, and the two may see different contents; with a  *)
(* corpus that is not reloaded during the call the reply is that of one    *)
(* atomic evaluation.                                                      *)
(***************************************************************************)
EXTENDS Sequences

CONSTANTS
    Calls,
    Query, NoQuery,          \* what a call may ask; what it asked before it is made
    Corpus,                  \* the contents the table may have
    Reply, NoReply, Refused, \* the replies; before one; of a call turned away
    Justified(_, _, _)       \* contents of history h account for reply r to query q

VARIABLES
    corpus,   \* the chunk table's contents
    query,    \* what each call asked, NoQuery before it is made
    seen,     \* the contents the table had since the call began, in order
    reply     \* what each call returned

vars == <<corpus, query, seen, reply>>

\* The call is running: it was made and has not returned.
Running(c) == query[c] # NoQuery /\ reply[c] = NoReply

Init ==
    /\ corpus \in Corpus
    /\ query = [c \in Calls |-> NoQuery]
    /\ seen = [c \in Calls |-> <<>>]
    /\ reply = [c \in Calls |-> NoReply]

\* A call begins, or is refused before it looks at the corpus.
Ask(c) ==
    /\ query[c] = NoQuery
    /\ \E q \in Query : query' = [query EXCEPT ![c] = q]
    /\ \/ /\ seen' = [seen EXCEPT ![c] = <<corpus>>]
          /\ UNCHANGED reply
       \/ /\ reply' = [reply EXCEPT ![c] = Refused]
          /\ UNCHANGED seen
    /\ UNCHANGED corpus

Answer(c) ==
    /\ Running(c)
    /\ \E r \in Reply :
        /\ reply' = [reply EXCEPT ![c] = r]
        /\ Justified(query[c], seen[c], r)
    /\ UNCHANGED <<corpus, query, seen>>

\* The ingestion pipeline replaces the table under the running calls.
Reload ==
    /\ corpus' \in Corpus
    /\ seen' = [c \in Calls |->
                  IF Running(c) THEN Append(seen[c], corpus') ELSE seen[c]]
    /\ UNCHANGED <<query, reply>>

Next == Reload \/ \E c \in Calls : Ask(c) \/ Answer(c)

Spec == Init /\ [][Next]_vars
=============================================================================
