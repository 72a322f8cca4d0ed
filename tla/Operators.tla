----------------------------- MODULE Operators -----------------------------
(***************************************************************************)
(* The two parts of the code without state of their own, as one machine    *)
(* that makes a choice and stops: a process is given an environment, from  *)
(* which it reads its settings, or a search has matched rows of a chunk    *)
(* table, whose passages are put together.                                 *)
(***************************************************************************)
EXTENDS Settings, ChunkStitching

CONSTANTS
    Families,   \* <<names, texts>>: variables varied together and what they may say
    Tables      \* the contents the chunk table may have

ASSUME OperatorsAssumption ==
    /\ \A f \in Families : f[1] \subseteq Variable /\ f[2] \subseteq Text
    /\ \A K \in Tables : IsFiniteSet(K) /\ \A r \in K : r.index \in Int

VARIABLES
    env,      \* what the process was given
    search    \* what the search matched, of which table

vars == <<env, search>>

Plain == [n \in Variable |-> Unset]

NoSearch == [matched |-> {}, table |-> {}]

Init == env = Plain /\ search = NoSearch

ReadEnvironment ==
    /\ env = Plain /\ search = NoSearch
    /\ \E f \in Families :
        \E given \in [f[1] -> {Unset, Empty, Spaces} \cup f[2]] :
            env' = [n \in Variable |-> IF n \in f[1] THEN given[n] ELSE Unset]
    /\ UNCHANGED search

Stitch ==
    /\ env = Plain /\ search = NoSearch
    /\ \E K \in Tables : \E S \in SUBSET K \ {{}} :
        search' = [matched |-> S, table |-> K]
    /\ UNCHANGED env

Next == ReadEnvironment \/ Stitch

Spec == Init /\ [][Next]_vars

-----------------------------------------------------------------------------
\* A card that names an engine names the one of a session store on an engine in
\* exactly the environments that CardLeadsToSessions says (a2a.py:96,
\* services.py:49-50).
CardAgrees == CardLeadsToSessions(env)

\* A blank variable is as good as none (config.py:33-38).
BlanksAgree == BlankIsUnset(env)

\* Every environment leaves the tools a usable budget and gate
\* (config.py:136-162).
BudgetAgrees == BudgetUsable(env)

\* Passages read in order, and once, around every match (rag_tool.py:128-135).
PassagesRead ==
    \A m \in search.matched : StitchedInOrder(search.matched, search.table, m)
=============================================================================
