--------------------------- MODULE RagRetrieval ---------------------------
(***************************************************************************)
(* What one RAG tool attempt computes: the fault code taken out of the     *)
(* query, the keyword boost, the rows the vector job may return, the       *)
(* certified similarity gate and the rows the full-text job may return.    *)
(* BigQuery itself is external: VECTOR_SEARCH is taken to return the true  *)
(* top-k (no vector index is created by this repository), and whenever it  *)
(* leaves an order open (ties, a LIMIT without ORDER BY) every choice is   *)
(* allowed.  Text is abstracted to the tokens it holds and to which token  *)
(* is a substring of which; scores are integers, Scale standing for 1.0.   *)
(***************************************************************************)
EXTENDS Integers, FiniteSetsExt, Sequences

CONSTANTS
    Token,         \* hyphen-joined upper-cased words of queries and chunks
    CodeShaped,    \* the tokens ERROR_CODE_PATTERN matches
    FaultCode,     \* the tokens that really are Cymbal fault codes
    Within,        \* <<t, u>>: the text of t is a substring of the text of u
    Prefix,        \* a token's first two parts if it has three, or NoCode
    NoCode,        \* the empty string of primary_code and error_prefix
    Query,         \* the queries the tool may be called with
    Words,         \* the tokens of each query, in order
    Chunk,         \* every chunk the table may hold
    NoChunk,       \* stands for no row
    Corpus,        \* the contents the table may have: sets of chunks
    Mentions,      \* the tokens of each chunk
    Quotes,        \* the chunks whose text matches a whole query's text
    Sim,           \* cosine similarity of a query and a chunk, as rounded
    Scale, ExactBoost, PartialBoost, Threshold, TopK

ASSUME RetrievalAssumption ==
    /\ CodeShaped \subseteq Token /\ FaultCode \subseteq Token
    /\ NoCode \notin Token
    /\ Within \subseteq Token \X Token
    /\ Prefix \in [Token -> Token \cup {NoCode}]
    /\ Words \in [Query -> Seq(Token)]
    /\ NoChunk \notin Chunk
    /\ \A K \in Corpus : K \subseteq Chunk /\ IsFiniteSet(K)
    /\ Mentions \in [Chunk -> SUBSET Token]
    /\ Quotes \in [Query -> SUBSET Chunk]
    /\ Sim \in [Query -> [Chunk -> Int]]
    /\ Scale \in Nat /\ ExactBoost \in Nat /\ PartialBoost \in Nat
    /\ Threshold \in Int /\ TopK \in Nat \ {0}

-----------------------------------------------------------------------------
\* _extract_error_codes and error_codes[0]: the first match of the pattern in
\* the upper-cased query, be it a fault code or any other hyphenated word.
CodePositions(q) == {i \in DOMAIN Words[q] : Words[q][i] \in CodeShaped}

PrimaryCode(q) ==
    IF CodePositions(q) = {} THEN NoCode ELSE Words[q][Min(CodePositions(q))]

\* The code family, empty unless the code has at least three parts.
ErrorPrefix(q) ==
    IF PrimaryCode(q) = NoCode THEN NoCode ELSE Prefix[PrimaryCode(q)]

\* UPPER(chunk_content) LIKE '%t%': containment, not equality of codes.
Says(k, t) == t # NoCode /\ \E m \in Mentions[k] : <<t, m>> \in Within

Boost(q, k) ==
    CASE Says(k, PrimaryCode(q)) -> ExactBoost
      [] ~Says(k, PrimaryCode(q)) /\ Says(k, ErrorPrefix(q)) -> PartialBoost
      [] OTHER -> 0

\* LEAST(1.0, similarity + boost)
Boosted(q, k) ==
    IF Sim[q][k] + Boost(q, k) > Scale THEN Scale ELSE Sim[q][k] + Boost(q, k)

\* VECTOR_SEARCH ranks by distance alone; the boost re-ranks what it returned.
TopKSets(q, K) ==
    {S \in SUBSET K :
        /\ Cardinality(S) = Min({TopK, Cardinality(K)})
        /\ \A in \in S, out \in K \ S : Sim[q][in] >= Sim[q][out]}

\* There are TopK other rows as similar: VECTOR_SEARCH need not return e.
CanBeCutOff(q, e, K) ==
    Cardinality({k \in K \ {e} : Sim[q][k] >= Sim[q][e]}) >= TopK

\* ORDER BY boosted_score DESC, similarity_score DESC
RanksAtLeast(q, k, j) ==
    \/ Boosted(q, k) > Boosted(q, j)
    \/ Boosted(q, k) = Boosted(q, j) /\ Sim[q][k] >= Sim[q][j]

\* Mutant of VectorRows: ORDER BY similarity_score alone.
VectorRowsUnboosted(q, K) ==
    {k \in K : \A j \in K : Sim[q][k] >= Sim[q][j]}

\* The rows the vector job's LIMIT 1 may leave; none if the corpus is empty.
VectorRows(q, K) ==
    {k \in K : \E S \in TopKSets(q, K) :
        k \in S /\ \A j \in S : RanksAtLeast(q, k, j)}

\* The certified similarity gate: top_score >= threshold.
Certified(q, k) == Boosted(q, k) >= Threshold

\* The vector job over K may leave nothing above the gate.
MayFallBelow(q, K) ==
    VectorRows(q, K) = {} \/ \E k \in VectorRows(q, K) : ~Certified(q, k)

\* SEARCH(...) OR LIKE over the whole table, keyed by primary_code or query.
TextRows(q, K) ==
    {k \in K : IF PrimaryCode(q) = NoCode THEN k \in Quotes[q]
                                          ELSE Says(k, PrimaryCode(q))}

-----------------------------------------------------------------------------
\* What a call returns: a runbook built from the vector row or from the
\* full-text row, the two fixed notices, or an exception; "none" before.
Kind == {"none", "runbook", "fulltext", "decline", "unavailable", "raised"}

Reply == [kind : Kind, row : Chunk \cup {NoChunk}]

Bare(kind) == [kind |-> kind, row |-> NoChunk]

\* The reply r to query q is one that table contents of history h account for:
\* a row has to be one its job could return, the fallback has to come after a
\* failure at the gate, and a decline needs both searches to have failed.
Justified(q, h, r) ==
    \/ /\ r.kind = "runbook"
       /\ \E i \in DOMAIN h : r.row \in VectorRows(q, h[i]) /\ Certified(q, r.row)
    \/ /\ r.kind = "fulltext"
       /\ \E i, j \in DOMAIN h :
            i <= j /\ MayFallBelow(q, h[i]) /\ r.row \in TextRows(q, h[j])
    \/ /\ r = Bare("decline")
       /\ \E i, j \in DOMAIN h :
            i <= j /\ MayFallBelow(q, h[i]) /\ TextRows(q, h[j]) = {}
    \/ r = Bare("unavailable")
=============================================================================
