--------------------------- MODULE RagToolProofs ---------------------------
(***************************************************************************)
(* The safety of the RAG tool, for any corpus, queries, retry budget and   *)
(* number of reloads: its invariant, what follows from it, and that it     *)
(* implements RagContract and BoundedRetry.                                *)
(***************************************************************************)
EXTENDS RagTool, FiniteSetTheorems, WellFoundedInduction, TLAPS

-----------------------------------------------------------------------------
\* The operators the tool is built from.

\* The two queries return rows of the table they look at.
LEMMA RowsOfTable ==
    ASSUME NEW q, NEW K \in Corpus
    PROVE  /\ VectorRows(q, K) \subseteq Chunk
           /\ TextRows(q, K) \subseteq Chunk
BY RetrievalAssumption DEF VectorRows, TextRows

\* The replies the tool builds are replies.
LEMMA ReplyType ==
    /\ \A kind \in Kind : Bare(kind) \in Reply
    /\ \A kind \in Kind, k \in Chunk : [kind |-> kind, row |-> k] \in Reply
BY DEF Bare, Reply

-----------------------------------------------------------------------------
\* Every variable keeps its type over every step.
LEMMA TypeStep == RInv /\ [Next]_vars => TypeOK'
<1> SUFFICES ASSUME TypeOK, LoopInv, [Next]_vars PROVE TypeOK'
  BY DEF RInv
<1> USE ToolAssumption DEF TypeOK, PC, table, loop
<1>0. \A kind \in {"runbook", "fulltext", "decline", "unavailable", "raised"} :
        kind \in Kind
  BY DEF Kind
<1>1. CASE Reload
  BY <1>1 DEF Reload
<1>2. ASSUME NEW c \in Calls, Invoke(c) PROVE TypeOK'
  BY <1>2 DEF Invoke
<1>3. ASSUME NEW c \in Calls, PrologueRaises(c) PROVE TypeOK'
  BY <1>0, <1>3, ReplyType DEF PrologueRaises
<1>4. ASSUME NEW c \in Calls, VectorCertifies(c) PROVE TypeOK'
  BY <1>0, <1>4, ReplyType, RowsOfTable DEF VectorCertifies, Return
<1>5. ASSUME NEW c \in Calls, VectorFallsBelow(c) PROVE TypeOK'
  BY <1>5 DEF VectorFallsBelow
<1>6. ASSUME NEW c \in Calls, FullTextFinds(c) PROVE TypeOK'
  BY <1>0, <1>6, ReplyType, RowsOfTable DEF FullTextFinds, Return
<1>7. ASSUME NEW c \in Calls, Decline(c) PROVE TypeOK'
  BY <1>0, <1>7, ReplyType DEF Decline, Return
<1>8. ASSUME NEW c \in Calls, JobFails(c) PROVE TypeOK'
  <2>1. CASE attempt[c] < MaxRetries
    <3>1. Delay(attempt[c]) \in Delays
      BY <1>8, <2>1 DEF JobFails, LoopInv, Running, Delays
    <3>2. /\ pc' = [pc EXCEPT ![c] = "backoff"]
          /\ naps' = [naps EXCEPT ![c] = Append(@, Delay(attempt[c]))]
          /\ UNCHANGED <<corpus, reloads, query, attempt, seen, reply>>
      BY <1>8, <2>1 DEF JobFails
    <3> QED BY <3>1, <3>2
  <2>2. CASE attempt[c] = MaxRetries
    <3>1. /\ pc' = [pc EXCEPT ![c] = "done"]
          /\ reply' = [reply EXCEPT ![c] = Bare("unavailable")]
          /\ UNCHANGED <<corpus, reloads, query, attempt, seen, naps>>
      BY <1>8, <2>2 DEF JobFails, Return
    <3> QED BY <1>0, <3>1, ReplyType
  <2> QED BY <1>8, <2>1, <2>2 DEF JobFails
<1>9. ASSUME NEW c \in Calls, Wake(c) PROVE TypeOK'
  BY <1>9 DEF Wake, LoopInv
<1>10. CASE UNCHANGED vars
  BY <1>10 DEF vars
<1> QED BY <1>1, <1>2, <1>3, <1>4, <1>5, <1>6, <1>7, <1>8, <1>9, <1>10
      DEF Next, Step

-----------------------------------------------------------------------------
\* A reload extends the history of the running calls with what it loads and
\* leaves the history of the others alone.
LEMMA ReloadHistory ==
    ASSUME TypeOK, Reload, NEW c \in Calls
    PROVE  /\ Running(c) =>
                /\ seen'[c] # <<>> /\ Last(seen'[c]) = corpus'
                /\ DOMAIN seen[c] \subseteq DOMAIN seen'[c]
                /\ \A i \in DOMAIN seen[c] : seen'[c][i] = seen[c][i]
           /\ ~Running(c) => seen'[c] = seen[c]
<1>1. seen[c] \in Seq(Corpus) /\ corpus' \in Corpus
  BY DEF TypeOK, Reload
<1>2. CASE Running(c)
  <2>1. seen'[c] = Append(seen[c], corpus')
    BY <1>2 DEF Reload
  <2> QED BY <1>1, <1>2, <2>1 DEF Last
<1>3. CASE ~Running(c)
  BY <1>3 DEF Reload
<1> QED BY <1>2, <1>3

LEMMA AskedStep == RInv /\ [Next]_vars => AskedInv'
<1> SUFFICES ASSUME TypeOK, AskedInv, [Next]_vars PROVE AskedInv'
  BY DEF RInv
<1> USE ToolAssumption DEF TypeOK, AskedInv, table, loop
<1>1. CASE Reload
  BY <1>1 DEF Reload
<1>2. ASSUME NEW c \in Calls, Invoke(c) \/ PrologueRaises(c) PROVE AskedInv'
  BY <1>2 DEF Invoke, PrologueRaises
<1>3. ASSUME NEW c \in Calls, Step(c) PROVE AskedInv'
  BY <1>3 DEF Step, VectorCertifies, VectorFallsBelow, FullTextFinds, Decline,
              JobFails, Wake, Return
<1>4. CASE UNCHANGED vars
  BY <1>4 DEF vars
<1> QED BY <1>1, <1>2, <1>3, <1>4 DEF Next

LEMMA LoopStep == RInv /\ [Next]_vars => LoopInv'
<1> SUFFICES ASSUME TypeOK, LoopInv, [Next]_vars PROVE LoopInv'
  BY DEF RInv
<1> USE ToolAssumption DEF TypeOK, LoopInv, Running, table, loop
<1>1. CASE Reload
  BY <1>1, ReloadHistory DEF Reload
<1>2. ASSUME NEW c \in Calls, Invoke(c) PROVE LoopInv'
  <2>1. Last(<<corpus>>) = corpus /\ <<corpus>> # <<>>
    BY DEF Last
  <2> QED BY <1>2, <2>1 DEF Invoke
<1>3. ASSUME NEW c \in Calls, PrologueRaises(c) PROVE LoopInv'
  BY <1>3 DEF PrologueRaises
<1>4. ASSUME NEW c \in Calls, VectorCertifies(c) PROVE LoopInv'
  BY <1>4 DEF VectorCertifies, Return
<1>5. ASSUME NEW c \in Calls, VectorFallsBelow(c) PROVE LoopInv'
  BY <1>5 DEF VectorFallsBelow
<1>6. ASSUME NEW c \in Calls, FullTextFinds(c) PROVE LoopInv'
  BY <1>6 DEF FullTextFinds, Return
<1>7. ASSUME NEW c \in Calls, Decline(c) PROVE LoopInv'
  BY <1>7 DEF Decline, Return
<1>8. ASSUME NEW c \in Calls, JobFails(c) PROVE LoopInv'
  BY <1>8 DEF JobFails, Return
<1>9. ASSUME NEW c \in Calls, Wake(c) PROVE LoopInv'
  BY <1>9 DEF Wake
<1>10. CASE UNCHANGED vars
  BY <1>10 DEF vars
<1> QED BY <1>1, <1>2, <1>3, <1>4, <1>5, <1>6, <1>7, <1>8, <1>9, <1>10
      DEF Next, Step

LEMMA GateStep == RInv /\ [Next]_vars => GateInv'
<1> SUFFICES ASSUME TypeOK, LoopInv, GateInv, [Next]_vars PROVE GateInv'
  BY DEF RInv
<1> USE DEF TypeOK, GateInv, table, loop
<1>1. CASE Reload
  <2> SUFFICES ASSUME NEW c \in Calls, pc[c] = "fulltext"
               PROVE  \E i \in DOMAIN seen'[c] : MayFallBelow(query[c], seen'[c][i])
    BY <1>1 DEF Reload
  <2>1. PICK i \in DOMAIN seen[c] : MayFallBelow(query[c], seen[c][i])
    OBVIOUS
  <2>2. i \in DOMAIN seen'[c] /\ seen'[c][i] = seen[c][i]
    BY <1>1, ReloadHistory DEF Running
  <2> QED BY <2>1, <2>2
<1>2. ASSUME NEW c \in Calls, Invoke(c) \/ PrologueRaises(c) PROVE GateInv'
  BY <1>2 DEF Invoke, PrologueRaises
<1>3. ASSUME NEW c \in Calls, VectorFallsBelow(c) PROVE GateInv'
  <2>1. /\ Len(seen[c]) \in DOMAIN seen[c]
        /\ MayFallBelow(query[c], seen[c][Len(seen[c])])
    BY <1>3 DEF VectorFallsBelow, LoopInv, Running, Last
  <2> QED BY <1>3, <2>1 DEF VectorFallsBelow
<1>4. ASSUME NEW c \in Calls,
             \/ VectorCertifies(c) \/ FullTextFinds(c) \/ Decline(c)
             \/ JobFails(c) \/ Wake(c)
      PROVE  GateInv'
  BY <1>4 DEF VectorCertifies, FullTextFinds, Decline, JobFails, Wake, Return
<1>5. CASE UNCHANGED vars
  BY <1>5 DEF vars
<1> QED BY <1>1, <1>2, <1>3, <1>4, <1>5 DEF Next, Step

\* A running call in the fallback may answer by what the table holds now.
LEMMA FallbackJustifies ==
    ASSUME RInv, NEW c \in Calls, pc[c] = "fulltext"
    PROVE  /\ \A k \in TextRows(query[c], corpus) :
                Justified(query[c], seen[c], [kind |-> "fulltext", row |-> k])
           /\ TextRows(query[c], corpus) = {} =>
                Justified(query[c], seen[c], Bare("decline"))
<1>1. PICK i \in DOMAIN seen[c] : MayFallBelow(query[c], seen[c][i])
  BY DEF RInv, GateInv
<1> DEFINE j == Len(seen[c])
<1>2. i <= j /\ j \in DOMAIN seen[c] /\ seen[c][j] = corpus
  BY <1>1 DEF RInv, TypeOK, LoopInv, Running, Last
<1>3. \A k \in TextRows(query[c], corpus) :
        Justified(query[c], seen[c], [kind |-> "fulltext", row |-> k])
  BY <1>1, <1>2 DEF Justified
<1>4. TextRows(query[c], corpus) = {} =>
        Justified(query[c], seen[c], Bare("decline"))
  BY <1>1, <1>2 DEF Justified
<1> QED BY <1>3, <1>4

\* The first row of the vector job is justified by what the table holds now.
LEMMA GateJustifies ==
    ASSUME RInv, NEW c \in Calls, pc[c] = "vector",
           NEW k \in VectorRows(query[c], corpus), Certified(query[c], k)
    PROVE  Justified(query[c], seen[c], [kind |-> "runbook", row |-> k])
<1>1. Len(seen[c]) \in DOMAIN seen[c] /\ seen[c][Len(seen[c])] = corpus
  BY DEF RInv, TypeOK, LoopInv, Running, Last
<1> QED BY <1>1 DEF Justified

LEMMA ReplyStep == RInv /\ [Next]_vars => ReplyInv'
<1> SUFFICES ASSUME RInv, [Next]_vars PROVE ReplyInv'
  OBVIOUS
<1>0. TypeOK /\ LoopInv /\ ReplyInv
  BY DEF RInv
<1> USE DEF table, loop
<1>1. CASE Reload
  <2>1. \A c \in Calls : pc[c] \in {"raised", "done"} => seen'[c] = seen[c]
    BY <1>0, <1>1, ReloadHistory DEF Running
  <2> QED BY <1>0, <1>1, <2>1 DEF Reload, ReplyInv
<1>2. ASSUME NEW c \in Calls, Invoke(c) \/ PrologueRaises(c) PROVE ReplyInv'
  BY <1>0, <1>2 DEF Invoke, PrologueRaises, ReplyInv, TypeOK
<1>3. ASSUME NEW c \in Calls, VectorCertifies(c) PROVE ReplyInv'
  <2>1. PICK k \in VectorRows(query[c], corpus) :
          Certified(query[c], k) /\ Return(c, [kind |-> "runbook", row |-> k])
    BY <1>3 DEF VectorCertifies
  <2>2. Justified(query[c], seen[c], [kind |-> "runbook", row |-> k])
    BY <1>3, <2>1, GateJustifies DEF VectorCertifies
  <2>3. seen[c] # <<>> /\ Last(seen[c]) = corpus
    BY <1>0, <1>3 DEF VectorCertifies, LoopInv, Running
  <2> QED BY <1>0, <1>3, <2>1, <2>2, <2>3
          DEF VectorCertifies, Return, ReplyInv, TypeOK
<1>4. ASSUME NEW c \in Calls, FullTextFinds(c) PROVE ReplyInv'
  <2>1. PICK k \in TextRows(query[c], corpus) :
          Return(c, [kind |-> "fulltext", row |-> k])
    BY <1>4 DEF FullTextFinds
  <2>2. Justified(query[c], seen[c], [kind |-> "fulltext", row |-> k])
    BY <1>4, <2>1, FallbackJustifies DEF FullTextFinds
  <2>3. seen[c] # <<>>
    BY <1>0, <1>4 DEF FullTextFinds, LoopInv, Running
  <2> QED BY <1>0, <1>4, <2>1, <2>2, <2>3
          DEF FullTextFinds, Return, ReplyInv, TypeOK
<1>5. ASSUME NEW c \in Calls, Decline(c) PROVE ReplyInv'
  <2>1. Justified(query[c], seen[c], Bare("decline"))
    BY <1>5, FallbackJustifies DEF Decline
  <2>2. seen[c] # <<>>
    BY <1>0, <1>5 DEF Decline, LoopInv, Running
  <2> QED BY <1>0, <1>5, <2>1, <2>2 DEF Decline, Return, ReplyInv, TypeOK, Bare
<1>6. ASSUME NEW c \in Calls, JobFails(c) PROVE ReplyInv'
  <2>1. Justified(query[c], seen[c], Bare("unavailable"))
    BY DEF Justified
  <2>2. seen[c] # <<>>
    BY <1>0, <1>6 DEF JobFails, LoopInv, Running
  <2>3. CASE attempt[c] < MaxRetries
    <3>1. /\ pc' = [pc EXCEPT ![c] = "backoff"]
          /\ UNCHANGED <<query, seen, reply>>
      BY <1>6, <2>3, ToolAssumption DEF JobFails
    <3> QED BY <1>0, <3>1 DEF ReplyInv, TypeOK
  <2>4. CASE ~(attempt[c] < MaxRetries)
    <3>1. /\ pc' = [pc EXCEPT ![c] = "done"]
          /\ reply' = [reply EXCEPT ![c] = Bare("unavailable")]
          /\ UNCHANGED <<query, seen>>
      BY <1>6, <2>4 DEF JobFails, Return
    <3>2. Bare("unavailable").kind = "unavailable"
      BY DEF Bare
    <3> QED BY <1>0, <2>1, <2>2, <3>1, <3>2 DEF ReplyInv, TypeOK
  <2> QED BY <2>3, <2>4
<1>7. ASSUME NEW c \in Calls, VectorFallsBelow(c) \/ Wake(c) PROVE ReplyInv'
  BY <1>0, <1>7 DEF VectorFallsBelow, Wake, ReplyInv, TypeOK
<1>8. CASE UNCHANGED vars
  BY <1>0, <1>8 DEF vars, ReplyInv
<1> QED BY <1>1, <1>2, <1>3, <1>4, <1>5, <1>6, <1>7, <1>8 DEF Next, Step

\* The tool's inductive invariant: its types, and for every call that what it
\* knows of the gate and what it replied is accounted for by the contents the
\* table had during this very call.
THEOREM RagSafety == Spec => []RInv
<1>1. Init => RInv
  <2> SUFFICES ASSUME Init PROVE RInv
    OBVIOUS
  <2>1. Bare("none") \in Reply
    BY ReplyType DEF Kind
  <2>2. TypeOK
    BY <2>1, ToolAssumption DEF Init, TypeOK, PC
  <2> QED BY <2>2 DEF Init, RInv, AskedInv, LoopInv, GateInv, ReplyInv, Running
<1>2. RInv /\ [Next]_vars => RInv'
  BY TypeStep, AskedStep, LoopStep, GateStep, ReplyStep DEF RInv
<1> QED BY <1>1, <1>2, PTL DEF Spec

-----------------------------------------------------------------------------
\* The smaller of two numbers.
LEMMA MinOfTwo ==
    ASSUME NEW a \in Int, NEW b \in Int
    PROVE  Min({a, b}) = IF a <= b THEN a ELSE b
BY DEF Min

\* How many rows top_k leaves of a table.
LEMMA TopSize ==
    ASSUME NEW K \in Corpus
    PROVE  /\ IsFiniteSet(K) /\ Cardinality(K) \in Nat /\ TopK \in Nat /\ TopK # 0
           /\ Min({TopK, Cardinality(K)})
                = IF TopK <= Cardinality(K) THEN TopK ELSE Cardinality(K)
<1>1. IsFiniteSet(K) /\ TopK \in Nat /\ TopK # 0
  BY RetrievalAssumption
<1>2. Cardinality(K) \in Nat
  BY <1>1, FS_CardinalityType
<1>3. TopK \in Int /\ Cardinality(K) \in Int
  BY <1>1, <1>2
<1> QED BY <1>1, <1>2, <1>3, MinOfTwo

\* A row of the table that top_k leaves out has TopK rows as similar.
LEMMA CutOff ==
    ASSUME NEW q \in Query, NEW K \in Corpus, NEW S \in TopKSets(q, K),
           NEW e \in K, e \notin S
    PROVE  CanBeCutOff(q, e, K)
<1> DEFINE T == {k \in K \ {e} : Sim[q][k] >= Sim[q][e]}
<1>1. IsFiniteSet(K) /\ Cardinality(K) \in Nat
  BY RetrievalAssumption, FS_CardinalityType
<1>2. /\ IsFiniteSet(K \ {e})
      /\ Cardinality(K \ {e}) = Cardinality(K) - 1
  BY <1>1, FS_RemoveElement
<1>3. S \subseteq K \ {e} /\ S \subseteq T
  BY DEF TopKSets
<1>4. Cardinality(S) <= Cardinality(K) - 1
  <2>1. S \in SUBSET (K \ {e})
    BY <1>3
  <2>2. Cardinality(S) <= Cardinality(K \ {e})
    BY <1>2, <2>1, FS_Subset
  <2> QED BY <1>2, <2>2
<1>5. Cardinality(S) = Min({TopK, Cardinality(K)})
  BY DEF TopKSets
<1>6. Cardinality(S) = TopK
  BY <1>1, <1>4, <1>5, TopSize
<1>7. IsFiniteSet(T)
  BY <1>2, FS_Subset
<1>8. Cardinality(S) <= Cardinality(T)
  BY <1>3, <1>7, FS_Subset
<1>9. Cardinality(T) \in Nat /\ TopK \in Nat
  BY <1>7, FS_CardinalityType, RetrievalAssumption
<1> QED BY <1>6, <1>8, <1>9 DEF CanBeCutOff

\* A set of numbers has a least one.
LEMMA LeastExists ==
    ASSUME NEW T \in SUBSET Nat, T # {}
    PROVE  \E m \in T : \A n \in T : m <= n
<1> DEFINE Less == OpToRel(<, Nat)
<1>1. IsWellFoundedOn(Less, Nat)
  BY NatLessThanWellFounded
<1>2. \A m, n \in Nat : <<n, m>> \in Less <=> n < m
  BY DEF OpToRel
<1> HIDE DEF Less
<1>3. PICK m \in T : \A n \in T : ~(<<n, m>> \in Less)
  BY <1>1, WFMin
<1>4. ASSUME NEW n \in T PROVE m <= n
  <2>1. m \in Nat /\ n \in Nat /\ ~(n < m)
    BY <1>2, <1>3
  <2> QED BY <2>1
<1> QED BY <1>4

\* A score has its maximum on a finite set: the element with the fewest above
\* it has none above it.
LEMMA MaximumExists ==
    ASSUME NEW T, IsFiniteSet(T), T # {}, NEW f \in [T -> Int]
    PROVE  \E x \in T : \A y \in T : f[x] >= f[y]
<1> DEFINE Above(x) == {y \in T : f[y] > f[x]}
           Counts == {Cardinality(Above(x)) : x \in T}
<1>1. \A x \in T : IsFiniteSet(Above(x)) /\ Cardinality(Above(x)) \in Nat
  BY FS_Subset, FS_CardinalityType
<1>2. PICK m \in Counts : \A n \in Counts : m <= n
  <2>1. Counts \in SUBSET Nat /\ Counts # {}
    BY <1>1
  <2> HIDE DEF Counts
  <2> QED BY <2>1, LeastExists
<1>3. PICK x \in T : m = Cardinality(Above(x))
  BY <1>2
<1>4. ASSUME NEW y \in T, f[y] > f[x] PROVE FALSE
  <2>1. Above(y) \subseteq Above(x) /\ y \in Above(x) /\ y \notin Above(y)
    BY <1>4
  <2>2. Cardinality(Above(y)) < Cardinality(Above(x))
    <3>1. IsFiniteSet(Above(x)) /\ Above(y) \in SUBSET Above(x) /\ Above(y) # Above(x)
      BY <1>1, <2>1
    <3> HIDE DEF Above
    <3> QED BY <3>1, <1>1, <1>3, FS_Subset
  <2>3. Cardinality(Above(x)) <= Cardinality(Above(y))
    BY <1>2, <1>3
  <2> QED BY <1>1, <2>2, <2>3
<1> QED BY <1>4

\* Of a finite table there are top-k sets of every size it has: a set that
\* lacks the next size is extended by the most similar of the other rows.
LEMMA TopSetOfSize ==
    ASSUME NEW q \in Query, NEW K \in Corpus, NEW n \in 0 .. Cardinality(K)
    PROVE  \E S \in SUBSET K :
              /\ Cardinality(S) = n
              /\ \A in \in S, out \in K \ S : Sim[q][in] >= Sim[q][out]
<1> DEFINE Top(m) == {S \in SUBSET K :
              /\ Cardinality(S) = m
              /\ \A in \in S, out \in K \ S : Sim[q][in] >= Sim[q][out]}
           Bad == {m \in 0 .. Cardinality(K) : Top(m) = {}}
<1>1. IsFiniteSet(K) /\ K \subseteq Chunk /\ Cardinality(K) \in Nat
  BY RetrievalAssumption, FS_CardinalityType
<1>2. SUFFICES Bad = {}
  <2>1. n \notin Bad => Top(n) # {}
    OBVIOUS
  <2> QED BY <2>1, <1>2
<1>3. SUFFICES ASSUME Bad # {} PROVE FALSE
  OBVIOUS
<1>4. PICK m \in Bad : \A j \in Bad : m <= j
  <2>1. Bad \in SUBSET Nat
    BY <1>1
  <2> HIDE DEF Bad
  <2> QED BY <1>3, <2>1, LeastExists
<1>5. m \in 0 .. Cardinality(K) /\ Top(m) = {}
  BY <1>4
<1>6. m # 0
  <2>1. {} \in Top(0)
    BY FS_EmptySet
  <2> QED BY <1>5, <2>1
<1>7. m - 1 \in 0 .. Cardinality(K) /\ m - 1 \notin Bad
  BY <1>1, <1>4, <1>5, <1>6
<1>8. PICK S \in Top(m - 1) : TRUE
  BY <1>7
<1>9. /\ S \in SUBSET K /\ Cardinality(S) = m - 1
      /\ \A in \in S, out \in K \ S : Sim[q][in] >= Sim[q][out]
  BY <1>8
<1>10. IsFiniteSet(S) /\ IsFiniteSet(K \ S) /\ K \ S # {}
  <2>1. S # K
    BY <1>1, <1>5, <1>9
  <2> QED BY <1>1, <1>9, <2>1, FS_Subset
<1>11. PICK x \in K \ S : \A y \in K \ S : Sim[q][x] >= Sim[q][y]
  <2> DEFINE f == [y \in K \ S |-> Sim[q][y]]
  <2>1. f \in [K \ S -> Int]
    BY <1>1, RetrievalAssumption
  <2>2. \E x \in K \ S : \A y \in K \ S : f[x] >= f[y]
    <3> HIDE DEF f
    <3> QED BY <1>10, <2>1, MaximumExists
  <2> QED BY <2>2
<1>12. Cardinality(S \cup {x}) = m
  <2>1. Cardinality(S \cup {x}) = Cardinality(S) + 1
    BY <1>10, <1>11, FS_AddElement
  <2> QED BY <1>1, <1>5, <1>9, <2>1
<1>13. \A in \in S \cup {x}, out \in K \ (S \cup {x}) : Sim[q][in] >= Sim[q][out]
  BY <1>9, <1>11
<1>14. S \cup {x} \in Top(m)
  BY <1>9, <1>11, <1>12, <1>13
<1> QED BY <1>5, <1>14

\* The boosted score is a number.
LEMMA BoostedType ==
    ASSUME NEW q \in Query, NEW k \in Chunk
    PROVE  Boosted(q, k) \in Int /\ Sim[q][k] \in Int
BY RetrievalAssumption DEF Boosted, Boost

\* The vector job over a table that is not empty returns a row.
LEMMA VectorRowExists ==
    ASSUME NEW q \in Query, NEW K \in Corpus, K # {}
    PROVE  VectorRows(q, K) # {}
<1>1. IsFiniteSet(K) /\ K \subseteq Chunk /\ Cardinality(K) \in Nat /\ Cardinality(K) # 0
  BY RetrievalAssumption, FS_CardinalityType, FS_EmptySet
<1>2. PICK S \in TopKSets(q, K) : TRUE
  <2>1. Min({TopK, Cardinality(K)}) \in 0 .. Cardinality(K)
    BY TopSize
  <2> QED BY <2>1, TopSetOfSize DEF TopKSets
<1>3. S \subseteq K /\ IsFiniteSet(S) /\ S # {}
  <2>1. S \subseteq K /\ Cardinality(S) = Min({TopK, Cardinality(K)})
    BY <1>2 DEF TopKSets
  <2>2. Cardinality(S) # 0
    BY <1>1, <2>1, TopSize
  <2> QED BY <1>1, <2>1, <2>2, FS_Subset, FS_EmptySet
<1>4. PICK b \in S : \A j \in S : Boosted(q, b) >= Boosted(q, j)
  <2> DEFINE f == [j \in S |-> Boosted(q, j)]
  <2>1. f \in [S -> Int]
    BY <1>1, <1>3, BoostedType
  <2>2. \E x \in S : \A y \in S : f[x] >= f[y]
    <3> HIDE DEF f
    <3> QED BY <1>3, <2>1, MaximumExists
  <2> QED BY <2>2
<1> DEFINE T == {j \in S : Boosted(q, j) = Boosted(q, b)}
<1>5. PICK k \in T : \A j \in T : Sim[q][k] >= Sim[q][j]
  <2> DEFINE f == [j \in T |-> Sim[q][j]]
  <2>1. f \in [T -> Int]
    BY <1>1, <1>3, BoostedType
  <2>2. IsFiniteSet(T) /\ T # {}
    BY <1>3, <1>4, FS_Subset
  <2>3. \E x \in T : \A y \in T : f[x] >= f[y]
    <3> HIDE DEF f, T
    <3> QED BY <2>1, <2>2, MaximumExists
  <2> QED BY <2>3
<1>6. \A j \in S : RanksAtLeast(q, k, j)
  <2> SUFFICES ASSUME NEW j \in S PROVE RanksAtLeast(q, k, j)
    OBVIOUS
  <2>1. Boosted(q, k) = Boosted(q, b) /\ Boosted(q, b) >= Boosted(q, j)
    BY <1>4, <1>5
  <2>2. Boosted(q, b) \in Int /\ Boosted(q, j) \in Int
    BY <1>1, <1>3, BoostedType
  <2>3. Boosted(q, j) = Boosted(q, b) => Sim[q][k] >= Sim[q][j]
    BY <1>5
  <2> QED BY <2>1, <2>2, <2>3 DEF RanksAtLeast
<1>7. k \in K /\ k \in S
  BY <1>3, <1>5
<1> QED BY <1>2, <1>6, <1>7 DEF VectorRows

\* Over a table with a chunk that passes the gate and cannot be cut off, every
\* row the vector job may return passes the gate.
LEMMA CertainMatch ==
    ASSUME NEW q \in Query, NEW K \in Corpus, NEW e \in K,
           Certified(q, e), ~CanBeCutOff(q, e, K)
    PROVE  ~MayFallBelow(q, K)
<1>1. VectorRows(q, K) # {}
  BY VectorRowExists
<1>2. ASSUME NEW k \in VectorRows(q, K) PROVE Certified(q, k)
  <2>1. PICK S \in TopKSets(q, K) : \A j \in S : RanksAtLeast(q, k, j)
    BY <1>2 DEF VectorRows
  <2>2. e \in S
    BY <2>1, CutOff
  <2>3. Boosted(q, k) >= Boosted(q, e)
    <3>1. k \in Chunk /\ e \in Chunk
      BY <1>2, RetrievalAssumption, RowsOfTable
    <3> QED BY <2>1, <2>2, <3>1, BoostedType DEF RanksAtLeast
  <2>4. k \in Chunk /\ e \in Chunk
    BY <1>2, RetrievalAssumption, RowsOfTable
  <2> QED BY <2>3, <2>4, BoostedType, RetrievalAssumption DEF Certified
<1> QED BY <1>1, <1>2 DEF MayFallBelow

\* A call that has a runbook is done.
LEMMA DoneIsRunbook ==
    ASSUME RInv, NEW c \in Calls, reply[c].kind = "runbook"
    PROVE  pc[c] = "done"
<1>1. Bare("none").kind = "none" /\ Bare("raised").kind = "raised"
  BY DEF Bare
<1> QED BY <1>1 DEF RInv, TypeOK, PC, LoopInv, ReplyInv, Running

\* A chunk with the code is passed over only by rank: for every corpus, scores
\* and TopK, the runbook's row ranks no lower than any chunk that mentions the
\* primary code, unless TopK others are as similar as that chunk.
THEOREM ExactChunkRank == Spec => []ExactChunkPassedOverOnlyByRank
<1>1. RInv => ExactChunkPassedOverOnlyByRank
  <2> SUFFICES ASSUME RInv, NEW c \in Calls, reply[c].kind = "runbook",
                      NEW e \in Last(seen[c]),
                      ~RanksAtLeast(query[c], reply[c].row, e)
               PROVE  CanBeCutOff(query[c], e, Last(seen[c]))
    BY DEF ExactChunkPassedOverOnlyByRank
  <2>1. pc[c] = "done"
    BY DoneIsRunbook
  <2>2. query[c] \in Query
    BY <2>1 DEF RInv, TypeOK, AskedInv
  <2>3. Last(seen[c]) \in Corpus /\ reply[c].row \in VectorRows(query[c], Last(seen[c]))
    BY <2>1 DEF RInv, TypeOK, ReplyInv, Last
  <2>4. PICK S \in TopKSets(query[c], Last(seen[c])) :
            \A j \in S : RanksAtLeast(query[c], reply[c].row, j)
    BY <2>3 DEF VectorRows
  <2>5. e \notin S
    BY <2>4
  <2> QED BY <2>2, <2>3, <2>4, <2>5, CutOff
<1> QED BY <1>1, RagSafety, PTL

\* A code that the table covers is never declined: for every retry budget and
\* any reloads, failures and similarity scores during the call.
THEOREM CoveredCode == Spec => []CoveredCodeNeverDeclined
<1>1. RInv => CoveredCodeNeverDeclined
  <2> SUFFICES ASSUME RInv, NEW c \in Calls, pc[c] = "done",
                      \A i \in DOMAIN seen[c] : TextRows(query[c], seen[c][i]) # {},
                      reply[c].kind = "decline"
               PROVE  FALSE
    BY DEF CoveredCodeNeverDeclined
  <2>1. Justified(query[c], seen[c], reply[c])
    BY DEF RInv, ReplyInv
  <2>2. Bare("unavailable").kind = "unavailable"
    BY DEF Bare
  <2>3. \E j \in DOMAIN seen[c] : TextRows(query[c], seen[c][j]) = {}
    BY <2>1, <2>2 DEF Justified
  <2> QED BY <2>3
<1> QED BY <1>1, RagSafety, PTL

\* The tool's own steps are steps of the contract: whatever the order of the
\* jobs, their failures and the reloads, a call returns nothing but what the
\* contents of the table during the call account for.
THEOREM RagImplementsContract == Spec => ImplementsContract
<1> USE DEF Contract!vars
<1>1. Init => Contract!Init
  BY DEF Init, Contract!Init
<1>2. RInv /\ RInv' /\ [Next]_vars => [Contract!Next]_(Contract!vars)
  <2> SUFFICES ASSUME RInv, RInv', [Next]_vars
               PROVE  Contract!Next \/ UNCHANGED Contract!vars
    OBVIOUS
  <2> USE DEF table, loop
  <2>0. \A c \in Calls : Contract!Running(c) <=> Running(c)
    <3>1. Bare("none").kind = "none" /\ Bare("raised").kind = "raised"
      BY DEF Bare
    <3> QED BY <3>1, ToolAssumption
            DEF RInv, TypeOK, PC, AskedInv, LoopInv, ReplyInv, Running, Contract!Running
  <2>1. CASE Reload
    BY <2>0, <2>1 DEF Reload, Contract!Reload, Contract!Next, RInv, TypeOK
  <2>2. ASSUME NEW c \in Calls, Invoke(c) PROVE Contract!Next
    <3>1. Contract!Ask(c)
      BY <2>2 DEF Invoke, Contract!Ask, RInv, AskedInv
    <3> QED BY <3>1 DEF Contract!Next
  <2>3. ASSUME NEW c \in Calls, PrologueRaises(c) PROVE Contract!Next
    <3>1. Contract!Ask(c)
      BY <2>3 DEF PrologueRaises, Contract!Ask, RInv, AskedInv
    <3> QED BY <3>1 DEF Contract!Next
  <2>4. ASSUME NEW c \in Calls, Running(c), pc'[c] = "done",
               NEW r, reply' = [reply EXCEPT ![c] = r],
               UNCHANGED <<corpus, query, seen>>
        PROVE  Contract!Next
    <3>1. reply'[c] = r /\ r \in Reply
      BY <2>4 DEF RInv, TypeOK
    <3>2. Justified(query[c], seen[c], r)
      BY <2>4, <3>1 DEF RInv, ReplyInv
    <3>3. Contract!Answer(c)
      BY <2>0, <2>4, <3>1, <3>2 DEF Contract!Answer
    <3> QED BY <3>3 DEF Contract!Next
  <2>5. ASSUME NEW c \in Calls, VectorCertifies(c) PROVE Contract!Next
    BY <2>4, <2>5 DEF VectorCertifies, Return, Running, RInv, TypeOK
  <2>6. ASSUME NEW c \in Calls, FullTextFinds(c) PROVE Contract!Next
    BY <2>4, <2>6 DEF FullTextFinds, Return, Running, RInv, TypeOK
  <2>7. ASSUME NEW c \in Calls, Decline(c) PROVE Contract!Next
    BY <2>4, <2>7 DEF Decline, Return, Running, RInv, TypeOK
  <2>8. ASSUME NEW c \in Calls, JobFails(c)
        PROVE  Contract!Next \/ UNCHANGED Contract!vars
    BY <2>4, <2>8 DEF JobFails, Return, Running, RInv, TypeOK
  <2>9. ASSUME NEW c \in Calls, VectorFallsBelow(c) \/ Wake(c)
        PROVE  UNCHANGED Contract!vars
    BY <2>9 DEF VectorFallsBelow, Wake
  <2>10. CASE UNCHANGED vars
    BY <2>10 DEF vars
  <2> QED BY <2>1, <2>2, <2>3, <2>5, <2>6, <2>7, <2>8, <2>9, <2>10 DEF Next, Step
<1> QED BY <1>1, <1>2, RagSafety, PTL DEF Spec, ImplementsContract, Contract!Spec

\* A match that is certain is answered from the vector job, for every table,
\* scores, boosts, gate, top_k and retry budget: a reply from the fallback would
\* have contents of the call's lifetime over which the gate could fail.
THEOREM CertainMatchAnswered == Spec => []CertifiedMatchAnswered
<1>1. RInv => CertifiedMatchAnswered
  <2> SUFFICES ASSUME RInv, NEW c \in Calls, pc[c] = "done",
                      \A i \in DOMAIN seen[c] : \E e \in seen[c][i] :
                         Certified(query[c], e) /\ ~CanBeCutOff(query[c], e, seen[c][i]),
                      reply[c].kind \notin {"runbook", "unavailable"}
               PROVE  FALSE
    BY DEF CertifiedMatchAnswered
  <2>1. query[c] \in Query
    BY DEF RInv, TypeOK, AskedInv
  <2>2. Justified(query[c], seen[c], reply[c])
    BY DEF RInv, ReplyInv
  <2>3. Bare("unavailable").kind = "unavailable"
    BY DEF Bare
  <2>4. PICK i \in DOMAIN seen[c] : MayFallBelow(query[c], seen[c][i])
    BY <2>2, <2>3 DEF Justified
  <2>5. seen[c][i] \in Corpus
    BY <2>4 DEF RInv, TypeOK
  <2> QED BY <2>1, <2>4, <2>5, CertainMatch
<1> QED BY <1>1, RagSafety, PTL

\* The boundary of what the documentation promises (README.md:96): where the
\* first word that looks like a code is the fault code that the query names, no
\* row without the code is chosen over a chunk that has it and ranks higher.
\* Every other case of NamedCodeOutranks comes down to PrimaryCode.
THEOREM FirstCodeOutranks ==
    ASSUME \A t \in FaultCode : <<t, t>> \in Within,
           \A q \in Query, t \in FaultCode :
              ToSet(Words[q]) \cap FaultCode = {t} => PrimaryCode(q) = t
    PROVE  Spec => []NamedCodeOutranks
<1>1. RInv /\ ExactChunkPassedOverOnlyByRank => NamedCodeOutranks
  <2> SUFFICES ASSUME RInv, ExactChunkPassedOverOnlyByRank,
                      NEW c \in Calls, NEW t \in FaultCode,
                      reply[c].kind = "runbook",
                      ToSet(Words[query[c]]) \cap FaultCode = {t},
                      Cardinality(Last(seen[c])) <= TopK,
                      NEW e \in Last(seen[c]), t \in Mentions[e]
               PROVE  Boosted(query[c], reply[c].row)
                        >= Min({Scale, Sim[query[c]][e] + ExactBoost})
    BY DEF NamedCodeOutranks
  <2> DEFINE q == query[c]
             K == Last(seen[c])
             k == reply[c].row
  <2>1. pc[c] = "done"
    BY DoneIsRunbook
  <2>2. q \in Query /\ K \in Corpus /\ k \in VectorRows(q, K)
    BY <2>1 DEF RInv, TypeOK, AskedInv, ReplyInv, Last
  <2>3. k \in Chunk /\ e \in Chunk
    BY <2>2, RowsOfTable, RetrievalAssumption
  <2>4. PrimaryCode(q) = t /\ Says(e, t)
    BY <2>2, RetrievalAssumption DEF Says
  <2>5. Boosted(q, e) = Min({Scale, Sim[q][e] + ExactBoost})
    <3>1. Boost(q, e) = ExactBoost
      BY <2>4 DEF Boost
    <3>2. Scale \in Int /\ Sim[q][e] + ExactBoost \in Int
      BY <2>2, <2>3, BoostedType, RetrievalAssumption
    <3> QED BY <3>1, <3>2, MinOfTwo DEF Boosted
  <2>6. ~CanBeCutOff(q, e, K)
    <3>1. IsFiniteSet(K) /\ Cardinality(K) \in Nat
      BY <2>2, RetrievalAssumption, FS_CardinalityType
    <3>2. IsFiniteSet(K \ {e}) /\ Cardinality(K \ {e}) = Cardinality(K) - 1
      BY <3>1, FS_RemoveElement
    <3> DEFINE T == {j \in K \ {e} : Sim[q][j] >= Sim[q][e]}
    <3>3. T \in SUBSET (K \ {e})
      OBVIOUS
    <3>4. Cardinality(T) <= Cardinality(K \ {e}) /\ Cardinality(T) \in Nat
      <4> HIDE DEF T
      <4> QED BY <3>2, <3>3, FS_Subset, FS_CardinalityType
    <3> QED BY <3>1, <3>2, <3>4, RetrievalAssumption DEF CanBeCutOff
  <2>7. RanksAtLeast(q, k, e)
    BY <2>4, <2>6 DEF ExactChunkPassedOverOnlyByRank
  <2> QED BY <2>2, <2>3, <2>5, <2>7, BoostedType DEF RanksAtLeast
<1> QED BY <1>1, RagSafety, ExactChunkRank, PTL

-----------------------------------------------------------------------------
\* Every step of a running call counts, for any budget: the step taken spends
\* what is left of the attempt, and a new attempt is worth three.
THEOREM StepsCount == Spec => EveryStepCounts
<1>1. RInv /\ [Next]_vars =>
        [\A c \in Calls : Running(c) =>
            \/ UNCHANGED <<pc[c], attempt[c]>>
            \/ StepsLeft(c)' \in 0 .. StepsLeft(c) - 1]_vars
  <2> SUFFICES ASSUME TypeOK, LoopInv, [Next]_vars, NEW c \in Calls, Running(c)
               PROVE  \/ pc'[c] = pc[c] /\ attempt'[c] = attempt[c]
                      \/ StepsLeft(c)' \in 0 .. StepsLeft(c) - 1
    BY DEF RInv
  <2> USE DEF table, loop
  <2>1. attempt[c] \in 0 .. MaxRetries /\ MaxRetries \in Nat
    BY ToolAssumption DEF TypeOK
  <2>2. CASE Reload \/ UNCHANGED vars
    BY <2>2 DEF Reload, vars
  <2>3. ASSUME NEW d \in Calls, d # c,
               Invoke(d) \/ PrologueRaises(d) \/ Step(d)
        PROVE  pc'[c] = pc[c] /\ attempt'[c] = attempt[c]
    BY <2>3 DEF TypeOK, Invoke, PrologueRaises, Step, VectorCertifies,
                VectorFallsBelow, FullTextFinds, Decline, JobFails, Wake, Return
  <2>4. ASSUME pc[c] \in {"vector", "fulltext"}, pc'[c] = "done"
        PROVE  StepsLeft(c)' \in 0 .. StepsLeft(c) - 1
    <3>1. StepsLeft(c)' = 0
      BY <2>4 DEF StepsLeft
    <3>2. StepsLeft(c) \in Nat \ {0}
      BY <2>1, <2>4 DEF StepsLeft
    <3> QED BY <3>1, <3>2
  <2>5. CASE VectorCertifies(c) \/ FullTextFinds(c) \/ Decline(c)
    BY <2>4, <2>5 DEF TypeOK, VectorCertifies, FullTextFinds, Decline, Return
  <2>6. CASE VectorFallsBelow(c)
    <3>1. pc[c] = "vector" /\ pc'[c] = "fulltext" /\ attempt'[c] = attempt[c]
      BY <2>6 DEF TypeOK, VectorFallsBelow
    <3> QED BY <2>1, <3>1 DEF StepsLeft
  <2>7. CASE JobFails(c)
    <3>1. /\ pc[c] \in {"vector", "fulltext"} /\ attempt'[c] = attempt[c]
          /\ pc'[c] \in {"backoff", "done"}
      BY <2>7 DEF TypeOK, JobFails, Return
    <3>2. StepsLeft(c)' = 3 * (MaxRetries - attempt[c]) \/ pc'[c] = "done"
      BY <3>1 DEF StepsLeft
    <3>3. StepsLeft(c) \in {3 * (MaxRetries - attempt[c]) + 2,
                             3 * (MaxRetries - attempt[c]) + 1}
      BY <3>1 DEF StepsLeft
    <3> QED BY <2>1, <2>4, <3>1, <3>2, <3>3
  <2>8. CASE Wake(c)
    <3>1. /\ pc[c] = "backoff" /\ attempt'[c] = attempt[c] + 1
          /\ pc'[c] = "vector" /\ attempt[c] < MaxRetries
      BY <2>8 DEF TypeOK, LoopInv, Running, Wake
    <3> QED BY <2>1, <3>1 DEF StepsLeft
  <2>9. CASE Invoke(c) \/ PrologueRaises(c)
    BY <2>9 DEF Invoke, PrologueRaises, Running
  <2> QED BY <2>2, <2>3, <2>5, <2>6, <2>7, <2>8, <2>9 DEF Next, Step
<1> QED BY <1>1, RagSafety, PTL DEF Spec, EveryStepCounts

-----------------------------------------------------------------------------
\* A step of one call changes the retry phase of that call only.
LEMMA PhaseStep ==
    ASSUME NEW c \in Calls,
           \A d \in Calls \ {c} : pc'[d] = pc[d] /\ reply'[d] = reply[d]
    PROVE  LoopPhase' = [LoopPhase EXCEPT ![c] = PhaseOf(pc'[c], reply'[c].kind)]
<1>1. LoopPhase' = [d \in Calls |-> PhaseOf(pc'[d], reply'[d].kind)]
  BY DEF LoopPhase
<1> QED BY <1>1 DEF LoopPhase

\* What a step returns in the retry discipline's terms.
LEMMA PhaseFacts ==
    /\ \A k : PhaseOf("idle", k) = "idle" /\ PhaseOf("raised", k) = "raised"
    /\ \A k : PhaseOf("vector", k) = "trying" /\ PhaseOf("fulltext", k) = "trying"
    /\ \A k : PhaseOf("backoff", k) = "sleeping"
    /\ \A k : k # "unavailable" => PhaseOf("done", k) = "answered"
    /\ PhaseOf("done", "unavailable") = "exhausted"
BY DEF PhaseOf

\* Retry discipline: one vector job with its full-text fallback is one attempt
\* of BoundedRetry, for every budget.
THEOREM RagImplementsRetry == Spec => ImplementsRetry
<1> USE DEF Retry!vars
<1>1. Init => Retry!Init
  BY PhaseFacts DEF Init, Retry!Init, LoopPhase
<1>2. RInv /\ [Next]_vars => [Retry!Next]_(Retry!vars)
  <2> SUFFICES ASSUME TypeOK, [Next]_vars
               PROVE  Retry!Next \/ UNCHANGED Retry!vars
    BY DEF RInv
  <2> USE DEF table, loop
  <2>1. /\ pc \in [Calls -> PC] /\ reply \in [Calls -> Reply]
        /\ \A c \in Calls : LoopPhase[c] = PhaseOf(pc[c], reply[c].kind)
    BY DEF TypeOK, LoopPhase
  <2>2. \A kind, k : Bare(kind).kind = kind /\ [kind |-> kind, row |-> k].kind = kind
    BY DEF Bare
  <2>3. ASSUME NEW c \in Calls, Invoke(c) PROVE Retry!Start(c)
    <3>1. /\ pc'[c] = "vector"
          /\ \A d \in Calls \ {c} : pc'[d] = pc[d] /\ reply'[d] = reply[d]
      BY <2>1, <2>3 DEF Invoke
    <3>2. LoopPhase' = [LoopPhase EXCEPT ![c] = "trying"]
      BY <3>1, PhaseStep, PhaseFacts
    <3> QED BY <2>1, <2>3, <3>2, PhaseFacts DEF Invoke, Retry!Start
  <2>4. ASSUME NEW c \in Calls, PrologueRaises(c) PROVE Retry!Abort(c)
    <3>1. /\ pc'[c] = "raised"
          /\ \A d \in Calls \ {c} : pc'[d] = pc[d] /\ reply'[d] = reply[d]
      BY <2>1, <2>4 DEF PrologueRaises
    <3>2. LoopPhase' = [LoopPhase EXCEPT ![c] = "raised"]
      BY <3>1, PhaseStep, PhaseFacts
    <3> QED BY <2>1, <2>4, <3>2, PhaseFacts DEF PrologueRaises, Retry!Abort
  <2>5. ASSUME NEW c \in Calls, NEW r, Return(c, r)
        PROVE  LoopPhase' = [LoopPhase EXCEPT ![c] =
                    IF r.kind = "unavailable" THEN "exhausted" ELSE "answered"]
    <3>1. /\ pc'[c] = "done" /\ reply'[c] = r
          /\ \A d \in Calls \ {c} : pc'[d] = pc[d] /\ reply'[d] = reply[d]
      BY <2>1, <2>5 DEF Return
    <3> QED BY <3>1, PhaseStep, PhaseFacts
  <2>6. ASSUME NEW c \in Calls, VectorCertifies(c) PROVE Retry!Succeed(c)
    <3>1. LoopPhase' = [LoopPhase EXCEPT ![c] = "answered"]
      BY <2>2, <2>5, <2>6 DEF VectorCertifies
    <3> QED BY <2>1, <2>6, <3>1, PhaseFacts DEF VectorCertifies, Retry!Succeed
  <2>7. ASSUME NEW c \in Calls, FullTextFinds(c) PROVE Retry!Succeed(c)
    <3>1. LoopPhase' = [LoopPhase EXCEPT ![c] = "answered"]
      BY <2>2, <2>5, <2>7 DEF FullTextFinds
    <3> QED BY <2>1, <2>7, <3>1, PhaseFacts DEF FullTextFinds, Retry!Succeed
  <2>8. ASSUME NEW c \in Calls, Decline(c) PROVE Retry!Succeed(c)
    <3>1. LoopPhase' = [LoopPhase EXCEPT ![c] = "answered"]
      BY <2>2, <2>5, <2>8 DEF Decline
    <3> QED BY <2>1, <2>8, <3>1, PhaseFacts DEF Decline, Retry!Succeed
  <2>9. ASSUME NEW c \in Calls, JobFails(c) PROVE Retry!Fail(c) \/ Retry!Exhaust(c)
    <3>1. LoopPhase[c] = "trying"
      BY <2>1, <2>9, PhaseFacts DEF JobFails
    <3>2. CASE /\ attempt[c] < MaxRetries
               /\ pc' = [pc EXCEPT ![c] = "backoff"]
               /\ naps' = [naps EXCEPT ![c] = Append(@, Delay(attempt[c]))]
               /\ UNCHANGED reply
      <4>1. /\ pc'[c] = "backoff"
            /\ \A d \in Calls \ {c} : pc'[d] = pc[d] /\ reply'[d] = reply[d]
        BY <2>1, <3>2
      <4>2. LoopPhase' = [LoopPhase EXCEPT ![c] = "sleeping"]
        BY <4>1, PhaseStep, PhaseFacts
      <4>3. Retry!Delay(attempt[c]) = Delay(attempt[c])
        BY DEF Retry!Delay, Delay
      <4> QED BY <2>9, <3>1, <3>2, <4>2, <4>3 DEF JobFails, Retry!Fail
    <3>3. CASE /\ attempt[c] = MaxRetries
               /\ Return(c, Bare("unavailable"))
               /\ UNCHANGED naps
      <4>1. LoopPhase' = [LoopPhase EXCEPT ![c] = "exhausted"]
        BY <2>2, <2>5, <3>3
      <4> QED BY <2>9, <3>1, <3>3, <4>1 DEF JobFails, Retry!Exhaust
    <3> QED BY <2>9, <3>2, <3>3 DEF JobFails
  <2>10. ASSUME NEW c \in Calls, Wake(c) PROVE Retry!Wake(c)
    <3>1. /\ pc'[c] = "vector"
          /\ \A d \in Calls \ {c} : pc'[d] = pc[d] /\ reply'[d] = reply[d]
      BY <2>1, <2>10 DEF Wake
    <3>2. LoopPhase' = [LoopPhase EXCEPT ![c] = "trying"]
      BY <3>1, PhaseStep, PhaseFacts
    <3> QED BY <2>1, <2>10, <3>2, PhaseFacts DEF Wake, Retry!Wake
  <2>11. ASSUME NEW c \in Calls, VectorFallsBelow(c) PROVE UNCHANGED Retry!vars
    <3>1. \A d \in Calls : PhaseOf(pc'[d], reply'[d].kind) = PhaseOf(pc[d], reply[d].kind)
      BY <2>1, <2>11, PhaseFacts DEF VectorFallsBelow
    <3> QED BY <2>11, <3>1 DEF VectorFallsBelow, LoopPhase
  <2>12. CASE Reload
    BY <2>12 DEF Reload, LoopPhase
  <2>13. CASE UNCHANGED vars
    BY <2>13 DEF vars, LoopPhase
  <2> QED BY <2>3, <2>4, <2>6, <2>7, <2>8, <2>9, <2>10, <2>11, <2>12, <2>13
          DEF Next, Step, Retry!Next
<1> QED BY <1>1, <1>2, RagSafety, PTL DEF Spec, ImplementsRetry, Retry!Spec

\* What is proved of the loop on its own (BoundedRetryProofs), for the loop of
\* this tool.
Loop == INSTANCE BoundedRetryProofs WITH phase <- LoopPhase

\* The delays of a call are 2, 4, 8, ..., one per failed attempt that another
\* one follows, and a call that gives up has spent its budget and slept nothing
\* after it (rag_tool.py:285-288, the notice after it).
THEOREM RagBackoff == Spec => []Retry!RetryInv
<1>1. Retry!Spec => []Loop!RetryInv
  <2>1. MaxRetries \in Nat \ {0}
    BY ToolAssumption
  <2>2. Retry!Init <=> Loop!Init
    BY DEF Retry!Init, Loop!Init
  <2>3. [Retry!Next]_(Retry!vars) <=> [Loop!Next]_(Loop!vars)
    BY DEF Retry!Next, Loop!Next, Retry!vars, Loop!vars,
           Retry!Start, Loop!Start, Retry!Abort, Loop!Abort,
           Retry!Succeed, Loop!Succeed, Retry!Fail, Loop!Fail, Retry!Wake, Loop!Wake,
           Retry!Exhaust, Loop!Exhaust, Retry!Delay, Loop!Delay
  <2>4. Loop!Spec => []Loop!RetryInv
    BY <2>1, Loop!RetrySafety
  <2> QED BY <2>2, <2>3, <2>4, PTL DEF Retry!Spec, Loop!Spec
<1>2. Loop!RetryInv <=> Retry!RetryInv
  BY DEF Loop!RetryInv, Retry!RetryInv, Loop!TypeOK, Retry!TypeOK,
         Loop!NapsMatchAttempts, Retry!NapsMatchAttempts, Loop!NapsOf, Retry!NapsOf,
         Loop!Phase, Retry!Phase, Loop!Delays, Retry!Delays, Loop!Delay, Retry!Delay
<1> QED BY <1>1, <1>2, RagImplementsRetry, PTL DEF ImplementsRetry
=============================================================================
