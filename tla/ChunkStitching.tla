--------------------------- MODULE ChunkStitching ---------------------------
(***************************************************************************)
(* The second half of both SQL texts: the matched row is joined with the   *)
(* rows of its document that are next to it, and their texts are put       *)
(* together in order.  A row of the table is a document, an index in it    *)
(* and a copy number: ingesting a manual again leaves two rows that differ *)
(* in nothing but that number.                                             *)
(***************************************************************************)
EXTENDS Integers, SequencesExt

\* Mutant of Near: the join forgets the document.
NearAnywhere(r, m) == r.index \in m.index - 1 .. m.index + 1

\* ON m.document_filename = c.document_filename AND c.chunk_index BETWEEN ...
Near(r, m) == r.doc = m.doc /\ r.index \in m.index - 1 .. m.index + 1

Copies(rows, m) == {r \in rows : r.doc = m.doc /\ r.index = m.index}

\* Mutant of Joined: GROUP BY without the match's index.
JoinedByDocument(matched, K, m) ==
    {x \in {h \in matched : h.doc = m.doc} \X K : Near(x[2], x[1])}

\* The rows STRING_AGG runs over in m's group: its matched copies share every
\* column of GROUP BY, and each of them brings all neighbours.
Joined(matched, K, m) == {x \in Copies(matched, m) \X K : Near(x[2], x[1])}

\* STRING_AGG(... ORDER BY c.chunk_index ASC): the order among copies is open.
Passages(matched, K, m) ==
    {[i \in DOMAIN p |-> p[i][2]] :
        p \in {s \in SetToSeqs(Joined(matched, K, m)) :
                 \A i, j \in DOMAIN s : i < j => s[i][2].index <= s[j][2].index}}

\* The vector job groups every row of the top_k; the full-text job has one
\* row left by its LIMIT 1 before the join.
VectorPassages(matched, K, m) == Passages(matched, K, m)
TextPassages(K, m) == Passages({m}, K, m)

Unique(K) == \A a, b \in K : a.doc = b.doc /\ a.index = b.index => a = b

-----------------------------------------------------------------------------
\* The stitched context (rag_tool.py:128-135): whatever else the search
\* matched, the passage is about one document, holds the match, and reads in
\* its order; in a table without copies it has each neighbour exactly once, in
\* the vector answer and in the full-text answer alike, and is determined.
StitchedInOrder(matched, K, m) ==
    /\ \A p \in VectorPassages(matched, K, m) \cup TextPassages(K, m) :
          /\ m \in ToSet(p)
          /\ \A i \in DOMAIN p : p[i].doc = m.doc /\ p[i].index \in m.index - 1 .. m.index + 1
          /\ \A i, j \in DOMAIN p : i < j => p[i].index <= p[j].index
    /\ Unique(K) =>
          /\ VectorPassages(matched, K, m) = TextPassages(K, m)
          /\ \A p \in TextPassages(K, m) : IsInjective(p)
          /\ Cardinality(TextPassages(K, m)) = 1
=============================================================================
