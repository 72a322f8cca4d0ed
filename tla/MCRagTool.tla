----------------------------- MODULE MCRagTool -----------------------------
(***************************************************************************)
(* Small instances of RagTool.  Scores are twentieths: the gate 0.70 is 14, *)
(* the boosts 0.15 and 0.05 are 3 and 1.  The similarities are chosen at   *)
(* the boundaries: 11 passes the gate with the exact boost only and exactly *)
(* (11 + 3), 13 with either boost (13 + 1), 19 always and the exact boost  *)
(* saturates it at 20, where the similarity breaks the tie.                *)
(***************************************************************************)
EXTENDS RagTool

MCToken == {"ERR-PAY-4001", "ERR-PAY-4002", "ERR-PAY", "TOUCH-SCREEN", "FREEZE"}
MCFaultCode == {"ERR-PAY-4001", "ERR-PAY-4002"}
MCCodeShaped == MCToken \ {"FREEZE"}
MCWithin ==
    {<<t, t>> : t \in MCToken} \cup {<<"ERR-PAY", t>> : t \in MCFaultCode}
MCPrefix ==
    [t \in MCToken |-> IF t \in MCFaultCode THEN "ERR-PAY" ELSE NoCode]

MCQuery == {"code", "plain", "hyphen", "mixed"}
MCWords ==
    [q \in MCQuery |->
        CASE q = "code" -> <<"FREEZE", "ERR-PAY-4001", "ERR-PAY-4002">>
          [] q = "plain" -> <<"FREEZE">>
          [] q = "hyphen" -> <<"TOUCH-SCREEN", "FREEZE">>
          [] q = "mixed" -> <<"TOUCH-SCREEN", "ERR-PAY-4001">>]

\* A chunk is its similarity to the query, the codes it mentions and whether
\* it quotes the plain query's text.
ChunksOf(sims) ==
    [sim : sims, says : {{}} \cup {{t} : t \in MCToken \ {"ERR-PAY", "FREEZE"}},
     quotes : {FALSE}]
    \cup [sim : sims, says : {{}}, quotes : {TRUE}]

MCSimOf(chunks) == [q \in MCQuery |-> [k \in chunks |-> k.sim]]
MCMentionsOf(chunks) == [k \in chunks |-> k.says]
MCQuotesOf(chunks) ==
    [q \in MCQuery |-> {k \in chunks : q = "plain" /\ k.quotes}]

\* Ranking: every chunk kind, contents of up to three chunks.
RankChunk == ChunksOf({11, 13, 19})
RankSim == MCSimOf(RankChunk)
RankMentions == MCMentionsOf(RankChunk)
RankQuotes == MCQuotesOf(RankChunk)
RankCorpus == {{}} \cup {{a, b, c} : a, b, c \in RankChunk}

\* Reloading: contents of at most one chunk, which passes the gate or not and
\* is found by the full-text search or not, in every combination.
LoadChunk == ChunksOf({11}) \cup {[sim |-> 14, says |-> {}, quotes |-> FALSE]}
LoadSim == MCSimOf(LoadChunk)
LoadMentions == MCMentionsOf(LoadChunk)
LoadQuotes == MCQuotesOf(LoadChunk)
LoadCorpus == {{}} \cup {{k} : k \in LoadChunk}
=============================================================================
