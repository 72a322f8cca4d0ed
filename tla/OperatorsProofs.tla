-------------------------- MODULE OperatorsProofs --------------------------
(***************************************************************************)
(* Proofs about Settings and ChunkStitching: TLC compares a few texts and  *)
(* tables of three rows, these facts hold for every environment and every  *)
(* finite table.                                                           *)
(***************************************************************************)
EXTENDS Operators, FiniteSetTheorems, TLAPS

-----------------------------------------------------------------------------
\* Settings.

\* The environment with its blank variables left out.
Cleared(e) == [n \in Variable |-> IF e[n] \in {Empty, Spaces} THEN Unset ELSE e[n]]

\* _first_env finds the same value where blanks are left out: it passes them
\* by, and what it stops at is not blank.  (No getter names more than three.)
LEMMA FirstEnvCleared ==
    ASSUME NEW e \in Environment, NEW names \in Seq(Variable), Len(names) \in 1 .. 3
    PROVE  FirstEnv(Cleared(e), names) = FirstEnv(e, names)
<1> DEFINE Here(f, j) == Stated(f[names[j]]) /\ \A k \in 1 .. j - 1 : ~Stated(f[names[k]])
<1>1. \A i \in DOMAIN names : /\ Stated(e[names[i]]) <=> Stated(Cleared(e)[names[i]])
                              /\ Stated(e[names[i]]) => e[names[i]] = Cleared(e)[names[i]]
  BY DEF Stated, Cleared
<1>2. DOMAIN names = 1 .. Len(names)
  OBVIOUS
<1>3. CASE \A i \in DOMAIN names : ~Stated(e[names[i]])
  BY <1>1, <1>3 DEF FirstEnv
<1>4. CASE \E i \in DOMAIN names : Stated(e[names[i]])
  <2>1. PICK i \in DOMAIN names : Here(e, i)
    <3>1. DOMAIN names \subseteq {1, 2, 3}
      BY <1>2
    <3>2. CASE Stated(e[names[1]])
      BY <1>2, <3>2
    <3>3. CASE ~Stated(e[names[1]]) /\ 2 \in DOMAIN names /\ Stated(e[names[2]])
      BY <1>2, <3>3
    <3>4. CASE ~Stated(e[names[1]]) /\ ~(2 \in DOMAIN names /\ Stated(e[names[2]]))
      BY <1>2, <1>4, <3>1, <3>4
    <3> QED
      BY <3>2, <3>3, <3>4
  <2>2. \A j \in DOMAIN names : (Here(e, j) => j = i) /\ (Here(Cleared(e), j) => j = i)
    BY <1>1, <1>2, <2>1
  <2>3. Here(Cleared(e), i)
    BY <1>1, <1>2, <2>1
  <2> HIDE DEF Here
  <2>4. (CHOOSE j \in DOMAIN names : Here(e, j)) = i
    BY <2>1, <2>2
  <2>5. (CHOOSE j \in DOMAIN names : Here(Cleared(e), j)) = i
    BY <2>2, <2>3
  <2>6. FirstEnv(e, names) = e[names[i]]
    BY <1>4, <2>4 DEF FirstEnv, Here
  <2>7. FirstEnv(Cleared(e), names) = Cleared(e)[names[i]]
    BY <1>1, <1>4, <2>5 DEF FirstEnv, Here
  <2> QED
    BY <1>1, <2>1, <2>6, <2>7 DEF Here
<1> QED
  BY <1>3, <1>4

\* The lists of names that config.py reads.
LEMMA NameLists ==
    /\ \A t \in {Setting, StoreSetting, TelemetrySetting} : \A s \in DOMAIN t :
          t[s][1] \in Seq(Variable) /\ Len(t[s][1]) \in 1 .. 3
    /\ \A n \in Variable : <<n>> \in Seq(Variable) /\ Len(<<n>>) \in 1 .. 3
    /\ <<"PROJECT_ID", "GOOGLE_CLOUD_PROJECT", "GCP_PROJECT">> \in Seq(Variable)
    /\ Len(<<"PROJECT_ID", "GOOGLE_CLOUD_PROJECT", "GCP_PROJECT">>) \in 1 .. 3
<1>1. \A s \in DOMAIN Setting : s \in {"location", "region", "model", "agent"}
  BY DEF Setting
<1>2. \A s \in DOMAIN StoreSetting : s \in {"instance", "dataset", "table", "endpoint"}
  BY DEF StoreSetting
<1>3. \A s \in DOMAIN TelemetrySetting : s \in {"dataset", "table"}
  BY DEF TelemetrySetting
<1>one. \A n \in Variable : <<n>> \in Seq(Variable) /\ Len(<<n>>) \in 1 .. 3
  OBVIOUS
<1>two. \A m, n \in Variable : <<m, n>> \in Seq(Variable) /\ Len(<<m, n>>) \in 1 .. 3
  OBVIOUS
<1>4. \A s \in DOMAIN Setting :
        Setting[s][1] \in Seq(Variable) /\ Len(Setting[s][1]) \in 1 .. 3
  <2>1. \A s \in DOMAIN Setting :
          Setting[s][1] \in {<<"LOCATION", "GOOGLE_CLOUD_LOCATION">>, <<"REGION">>,
                             <<"MODEL_NAME", "COORDINATOR_MODEL">>, <<"DATA_AGENT_ID">>}
    BY <1>1 DEF Setting
  <2>2. {"LOCATION", "GOOGLE_CLOUD_LOCATION", "REGION", "MODEL_NAME",
         "COORDINATOR_MODEL", "DATA_AGENT_ID"} \subseteq Variable
    BY DEF Variable
  <2> QED
    BY <2>1, <2>2, <1>one, <1>two
<1>5. \A s \in DOMAIN StoreSetting :
        StoreSetting[s][1] \in Seq(Variable) /\ Len(StoreSetting[s][1]) \in 1 .. 3
  BY <1>2 DEF StoreSetting, Variable
<1>6. \A s \in DOMAIN TelemetrySetting :
        TelemetrySetting[s][1] \in Seq(Variable) /\ Len(TelemetrySetting[s][1]) \in 1 .. 3
  <2>1. \A s \in DOMAIN TelemetrySetting :
          TelemetrySetting[s][1] \in
              {<<"BQ_TELEMETRY_DATASET", "TELEMETRY_DATASET_ID">>, <<"BQ_TELEMETRY_TABLE">>}
    BY <1>3 DEF TelemetrySetting
  <2>2. {"BQ_TELEMETRY_DATASET", "TELEMETRY_DATASET_ID", "BQ_TELEMETRY_TABLE"} \subseteq Variable
    BY DEF Variable
  <2> QED
    BY <2>1, <2>2, <1>one, <1>two
<1>7. /\ <<"PROJECT_ID", "GOOGLE_CLOUD_PROJECT", "GCP_PROJECT">> \in Seq(Variable)
      /\ Len(<<"PROJECT_ID", "GOOGLE_CLOUD_PROJECT", "GCP_PROJECT">>) \in 1 .. 3
  BY DEF Variable
<1> QED
  BY <1>4, <1>5, <1>6, <1>7, <1>one

\* A blank variable is as good as none to every getter (config.py:33-38).
THEOREM BlanksChangeNothing == \A e \in Environment : BlankIsUnset(e)
<1> SUFFICES ASSUME NEW e \in Environment PROVE Read(Cleared(e)) = Read(e)
  BY DEF BlankIsUnset, Cleared
<1>1. \A t \in {Setting, StoreSetting, TelemetrySetting} : \A s \in DOMAIN t :
        Get(Cleared(e), t[s]) = Get(e, t[s])
  BY NameLists, FirstEnvCleared DEF Get
<1>2. \A n \in Variable : FirstEnv(Cleared(e), <<n>>) = FirstEnv(e, <<n>>)
  BY NameLists, FirstEnvCleared
<1>3. ProjectOf(Cleared(e)) = ProjectOf(e)
  BY NameLists, FirstEnvCleared DEF ProjectOf
<1>4. \A s \in DOMAIN Setting : Get(Cleared(e), Setting[s]) = Get(e, Setting[s])
  BY <1>1
<1>5. {"location", "region", "agent"} \subseteq DOMAIN Setting
  BY DEF Setting
<1>6. ChatUrl(Cleared(e)) = ChatUrl(e) /\ DataAgentName(Cleared(e)) = DataAgentName(e)
  <2>1. Get(Cleared(e), Setting["location"]) = Get(e, Setting["location"])
    BY <1>4, <1>5
  <2>2. Get(Cleared(e), Setting["agent"]) = Get(e, Setting["agent"])
    BY <1>4, <1>5
  <2> QED
    BY <1>3, <2>1, <2>2 DEF ChatUrl, DataAgentName
<1>7. TelemetryLocation(Cleared(e)) = TelemetryLocation(e)
  <2>1. Get(Cleared(e), Setting["region"]) = Get(e, Setting["region"])
    BY <1>4, <1>5
  <2>2. "BQ_TELEMETRY_LOCATION" \in Variable
    BY DEF Variable
  <2> QED
    BY <1>2, <2>1, <2>2 DEF TelemetryLocation
<1>8. /\ TelemetryEnabled(Cleared(e)) = TelemetryEnabled(e)
      /\ SimilarityThreshold(Cleared(e)) = SimilarityThreshold(e)
      /\ MaxBytesBilled(Cleared(e)) = MaxBytesBilled(e)
      /\ MaxRetries(Cleared(e)) = MaxRetries(e)
  <2>1. {"BQ_TELEMETRY_ENABLED", "RAG_SIMILARITY_THRESHOLD", "BQ_MAX_BYTES_BILLED",
         "TOOL_MAX_RETRIES"} \subseteq Variable
    BY DEF Variable
  <2> QED
    BY <1>2, <2>1
       DEF TelemetryEnabled, SimilarityThreshold, MaxBytesBilled, MaxRetries, Number
<1>9. \A t \in {Setting, StoreSetting, TelemetrySetting} :
        [s \in DOMAIN t |-> Get(Cleared(e), t[s])] = [s \in DOMAIN t |-> Get(e, t[s])]
  BY <1>1
<1> QED
  BY <1>3, <1>6, <1>7, <1>8, <1>9 DEF Read

\* The card and a session store on an engine mean the same one (a2a.py:96,
\* services.py:49-50) exactly if the platform names its region or the other
\* clients' location is us-central1, in every environment.
THEOREM CardAndSessionsAgree == \A e \in Environment : CardLeadsToSessions(e)
BY DEF CardLeadsToSessions, AppUrl, SessionStore, EngineRegion, Truthy

\* What a variable states is a text.
LEMMA FirstEnvText ==
    ASSUME NEW e \in Environment, NEW n \in Variable
    PROVE  FirstEnv(e, <<n>>) \in Text \cup {Missing}
BY DEF FirstEnv, Stated, Environment

\* Whatever the environment says, the retry loops have a budget of at least
\* one, which is what the models of both tools assume (ToolAssumption), and
\* the getters of numbers do not raise (config.py:136-162).
THEOREM BudgetAlwaysUsable == \A e \in Environment : BudgetUsable(e)
<1> SUFFICES ASSUME NEW e \in Environment PROVE BudgetUsable(e)
  OBVIOUS
<1>1. ASSUME NEW n \in Variable, NEW d \in Int
      PROVE  Number(e, n, IntOf, d) \in Int
  BY <1>1, FirstEnvText, SettingsAssumption DEF Number
<1>2. {"BQ_MAX_BYTES_BILLED", "TOOL_MAX_RETRIES"} \subseteq Variable
  BY DEF Variable
<1>3. Number(e, "TOOL_MAX_RETRIES", IntOf, 3) \in Int
  BY <1>1, <1>2
<1>4. MaxBytesBilled(e) \in Int
  BY <1>1, <1>2 DEF MaxBytesBilled
<1>5. SimilarityThreshold(e) # Malformed
  BY SettingsAssumption DEF SimilarityThreshold, Number
<1> QED
  BY <1>3, <1>4, <1>5 DEF BudgetUsable, MaxRetries

-----------------------------------------------------------------------------
\* ChunkStitching.  The orders among which Passages chooses.
InOrder(J) ==
    {s \in SetToSeqs(J) :
        \A i, j \in DOMAIN s : i < j => s[i][2].index <= s[j][2].index}

\* An order of a finite set has its elements, all of them, once.
LEMMA OrderIsOnto ==
    ASSUME NEW J, IsFiniteSet(J), NEW s \in SetToSeqs(J)
    PROVE  /\ s \in [1 .. Cardinality(J) -> J]
           /\ \A x \in J : \E i \in DOMAIN s : s[i] = x
           /\ \A i, j \in DOMAIN s : s[i] = s[j] => i = j
<1> DEFINE N == Cardinality(J)
<1>1. s \in [1 .. N -> J] /\ \A i, j \in 1 .. N : i # j => s[i] # s[j]
  BY DEF SetToSeqs
<1>2. N \in Nat
  BY FS_CardinalityType
<1>3. s \in Injection(1 .. N, J)
  BY <1>1 DEF Injection, IsInjective
<1>4. Cardinality(1 .. N) = N
  BY <1>2, FS_Interval
<1>5. s \in Surjection(1 .. N, J)
  BY <1>3, <1>4, FS_Injection
<1> QED
  BY <1>1, <1>5 DEF Surjection

\* What is joined is finite and has the match; each row of it is a neighbour.
LEMMA JoinFacts ==
    ASSUME NEW K, IsFiniteSet(K), \A r \in K : r.index \in Int,
           NEW matched \in SUBSET K, NEW m \in matched
    PROVE  /\ IsFiniteSet(Joined(matched, K, m))
           /\ <<m, m>> \in Joined(matched, K, m)
           /\ \A x \in Joined(matched, K, m) :
                 /\ x = <<x[1], x[2]>> /\ x[1] \in K /\ x[2] \in K
                 /\ x[2].doc = m.doc
                 /\ x[2].index \in m.index - 1 .. m.index + 1
<1>1. Copies(matched, m) \subseteq K /\ IsFiniteSet(Copies(matched, m))
  BY FS_Subset DEF Copies
<1>2. IsFiniteSet(Copies(matched, m) \X K)
  BY <1>1, FS_Product
<1>3. Joined(matched, K, m) \subseteq Copies(matched, m) \X K
  BY DEF Joined
<1>4. IsFiniteSet(Joined(matched, K, m))
  BY <1>2, <1>3, FS_Subset
<1>5. m \in K /\ m.index \in Int
  OBVIOUS
<1>6. <<m, m>> \in Joined(matched, K, m)
  BY <1>5 DEF Joined, Copies, Near
<1>7. ASSUME NEW g \in Copies(matched, m), NEW r \in K, Near(r, g)
      PROVE  r.doc = m.doc /\ r.index \in m.index - 1 .. m.index + 1
  BY <1>7 DEF Copies, Near
<1> QED
  BY <1>1, <1>4, <1>6, <1>7 DEF Joined

\* A passage is about the match's document, holds the match and reads in order.
LEMMA PassageReads ==
    ASSUME NEW K, IsFiniteSet(K), \A r \in K : r.index \in Int,
           NEW matched \in SUBSET K, NEW m \in matched,
           NEW p \in Passages(matched, K, m)
    PROVE  /\ m \in ToSet(p)
           /\ \A i \in DOMAIN p : p[i].doc = m.doc /\ p[i].index \in m.index - 1 .. m.index + 1
           /\ \A i, j \in DOMAIN p : i < j => p[i].index <= p[j].index
<1> DEFINE J == Joined(matched, K, m)
<1>1. PICK s \in InOrder(J) : p = [i \in DOMAIN s |-> s[i][2]]
  BY DEF Passages, InOrder
<1>2. s \in SetToSeqs(J) /\ \A i, j \in DOMAIN s : i < j => s[i][2].index <= s[j][2].index
  BY DEF InOrder
<1>3. /\ IsFiniteSet(J) /\ <<m, m>> \in J
      /\ \A x \in J : x[2].doc = m.doc /\ x[2].index \in m.index - 1 .. m.index + 1
  BY JoinFacts
<1> HIDE DEF J
<1>4. s \in [1 .. Cardinality(J) -> J]
  BY <1>2, <1>3, OrderIsOnto
<1>5. \A x \in J : \E i \in DOMAIN s : s[i] = x
  BY <1>2, <1>3, OrderIsOnto
<1>6. DOMAIN p = DOMAIN s /\ \A j \in DOMAIN s : p[j] = s[j][2] /\ s[j] \in J
  BY <1>1, <1>4
<1>7. m \in ToSet(p)
  <2>1. PICK i \in DOMAIN s : s[i] = <<m, m>>
    BY <1>3, <1>5
  <2> QED
    BY <1>6, <2>1 DEF ToSet
<1> QED
  BY <1>2, <1>3, <1>6, <1>7

\* One, two or three joined rows of different indices have one order.
LEMMA OneInOrder == ASSUME NEW x PROVE \E s : InOrder({x}) = {s}
<1> DEFINE s0 == [i \in 1 .. 1 |-> x]
<1>1. Cardinality({x}) = 1
  BY FS_Singleton
<1>2. \A s \in InOrder({x}) : s = s0
  BY <1>1 DEF InOrder, SetToSeqs
<1>3. s0 \in InOrder({x})
  BY <1>1 DEF InOrder, SetToSeqs
<1> QED
  BY <1>2, <1>3

LEMMA TwoInOrder ==
    ASSUME NEW x, NEW y, x[2].index \in Int, y[2].index \in Int,
           x[2].index < y[2].index
    PROVE  \E s : InOrder({x, y}) = {s}
<1> DEFINE s0 == [i \in 1 .. 2 |-> IF i = 1 THEN x ELSE y]
<1>0. x # y
  OBVIOUS
<1>1. Cardinality({x, y}) = 2
  <2>1. {x, y} = {x} \cup {y} /\ y \notin {x}
    BY <1>0
  <2>2. IsFiniteSet({x}) /\ Cardinality({x}) = 1
    BY FS_Singleton
  <2>3. Cardinality({x} \cup {y}) = 1 + 1
    BY <2>1, <2>2, FS_AddElement
  <2> QED
    BY <2>1, <2>3
<1>2. ASSUME NEW s \in InOrder({x, y}) PROVE s = s0
  <2>1. /\ s \in [1 .. 2 -> {x, y}] /\ s[1] # s[2]
        /\ s[1][2].index <= s[2][2].index
    BY <1>1 DEF InOrder, SetToSeqs
  <2>2. s[1] = x /\ s[2] = y
    BY <2>1
  <2> QED
    BY <2>1, <2>2
<1>3. s0 \in InOrder({x, y})
  <2>1. /\ s0 \in [1 .. 2 -> {x, y}]
        /\ \A i, j \in 1 .. 2 : i # j => s0[i] # s0[j]
    BY <1>0
  <2>2. \A i, j \in 1 .. 2 : i < j => s0[i][2].index <= s0[j][2].index
    OBVIOUS
  <2> QED
    BY <1>1, <2>1, <2>2 DEF InOrder, SetToSeqs
<1> QED
  BY <1>2, <1>3

LEMMA ThreeInOrder ==
    ASSUME NEW x, NEW y, NEW z,
           x[2].index \in Int, y[2].index \in Int, z[2].index \in Int,
           x[2].index < y[2].index, y[2].index < z[2].index
    PROVE  \E s : InOrder({x, y, z}) = {s}
<1> DEFINE s0 == [i \in 1 .. 3 |-> IF i = 1 THEN x ELSE IF i = 2 THEN y ELSE z]
<1>0. x # y /\ y # z /\ x # z
  OBVIOUS
<1>1. Cardinality({x, y, z}) = 3
  <2>1. /\ {x, y} = {x} \cup {y} /\ y \notin {x}
        /\ {x, y, z} = {x, y} \cup {z} /\ z \notin {x, y}
    BY <1>0
  <2>2. IsFiniteSet({x}) /\ Cardinality({x}) = 1
    BY FS_Singleton
  <2>3. IsFiniteSet({x} \cup {y}) /\ Cardinality({x} \cup {y}) = 1 + 1
    BY <2>1, <2>2, FS_AddElement
  <2>4. IsFiniteSet({x, y}) /\ Cardinality({x, y}) = 2
    BY <2>1, <2>3
  <2>5. Cardinality({x, y} \cup {z}) = 2 + 1
    BY <2>1, <2>4, FS_AddElement
  <2> QED
    BY <2>1, <2>5
<1>2. ASSUME NEW s \in InOrder({x, y, z}) PROVE s = s0
  <2>0. /\ s \in [1 .. 3 -> {x, y, z}]
        /\ \A i, j \in 1 .. 3 : i # j => s[i] # s[j]
        /\ \A i, j \in 1 .. 3 : i < j => s[i][2].index <= s[j][2].index
    BY <1>1 DEF InOrder, SetToSeqs
  <2>1. /\ s[1] # s[2] /\ s[2] # s[3] /\ s[1] # s[3]
        /\ s[1][2].index <= s[2][2].index /\ s[2][2].index <= s[3][2].index
        /\ s \in [1 .. 3 -> {x, y, z}]
    BY <2>0
  <2>2. s[1] = x /\ s[2] = y /\ s[3] = z
    BY <2>1
  <2> QED
    BY <2>1, <2>2
<1>3. s0 \in InOrder({x, y, z})
  <2>1. /\ s0 \in [1 .. 3 -> {x, y, z}]
        /\ \A i, j \in 1 .. 3 : i # j => s0[i] # s0[j]
    BY <1>0
  <2>2. \A i, j \in 1 .. 3 : i < j => s0[i][2].index <= s0[j][2].index
    OBVIOUS
  <2> QED
    BY <1>1, <2>1, <2>2 DEF InOrder, SetToSeqs
<1> QED
  BY <1>2, <1>3

\* Without copies, a match joins itself and at most one row on either side.
LEMMA OneOrder ==
    ASSUME NEW K, IsFiniteSet(K), \A r \in K : r.index \in Int, Unique(K),
           NEW matched \in SUBSET K, NEW m \in matched
    PROVE  /\ Joined(matched, K, m) = {m} \X {r \in K : Near(r, m)}
           /\ \E s : InOrder(Joined(matched, K, m)) = {s}
<1> DEFINE J == Joined(matched, K, m)
           Before == {r \in K : r.doc = m.doc /\ r.index = m.index - 1}
           After == {r \in K : r.doc = m.doc /\ r.index = m.index + 1}
<1>0. m \in K /\ m.index \in Int
  OBVIOUS
<1>1. Copies(matched, m) = {m}
  BY DEF Copies, Unique
<1>2. J = {m} \X {r \in K : Near(r, m)}
  BY <1>1 DEF Joined
<1>3. {r \in K : Near(r, m)} = Before \cup {m} \cup After
  <2>1. ASSUME NEW r \in K, Near(r, m), r.index = m.index PROVE r = m
    BY <1>0, <2>1 DEF Near, Unique
  <2>2. \A r \in K : Near(r, m) =>
          r.index = m.index - 1 \/ r.index = m.index \/ r.index = m.index + 1
    BY <1>0 DEF Near
  <2> QED
    BY <1>0, <2>1, <2>2 DEF Near
<1>4. Before = {} \/ \E a \in K : Before = {a} /\ a.index = m.index - 1
  BY DEF Unique
<1>5. After = {} \/ \E b \in K : After = {b} /\ b.index = m.index + 1
  BY DEF Unique
<1> HIDE DEF J, Before, After
<1>6. CASE Before = {} /\ After = {}
  <2>1. J = {<<m, m>>}
    BY <1>2, <1>3, <1>6
  <2> QED
    BY <1>2, <2>1, OneInOrder DEF J
<1>7. ASSUME NEW a \in K, Before = {a}, a.index = m.index - 1, After = {}
      PROVE  \E s : InOrder(J) = {s}
  <2> DEFINE first == <<m, a>>
             own == <<m, m>>
  <2>1. J = {first, own}
    BY <1>2, <1>3, <1>7
  <2>2. first[2] = a /\ own[2] = m
    OBVIOUS
  <2> HIDE DEF first, own
  <2>3. /\ first[2].index \in Int /\ own[2].index \in Int
        /\ first[2].index < own[2].index
    BY <1>0, <1>7, <2>2
  <2>4. \E s : InOrder({first, own}) = {s}
    BY <2>3, TwoInOrder
  <2> QED
    BY <2>1, <2>4
<1>8. ASSUME NEW b \in K, After = {b}, b.index = m.index + 1, Before = {}
      PROVE  \E s : InOrder(J) = {s}
  <2> DEFINE own == <<m, m>>
             last == <<m, b>>
  <2>1. J = {own, last}
    BY <1>2, <1>3, <1>8
  <2>2. last[2] = b /\ own[2] = m
    OBVIOUS
  <2> HIDE DEF own, last
  <2>3. /\ own[2].index \in Int /\ last[2].index \in Int
        /\ own[2].index < last[2].index
    BY <1>0, <1>8, <2>2
  <2>4. \E s : InOrder({own, last}) = {s}
    BY <2>3, TwoInOrder
  <2> QED
    BY <2>1, <2>4
<1>9. ASSUME NEW a \in K, Before = {a}, a.index = m.index - 1,
             NEW b \in K, After = {b}, b.index = m.index + 1
      PROVE  \E s : InOrder(J) = {s}
  <2> DEFINE first == <<m, a>>
             own == <<m, m>>
             last == <<m, b>>
  <2>1. J = {first, own, last}
    BY <1>2, <1>3, <1>9
  <2>2. first[2] = a /\ own[2] = m /\ last[2] = b
    OBVIOUS
  <2> HIDE DEF first, own, last
  <2>3. /\ first[2].index \in Int /\ own[2].index \in Int /\ last[2].index \in Int
        /\ first[2].index < own[2].index /\ own[2].index < last[2].index
    BY <1>0, <1>9, <2>2
  <2>4. \E s : InOrder({first, own, last}) = {s}
    BY <2>3, ThreeInOrder
  <2> QED
    BY <2>1, <2>4
<1> QED
  BY <1>2, <1>4, <1>5, <1>6, <1>7, <1>8, <1>9 DEF J

\* In a table without copies the passage of a match is one, the same in the
\* vector answer and in the full-text answer, and has no row twice.
LEMMA PassageIsOne ==
    ASSUME NEW K, IsFiniteSet(K), \A r \in K : r.index \in Int, Unique(K),
           NEW matched \in SUBSET K, NEW m \in matched
    PROVE  /\ VectorPassages(matched, K, m) = TextPassages(K, m)
           /\ \A p \in TextPassages(K, m) : IsInjective(p)
           /\ Cardinality(TextPassages(K, m)) = 1
<1> DEFINE J == Joined({m}, K, m)
<1>1. {m} \in SUBSET K /\ m \in {m}
  OBVIOUS
<1>2. J = {m} \X {r \in K : Near(r, m)} /\ \E s : InOrder(J) = {s}
  BY <1>1, OneOrder
<1>3. Joined(matched, K, m) = J
  <2>1. Joined(matched, K, m) = {m} \X {r \in K : Near(r, m)}
    BY OneOrder
  <2> QED
    BY <1>2, <2>1
<1>4. VectorPassages(matched, K, m) = TextPassages(K, m)
  BY <1>3 DEF VectorPassages, TextPassages, Passages
<1>5. IsFiniteSet(J)
  BY <1>1, JoinFacts
<1>6. TextPassages(K, m) = {[i \in DOMAIN s |-> s[i][2]] : s \in InOrder(J)}
  BY DEF TextPassages, Passages, InOrder
<1> HIDE DEF J
<1>7. PICK s : InOrder(J) = {s}
  BY <1>2
<1> DEFINE p == [i \in DOMAIN s |-> s[i][2]]
<1>8. TextPassages(K, m) = {p}
  BY <1>6, <1>7
<1>9. s \in SetToSeqs(J)
  BY <1>7 DEF InOrder
<1>10. s \in [1 .. Cardinality(J) -> J] /\ \A i, j \in DOMAIN s : s[i] = s[j] => i = j
  BY <1>5, <1>9, OrderIsOnto
<1>11. \A x, y \in J : x[2] = y[2] => x = y
  BY <1>2
<1>12. IsInjective(p)
  BY <1>10, <1>11 DEF IsInjective
<1>13. Cardinality({p}) = 1
  BY FS_Singleton
<1> QED
  BY <1>4, <1>8, <1>12, <1>13

\* Whatever the search matched in whatever finite table, the stitched context
\* is about one document, holds the match and reads in order, and without
\* copies there is no choice about it (rag_tool.py:128-135).
THEOREM PassagesStitched ==
    ASSUME NEW K, IsFiniteSet(K), \A r \in K : r.index \in Int,
           NEW matched \in SUBSET K, NEW m \in matched
    PROVE  StitchedInOrder(matched, K, m)
<1>1. {m} \in SUBSET K /\ m \in {m}
  OBVIOUS
<1>2. ASSUME NEW p \in VectorPassages(matched, K, m) \cup TextPassages(K, m)
      PROVE  /\ m \in ToSet(p)
             /\ \A i \in DOMAIN p : p[i].doc = m.doc /\ p[i].index \in m.index - 1 .. m.index + 1
             /\ \A i, j \in DOMAIN p : i < j => p[i].index <= p[j].index
  <2>1. CASE p \in Passages(matched, K, m)
    BY <2>1, PassageReads
  <2>2. CASE p \in Passages({m}, K, m)
    BY <1>1, <2>2, PassageReads
  <2> QED
    BY <2>1, <2>2 DEF VectorPassages, TextPassages
<1> QED
  BY <1>2, PassageIsOne DEF StitchedInOrder

-----------------------------------------------------------------------------
\* The machine of Operators: what it reads is an environment, and what it
\* stitches was matched in a table.
InputInv ==
    /\ env \in Environment
    /\ search.matched \subseteq search.table
    /\ IsFiniteSet(search.table)
    /\ \A r \in search.table : r.index \in Int

LEMMA Inputs == Spec => []InputInv
<1>1. Init => InputInv
  BY FS_EmptySet DEF Init, InputInv, Plain, NoSearch, Environment
<1>2. InputInv /\ [Next]_vars => InputInv'
  <2> SUFFICES ASSUME InputInv, [Next]_vars PROVE InputInv'
    OBVIOUS
  <2>1. CASE ReadEnvironment
    <3>1. env' \in Environment
      BY <2>1, OperatorsAssumption DEF ReadEnvironment, Environment
    <3> QED
      BY <2>1, <3>1 DEF ReadEnvironment, InputInv
  <2>2. CASE Stitch
    BY <2>2, OperatorsAssumption DEF Stitch, InputInv
  <2>3. CASE UNCHANGED vars
    BY <2>3 DEF vars, InputInv
  <2> QED
    BY <2>1, <2>2, <2>3 DEF Next
<1> QED
  BY <1>1, <1>2, PTL DEF Spec

\* In every environment the machine reads, the card and the sessions agree
\* exactly where CardLeadsToSessions says, blanks do not matter and the budget is
\* usable; every search is stitched in order.
THEOREM OperatorsSafety ==
    Spec => [](CardAgrees /\ BlanksAgree /\ BudgetAgrees /\ PassagesRead)
<1>1. InputInv => CardAgrees /\ BlanksAgree /\ BudgetAgrees
  BY CardAndSessionsAgree, BlanksChangeNothing, BudgetAlwaysUsable
     DEF InputInv, CardAgrees, BlanksAgree, BudgetAgrees
<1>2. InputInv => PassagesRead
  BY PassagesStitched DEF InputInv, PassagesRead
<1> QED
  BY <1>1, <1>2, Inputs, PTL
=============================================================================
