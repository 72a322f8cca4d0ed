------------------------ MODULE AnalyticsToolProofs ------------------------
(***************************************************************************)
(* The safety of the analytics tool for any number of calls, any retry     *)
(* budget and any set of responses.                                        *)
(***************************************************************************)
EXTENDS AnalyticsTool, TLAPS

\* An empty output is an output.
LEMMA EmptyOutput == Empty \in Output
BY DEF Empty, Output

\* Appending adds one element to those of a sequence.
LEMMA ToSetAppend ==
    ASSUME NEW S, NEW q \in Seq(S), NEW x \in S
    PROVE  ToSet(Append(q, x)) = ToSet(q) \cup {x}
<1>1. /\ DOMAIN Append(q, x) = (1 .. Len(q)) \cup {Len(q) + 1}
      /\ \A i \in 1 .. Len(q) : Append(q, x)[i] = q[i]
      /\ Append(q, x)[Len(q) + 1] = x
      /\ DOMAIN q = 1 .. Len(q)
  OBVIOUS
<1> QED BY <1>1 DEF ToSet

\* A round of the loop keeps an output an output.
LEMMA AbsorbOutput ==
    ASSUME NEW o \in Output, NEW s \in ResponseStep
    PROVE  Absorb(o, s) \in Output
<1> USE RenderAssumption
<1>1. AbsorbSql(o.sql, s) \in Statement \cup {None, EmptySql}
  BY DEF AbsorbSql, Output, ResponseStep
<1>2. s.part \notin Chatter \cup {None} => Append(o.text, s.part) \in Seq(Prose)
  BY DEF Output, ResponseStep
<1> QED BY <1>1, <1>2 DEF Absorb, Output, ResponseStep

\* The two ways an attempt fails.
LEMMA FailsCases ==
    ASSUME AnalyticsInv, NEW c \in Calls, Fails(c)
    PROVE  \/ /\ attempt[c] < MaxRetries
              /\ pc' = [pc EXCEPT ![c] = "backoff"]
              /\ naps' = [naps EXCEPT ![c] = Append(@, Delay(attempt[c]))]
              /\ UNCHANGED <<attempt, reply>>
           \/ /\ attempt[c] = MaxRetries
              /\ pc' = [pc EXCEPT ![c] = "done"]
              /\ reply' = [reply EXCEPT ![c] = "unavailable"]
              /\ UNCHANGED <<attempt, naps>>
BY DEF Fails

\* A step of one call need be looked at for that call only.
LEMMA OneCall ==
    ASSUME AnalyticsInv, TypeOK', NEW c \in Calls, CallInv(c)',
           \A d \in Calls \ {c} :
              /\ pc'[d] = pc[d] /\ attempt'[d] = attempt[d]
              /\ running'[d] = running[d] /\ reply'[d] = reply[d]
              /\ got'[d] = got[d] /\ read'[d] = read[d] /\ out'[d] = out[d]
    PROVE  AnalyticsInv'
<1>1. ASSUME NEW d \in Calls \ {c} PROVE CallInv(d)'
  BY <1>1 DEF CallInv, AnalyticsInv
<1> QED BY <1>1 DEF AnalyticsInv

\* A failed attempt keeps the invariant, whatever the service still executes
\* and wherever the rendering had got to.
LEMMA FailsKeepsInv ==
    ASSUME AnalyticsInv, NEW c \in Calls,
           pc[c] \in {"auth", "waiting", "rendering"}, Fails(c),
           \/ UNCHANGED running
           \/ running' = [running EXCEPT ![c] = @ \ {attempt[c]}],
           \/ pc[c] # "rendering" /\ UNCHANGED rendering
           \/ /\ got' = [got EXCEPT ![c] = <<>>]
              /\ read' = [read EXCEPT ![c] = 0]
              /\ out' = [out EXCEPT ![c] = Empty]
    PROVE  AnalyticsInv'
<1> USE AnalyticsAssumption
<1>1. TypeOK /\ CallInv(c)
  BY DEF AnalyticsInv
<1>2. /\ running' \in [Calls -> SUBSET (1 .. MaxRetries)]
      /\ running'[c] \subseteq running[c]
      /\ \A d \in Calls \ {c} : running'[d] = running[d]
  <2>1. CASE UNCHANGED running
    BY <1>1, <2>1 DEF TypeOK
  <2>2. CASE running' = [running EXCEPT ![c] = @ \ {attempt[c]}]
    BY <1>1, <2>2 DEF TypeOK
  <2> QED BY <2>1, <2>2
<1>3. /\ got' \in [Calls -> Response \cup {<<>>}]
      /\ read' \in [Calls -> Nat]
      /\ out' \in [Calls -> Output]
      /\ got'[c] = <<>> /\ read'[c] = 0 /\ out'[c] = Empty
      /\ \A d \in Calls \ {c} :
            got'[d] = got[d] /\ read'[d] = read[d] /\ out'[d] = out[d]
  <2>1. CASE pc[c] # "rendering" /\ UNCHANGED rendering
    BY <1>1, <2>1 DEF rendering, TypeOK, CallInv
  <2>2. CASE /\ got' = [got EXCEPT ![c] = <<>>]
             /\ read' = [read EXCEPT ![c] = 0]
             /\ out' = [out EXCEPT ![c] = Empty]
    BY <1>1, <2>2, EmptyOutput DEF TypeOK
  <2> QED BY <2>1, <2>2
<1>4. Delay(attempt[c]) \in Delays
  BY <1>1 DEF Delays, TypeOK, CallInv
<1>5. /\ pc' \in [Calls -> PC] /\ reply' \in [Calls -> Kind]
      /\ naps' \in [Calls -> Seq(Delays)]
      /\ attempt' = attempt
      /\ \/ pc'[c] = "backoff" /\ attempt[c] < MaxRetries /\ reply'[c] = "none"
         \/ pc'[c] = "done" /\ reply'[c] = "unavailable"
      /\ \A d \in Calls \ {c} : pc'[d] = pc[d] /\ reply'[d] = reply[d]
  <2>1. /\ pc \in [Calls -> PC] /\ reply \in [Calls -> Kind]
        /\ naps \in [Calls -> Seq(Delays)]
        /\ reply[c] = "none"
    BY <1>1 DEF TypeOK, CallInv
  <2>2. CASE /\ attempt[c] < MaxRetries
             /\ pc' = [pc EXCEPT ![c] = "backoff"]
             /\ naps' = [naps EXCEPT ![c] = Append(@, Delay(attempt[c]))]
             /\ UNCHANGED <<attempt, reply>>
    <3>1. naps' \in [Calls -> Seq(Delays)]
      BY <1>4, <2>1, <2>2
    <3> QED BY <2>1, <2>2, <3>1 DEF PC
  <2>3. CASE /\ attempt[c] = MaxRetries
             /\ pc' = [pc EXCEPT ![c] = "done"]
             /\ reply' = [reply EXCEPT ![c] = "unavailable"]
             /\ UNCHANGED <<attempt, naps>>
    BY <2>1, <2>3 DEF PC, Kind
  <2> QED BY <2>2, <2>3, FailsCases
<1>6. TypeOK'
  BY <1>1, <1>2, <1>3, <1>5 DEF TypeOK
<1>7. CallInv(c)'
  BY <1>1, <1>2, <1>3, <1>5 DEF CallInv
<1> QED BY <1>2, <1>3, <1>5, <1>6, <1>7, OneCall

\* Receiving a response, reading a step of it and returning keep it.
LEMMA ReadingKeepsInv ==
    ASSUME AnalyticsInv, NEW c \in Calls, Receive(c) \/ RenderStep(c) \/ Return(c)
    PROVE  AnalyticsInv'
<1> USE AnalyticsAssumption
<1>1. TypeOK /\ CallInv(c)
  BY DEF AnalyticsInv
<1>2. CASE Receive(c)
  <2>1. /\ got' \in [Calls -> Response \cup {<<>>}]
        /\ got'[c] \in Seq(ResponseStep)
        /\ \A d \in Calls \ {c} : got'[d] = got[d]
    BY <1>1, <1>2 DEF Receive, TypeOK
  <2>2. /\ running' \in [Calls -> SUBSET (1 .. MaxRetries)]
        /\ running'[c] = running[c] \ {attempt[c]}
        /\ \A d \in Calls \ {c} : running'[d] = running[d]
    BY <1>1, <1>2 DEF Receive, Answered, TypeOK
  <2>3. TypeOK'
    BY <1>1, <1>2, <2>1, <2>2 DEF Receive, TypeOK, PC
  <2>4. CallInv(c)'
    BY <1>1, <1>2, <2>1, <2>2 DEF Receive, Answered, TypeOK, CallInv
  <2> QED BY <1>1, <1>2, <2>1, <2>2, <2>3, <2>4, OneCall DEF Receive, TypeOK
<1>3. CASE RenderStep(c)
  <2>1. got[c] \in Seq(ResponseStep) /\ read[c] + 1 \in 1 .. Len(got[c])
    BY <1>1, <1>3 DEF RenderStep, TypeOK
  <2>2. Absorb(out[c], got[c][read[c] + 1]) \in Output
    BY <1>1, <2>1, AbsorbOutput DEF TypeOK
  <2>3. TypeOK'
    BY <1>1, <1>3, <2>2 DEF RenderStep, TypeOK
  <2>4. CallInv(c)'
    BY <1>1, <1>3, <2>1 DEF RenderStep, TypeOK, CallInv
  <2> QED BY <1>1, <1>3, <2>3, <2>4, OneCall DEF RenderStep, TypeOK
<1>4. CASE Return(c)
  <2>1. TypeOK'
    BY <1>1, <1>4 DEF Return, rendering, TypeOK, PC, Kind
  <2>2. CallInv(c)'
    BY <1>1, <1>4 DEF Return, rendering, TypeOK, CallInv
  <2> QED BY <1>1, <1>4, <2>1, <2>2, OneCall DEF Return, rendering, TypeOK
<1> QED BY <1>2, <1>3, <1>4

\* The tool's invariant: its types, the loop's arithmetic, that a question is
\* under execution at most once per attempt made and never ahead of it, and
\* that a reply is about the whole of one response.
THEOREM AnalyticsSafety == Spec => []AnalyticsInv
<1>1. Init => AnalyticsInv
  <2> SUFFICES ASSUME Init PROVE AnalyticsInv
    OBVIOUS
  <2>1. TypeOK
    BY AnalyticsAssumption, EmptyOutput DEF Init, TypeOK, PC, Kind
  <2>2. \A c \in Calls : CallInv(c)
    BY DEF Init, CallInv
  <2> QED BY <2>1, <2>2 DEF AnalyticsInv
<1>2. AnalyticsInv /\ [Next]_vars => AnalyticsInv'
  <2> SUFFICES ASSUME AnalyticsInv, [Next]_vars PROVE AnalyticsInv'
    OBVIOUS
  <2> USE AnalyticsAssumption
  <2>1. TypeOK /\ \A c \in Calls : CallInv(c)
    BY DEF AnalyticsInv
  <2>2. ASSUME NEW c \in Calls, Invoke(c) PROVE AnalyticsInv'
    <3>1. TypeOK'
      BY <2>1, <2>2 DEF Invoke, rendering, TypeOK, PC
    <3>2. running'[c] = {}
      <4>1. running'[c] = running[c] /\ running[c] \subseteq 1 .. 0
        BY <2>1, <2>2 DEF Invoke, CallInv
      <4> QED BY <4>1
    <3>3. /\ pc'[c] = "auth" /\ attempt'[c] = 1 /\ reply'[c] = "none"
          /\ got'[c] = <<>> /\ read'[c] = 0 /\ out'[c] = Empty
      BY <2>1, <2>2 DEF Invoke, rendering, TypeOK, CallInv
    <3>4. CallInv(c)'
      BY <3>2, <3>3 DEF CallInv
    <3> QED BY <2>1, <2>2, <3>1, <3>4, OneCall DEF Invoke, rendering, TypeOK
  <2>3. ASSUME NEW c \in Calls, PrologueRaises(c) PROVE AnalyticsInv'
    <3>1. TypeOK'
      BY <2>1, <2>3 DEF PrologueRaises, rendering, TypeOK, PC, Kind
    <3>2. CallInv(c)'
      BY <2>1, <2>3 DEF PrologueRaises, rendering, TypeOK, CallInv
    <3> QED BY <2>1, <2>3, <3>1, <3>2, OneCall DEF PrologueRaises, rendering, TypeOK
  <2>4. ASSUME NEW c \in Calls, AuthFails(c) \/ PostRaises(c) PROVE AnalyticsInv'
    BY <2>4, FailsKeepsInv DEF AuthFails, PostRaises
  <2>5. ASSUME NEW c \in Calls, ReceiveFailure(c) \/ RenderRaises(c) PROVE AnalyticsInv'
    BY <2>5, FailsKeepsInv DEF ReceiveFailure, RenderRaises, Answered
  <2>6. ASSUME NEW c \in Calls, Post(c) PROVE AnalyticsInv'
    <3>1. attempt[c] \in 1 .. MaxRetries
      BY <2>1, <2>6 DEF Post, TypeOK, CallInv
    <3> DEFINE asked == running[c] \cup {attempt[c]}
    <3>2. asked \in SUBSET (1 .. MaxRetries) /\ asked \subseteq 1 .. attempt[c]
      BY <2>1, <3>1 DEF TypeOK, CallInv
    <3>3. \/ running' = [running EXCEPT ![c] = asked]
          \/ running' = running
      BY <2>6 DEF Post
    <3> HIDE DEF asked
    <3>4. /\ running' \in [Calls -> SUBSET (1 .. MaxRetries)]
          /\ running'[c] \subseteq 1 .. attempt[c]
          /\ \A d \in Calls \ {c} : running'[d] = running[d]
      BY <2>1, <3>2, <3>3 DEF TypeOK, CallInv
    <3>5. TypeOK'
      BY <2>1, <2>6, <3>4 DEF Post, rendering, TypeOK, PC
    <3>6. CallInv(c)'
      BY <2>1, <2>6, <3>4 DEF Post, rendering, TypeOK, CallInv
    <3> QED BY <2>1, <2>6, <3>4, <3>5, <3>6, OneCall DEF Post, rendering, TypeOK
  <2>7. ASSUME NEW c \in Calls, Receive(c) \/ RenderStep(c) \/ Return(c)
        PROVE  AnalyticsInv'
    BY <2>7, ReadingKeepsInv
  <2>8. ASSUME NEW c \in Calls, Wake(c) PROVE AnalyticsInv'
    <3>1. TypeOK'
      BY <2>1, <2>8 DEF Wake, rendering, TypeOK, PC, CallInv
    <3>2. /\ attempt'[c] = attempt[c] + 1 /\ attempt[c] \in Nat
          /\ running'[c] = running[c]
          /\ running[c] \subseteq 1 .. attempt[c]
      BY <2>1, <2>8 DEF Wake, TypeOK, CallInv
    <3>3. running'[c] \subseteq 1 .. attempt'[c] /\ attempt'[c] \notin running'[c]
      BY <3>2
    <3>4. /\ pc[c] = "backoff" /\ pc'[c] = "auth" /\ attempt'[c] >= 1
          /\ reply'[c] = reply[c] /\ got'[c] = got[c]
          /\ read'[c] = read[c] /\ out'[c] = out[c]
      BY <2>1, <2>8, <3>2 DEF Wake, rendering, TypeOK
    <3>5. CallInv(c)'
      BY <2>1, <3>3, <3>4 DEF CallInv
    <3> QED BY <2>1, <2>8, <3>1, <3>5, OneCall DEF Wake, rendering, TypeOK
  <2>9. ASSUME NEW c \in Calls, Discard(c) PROVE AnalyticsInv'
    <3>1. /\ running' \in [Calls -> SUBSET (1 .. MaxRetries)]
          /\ running'[c] \subseteq running[c]
          /\ \A d \in Calls \ {c} : running'[d] = running[d]
      BY <2>1, <2>9 DEF Discard, TypeOK
    <3>2. TypeOK'
      BY <2>1, <2>9, <3>1 DEF Discard, rendering, TypeOK
    <3>3. CallInv(c)'
      BY <2>1, <2>9, <3>1 DEF Discard, rendering, TypeOK, CallInv
    <3> QED BY <2>9, <3>1, <3>2, <3>3, OneCall DEF Discard, rendering
  <2>10. CASE UNCHANGED vars
    BY <2>1, <2>10 DEF vars, rendering, AnalyticsInv, TypeOK, CallInv
  <2> QED BY <2>2, <2>3, <2>4, <2>5, <2>6, <2>7, <2>8, <2>9, <2>10 DEF Next, Step
<1> QED BY <1>1, <1>2, PTL DEF Spec

-----------------------------------------------------------------------------
\* What the loop has kept after n steps of a response g: each of the properties
\* of the rendering, in a form that the next step can be added to.
DataSteps(g, n) == {i \in 1 .. n : g[i].dataSql # Absent}
BesideSteps(g, n) == {i \in 1 .. n : g[i].payloadSql \notin {Absent, None}}
ShownSteps(g, n) == {i \in 1 .. n : ~g[i].thought}

TextKept(g, n, o) == ToSet(o.text) = {g[i].part : i \in ShownSteps(g, n)} \cap Prose

SqlKept(g, n, o) ==
    (\A i \in DataSteps(g, n) : g[i].dataSql # None) =>
        \/ \E i \in DataSteps(g, n) :
              (\A j \in DataSteps(g, n) : j <= i) /\ o.sql = g[i].dataSql
        \/ /\ DataSteps(g, n) = {}
           /\ \E i \in BesideSteps(g, n) :
                (\A j \in BesideSteps(g, n) : i <= j) /\ o.sql = g[i].payloadSql
        \/ DataSteps(g, n) = {} /\ BesideSteps(g, n) = {} /\ o.sql = None

TableKept(g, n, o) == (\A i \in 1 .. n : g[i].schema = g[i].rows) => o.headers = o.rows

TableSqlKept(g, n, o) ==
    (\A i \in 1 .. n : g[i].dataSql = IF g[i].rows = None THEN Absent ELSE g[i].rows)
        => o.rows = None \/ o.sql = o.rows

AnySqlKept(g, n, o) ==
    (\A i \in 1 .. n : {g[i].dataSql, g[i].payloadSql} \subseteq Statement \cup {Absent})
        => /\ o.sql # EmptySql
           /\ o.sql = None =>
                \A i \in 1 .. n : g[i].dataSql = Absent /\ g[i].payloadSql = Absent

HeadersKept(g, n, o) ==
    (\A i \in 1 .. n : g[i].schema # NoFields)
        => /\ o.headers # NoFields
           /\ o.headers = None => \A i \in 1 .. n : g[i].schema = None

RowsKept(g, n, o) == o.rows = None => \A i \in 1 .. n : g[i].rows = None

Kept(g, n, o) ==
    /\ TextKept(g, n, o) /\ SqlKept(g, n, o) /\ TableKept(g, n, o)
    /\ TableSqlKept(g, n, o) /\ AnySqlKept(g, n, o) /\ HeadersKept(g, n, o) /\ RowsKept(g, n, o)

RenderInv == \A c \in Calls : Kept(got[c], read[c], out[c])

\* Before the first step nothing is kept, and nothing has to be.
LEMMA NothingKept == \A g : Kept(g, 0, Empty)
<1> SUFFICES ASSUME NEW g PROVE Kept(g, 0, Empty)
  OBVIOUS
<1>1. /\ 1 .. 0 = {} /\ ToSet(Empty.text) = {}
      /\ Empty.sql = None /\ Empty.headers = None /\ Empty.rows = None
  BY DEF Empty, ToSet
<1>2. None # EmptySql /\ None # NoFields
  BY RenderAssumption
<1> QED BY <1>1, <1>2 DEF Kept, TextKept, SqlKept, TableKept, TableSqlKept, AnySqlKept,
             HeadersKept, RowsKept, DataSteps, BesideSteps, ShownSteps

\* One round of the loop keeps what the step before it kept, and its own part.
LEMMA AbsorbKeeps ==
    ASSUME NEW g \in Seq(ResponseStep), NEW n \in Nat, n + 1 <= Len(g),
           NEW o \in Output, Kept(g, n, o)
    PROVE  Kept(g, n + 1, Absorb(o, g[n + 1]))
<1> DEFINE s == g[n + 1]
           p == Absorb(o, s)
<1>1. s \in ResponseStep /\ p \in Output
  BY AbsorbOutput
<1>2. /\ 1 .. n + 1 = (1 .. n) \cup {n + 1} /\ n + 1 \notin 1 .. n
      /\ \A i \in 1 .. n : g[i] \in ResponseStep
  OBVIOUS
<1>3. /\ p.sql = AbsorbSql(o.sql, s)
      /\ p.headers = IF s.schema # None THEN s.schema ELSE o.headers
      /\ p.rows = IF s.rows # None THEN s.rows ELSE o.rows
      /\ p.text = IF ~s.thought /\ s.part \notin Chatter \cup {None}
                  THEN Append(o.text, s.part) ELSE o.text
  BY DEF Absorb
<1>4. TextKept(g, n + 1, p)
  <2>1. CASE ~s.thought /\ s.part \notin Chatter \cup {None}
    <3>1. ShownSteps(g, n + 1) = ShownSteps(g, n) \cup {n + 1}
      BY <1>2, <2>1 DEF ShownSteps
    <3>2. s.part \in Prose
      BY <1>1, <2>1 DEF ResponseStep
    <3>3. o.text \in Seq(Prose) /\ p.text = Append(o.text, s.part)
      BY <1>3, <2>1 DEF Output
    <3>4. ToSet(p.text) = ToSet(o.text) \cup {s.part}
      BY <3>2, <3>3, ToSetAppend
    <3> QED BY <3>1, <3>2, <3>4 DEF Kept, TextKept
  <2>2. CASE s.thought \/ s.part \in Chatter \cup {None}
    <3>1. p.text = o.text
      BY <1>3, <2>2
    <3>2. {g[i].part : i \in ShownSteps(g, n + 1)} \cap Prose
            = {g[i].part : i \in ShownSteps(g, n)} \cap Prose
      <4>1. CASE s.thought
        <5>1. ShownSteps(g, n + 1) = ShownSteps(g, n)
          BY <1>2, <4>1 DEF ShownSteps
        <5> QED BY <5>1
      <4>2. CASE ~s.thought
        <5>1. ShownSteps(g, n + 1) = ShownSteps(g, n) \cup {n + 1}
          BY <1>2, <4>2 DEF ShownSteps
        <5>2. s.part \notin Prose
          BY <2>2, <4>2, RenderAssumption
        <5> QED BY <5>1, <5>2
      <4> QED BY <4>1, <4>2
    <3> QED BY <3>1, <3>2 DEF Kept, TextKept
  <2> QED BY <2>1, <2>2
<1>5. SqlKept(g, n + 1, p)
  <2> SUFFICES ASSUME \A i \in DataSteps(g, n + 1) : g[i].dataSql # None
               PROVE  \/ \E i \in DataSteps(g, n + 1) :
                           /\ \A j \in DataSteps(g, n + 1) : j <= i
                           /\ p.sql = g[i].dataSql
                      \/ /\ DataSteps(g, n + 1) = {}
                         /\ \E i \in BesideSteps(g, n + 1) :
                              /\ \A j \in BesideSteps(g, n + 1) : i <= j
                              /\ p.sql = g[i].payloadSql
                      \/ /\ DataSteps(g, n + 1) = {} /\ BesideSteps(g, n + 1) = {}
                         /\ p.sql = None
    BY DEF SqlKept
  <2>1. /\ DataSteps(g, n) \subseteq 1 .. n /\ BesideSteps(g, n) \subseteq 1 .. n
        /\ DataSteps(g, n + 1) = DataSteps(g, n) \cup
              (IF s.dataSql # Absent THEN {n + 1} ELSE {})
        /\ BesideSteps(g, n + 1) = BesideSteps(g, n) \cup
              (IF s.payloadSql \notin {Absent, None} THEN {n + 1} ELSE {})
    BY <1>2 DEF DataSteps, BesideSteps
  <2>2. CASE s.dataSql # Absent
    <3>1. n + 1 \in DataSteps(g, n + 1) /\ \A j \in DataSteps(g, n + 1) : j <= n + 1
      BY <2>1, <2>2
    <3>2. p.sql = s.dataSql
      BY <1>3, <2>2, <3>1 DEF AbsorbSql
    <3> QED BY <3>1, <3>2
  <2>3. CASE s.dataSql = Absent
    <3>1. DataSteps(g, n + 1) = DataSteps(g, n)
      BY <2>1, <2>3
    <3>2. p.sql = IF s.payloadSql # Absent /\ o.sql = None THEN s.payloadSql ELSE o.sql
      BY <1>3, <2>3 DEF AbsorbSql
    <3>3. \/ \E i \in DataSteps(g, n) :
                (\A j \in DataSteps(g, n) : j <= i) /\ o.sql = g[i].dataSql
          \/ /\ DataSteps(g, n) = {}
             /\ \E i \in BesideSteps(g, n) :
                  (\A j \in BesideSteps(g, n) : i <= j) /\ o.sql = g[i].payloadSql
          \/ DataSteps(g, n) = {} /\ BesideSteps(g, n) = {} /\ o.sql = None
      BY <3>1 DEF Kept, SqlKept
    <3>4. CASE \E i \in DataSteps(g, n) :
                 (\A j \in DataSteps(g, n) : j <= i) /\ o.sql = g[i].dataSql
      BY <3>1, <3>2, <3>4
    <3>5. CASE /\ DataSteps(g, n) = {}
               /\ \E i \in BesideSteps(g, n) :
                    (\A j \in BesideSteps(g, n) : i <= j) /\ o.sql = g[i].payloadSql
      <4>1. PICK i \in BesideSteps(g, n) :
              (\A j \in BesideSteps(g, n) : i <= j) /\ o.sql = g[i].payloadSql
        BY <3>5
      <4>2. o.sql # None
        BY <4>1 DEF BesideSteps
      <4>3. i \in BesideSteps(g, n + 1) /\ \A j \in BesideSteps(g, n + 1) : i <= j
        BY <2>1, <4>1
      <4> QED BY <3>1, <3>2, <3>5, <4>1, <4>2, <4>3
    <3>6. CASE DataSteps(g, n) = {} /\ BesideSteps(g, n) = {} /\ o.sql = None
      <4>1. CASE s.payloadSql \in {Absent, None}
        BY <2>1, <3>1, <3>2, <3>6, <4>1
      <4>2. CASE s.payloadSql \notin {Absent, None}
        <5>1. BesideSteps(g, n + 1) = {n + 1} /\ p.sql = s.payloadSql
          BY <2>1, <3>2, <3>6, <4>2
        <5> QED BY <3>1, <3>6, <5>1
      <4> QED BY <4>1, <4>2
    <3> QED BY <3>3, <3>4, <3>5, <3>6
  <2> QED BY <2>2, <2>3
<1>6. TableKept(g, n + 1, p)
  BY <1>2, <1>3 DEF Kept, TableKept
<1>7. AnySqlKept(g, n + 1, p)
  <2> SUFFICES ASSUME \A i \in 1 .. n + 1 :
                        {g[i].dataSql, g[i].payloadSql} \subseteq Statement \cup {Absent}
               PROVE  /\ p.sql # EmptySql
                      /\ p.sql = None => \A i \in 1 .. n + 1 :
                            g[i].dataSql = Absent /\ g[i].payloadSql = Absent
    BY DEF AnySqlKept
  <2>1. /\ o.sql # EmptySql
        /\ o.sql = None =>
             \A i \in 1 .. n : g[i].dataSql = Absent /\ g[i].payloadSql = Absent
    BY <1>2 DEF Kept, AnySqlKept
  <2>2. /\ s.dataSql \in Statement \cup {Absent} /\ s.payloadSql \in Statement \cup {Absent}
        /\ \A x \in Statement : x # None /\ x # EmptySql
    BY <1>2, RenderAssumption
  <2>3. /\ p.sql # EmptySql
        /\ p.sql = None => o.sql = None /\ s.dataSql = Absent /\ s.payloadSql = Absent
    BY <1>3, <2>1, <2>2 DEF AbsorbSql
  <2> QED BY <1>2, <2>1, <2>3
<1>8. HeadersKept(g, n + 1, p)
  BY <1>2, <1>3 DEF Kept, HeadersKept
<1>9. RowsKept(g, n + 1, p)
  BY <1>2, <1>3 DEF Kept, RowsKept
<1>10. TableSqlKept(g, n + 1, p)
  <2> SUFFICES ASSUME \A i \in 1 .. n + 1 :
                        g[i].dataSql = IF g[i].rows = None THEN Absent ELSE g[i].rows,
                      p.rows # None
               PROVE  p.sql = p.rows
    BY DEF TableSqlKept
  <2>1. o.rows = None \/ o.sql = o.rows
    BY <1>2 DEF Kept, TableSqlKept
  <2>2. s.dataSql = IF s.rows = None THEN Absent ELSE s.rows
    BY <1>2
  <2>3. CASE s.rows = None
    BY <1>3, <2>1, <2>2, <2>3 DEF AbsorbSql
  <2>4. CASE s.rows # None
    <3>1. s.rows # Absent
      BY <1>1, <2>4, RenderAssumption DEF ResponseStep
    <3> QED BY <1>3, <2>2, <2>4, <3>1 DEF AbsorbSql
  <2> QED BY <2>3, <2>4
<1> QED BY <1>4, <1>5, <1>6, <1>7, <1>8, <1>9, <1>10 DEF Kept

\* What is shown is kept of the response being read, at every step of its
\* rendering, and nothing remains of one whose rendering failed.
LEMMA RenderSafety == Spec => []RenderInv
<1>1. Init => RenderInv
  BY NothingKept DEF Init, RenderInv
<1>2. AnalyticsInv /\ RenderInv /\ [Next]_vars => RenderInv'
  <2> SUFFICES ASSUME AnalyticsInv, RenderInv, [Next]_vars, NEW c \in Calls
               PROVE  Kept(got[c], read[c], out[c])'
    BY DEF RenderInv
  <2>1. TypeOK /\ CallInv(c) /\ Kept(got[c], read[c], out[c])
    BY DEF AnalyticsInv, RenderInv
  <2>2. CASE UNCHANGED rendering
    BY <2>1, <2>2 DEF rendering
  <2>3. ASSUME NEW d \in Calls, Receive(d) PROVE Kept(got[c], read[c], out[c])'
    <3>1. CASE d = c
      <4>1. read'[c] = 0 /\ out'[c] = Empty
        BY <2>1, <2>3, <3>1 DEF Receive, Answered, CallInv
      <4> QED BY <4>1, NothingKept
    <3>2. CASE d # c
      BY <2>1, <2>3, <3>2 DEF Receive, TypeOK
    <3> QED BY <3>1, <3>2
  <2>4. ASSUME NEW d \in Calls, RenderStep(d) PROVE Kept(got[c], read[c], out[c])'
    <3>1. CASE d = c
      <4>1. /\ got[c] \in Seq(ResponseStep) /\ read[c] \in Nat /\ out[c] \in Output
            /\ read[c] + 1 <= Len(got[c])
        BY <2>1, <2>4, <3>1, AnalyticsAssumption DEF RenderStep, TypeOK
      <4>2. Kept(got[c], read[c] + 1, Absorb(out[c], got[c][read[c] + 1]))
        BY <2>1, <4>1, AbsorbKeeps
      <4> QED BY <2>1, <2>4, <3>1, <4>2 DEF RenderStep, TypeOK
    <3>2. CASE d # c
      BY <2>1, <2>4, <3>2 DEF RenderStep, TypeOK
    <3> QED BY <3>1, <3>2
  <2>5. ASSUME NEW d \in Calls, RenderRaises(d) PROVE Kept(got[c], read[c], out[c])'
    <3>1. CASE d = c
      BY <2>1, <2>5, <3>1, NothingKept DEF RenderRaises, TypeOK
    <3>2. CASE d # c
      BY <2>1, <2>5, <3>2 DEF RenderRaises, TypeOK
    <3> QED BY <3>1, <3>2
  <2> QED BY <2>2, <2>3, <2>4, <2>5 DEF Next, Step, Invoke, PrologueRaises, AuthFails,
               Post, PostRaises, ReceiveFailure, Return, Wake, Discard, vars, rendering
<1> QED BY <1>1, <1>2, AnalyticsSafety, PTL DEF Spec

\* The reply shows all the prose of its response and none of the engine's own
\* talk (analytics_tool.py:142-149), for every response and however often it
\* was asked for.
THEOREM ProseShown == Spec => []OnlyProseShown
<1>1. AnalyticsInv /\ RenderInv => OnlyProseShown
  <2> SUFFICES ASSUME AnalyticsInv, RenderInv, NEW c \in Calls
               PROVE  ToSet(out[c].text)
                        = {s.part : s \in {t \in Steps(c) : ~t.thought}} \cap Prose
    BY DEF OnlyProseShown
  <2>1. ToSet(out[c].text)
          = {got[c][i].part : i \in ShownSteps(got[c], read[c])} \cap Prose
    BY DEF RenderInv, Kept, TextKept
  <2>2. {s.part : s \in {t \in Steps(c) : ~t.thought}}
          = {got[c][i].part : i \in ShownSteps(got[c], read[c])}
    BY DEF Steps, ShownSteps
  <2> QED BY <2>1, <2>2
<1> QED BY <1>1, AnalyticsSafety, RenderSafety, PTL

\* The greatest and the least element, if there is one.
LEMMA ExtremeIsIt ==
    ASSUME NEW S \in SUBSET Int, NEW i \in S
    PROVE  /\ (\A j \in S : j <= i) => Max(S) = i
           /\ (\A j \in S : i <= j) => Min(S) = i
<1>1. ASSUME \A j \in S : j <= i PROVE Max(S) = i
  <2>1. \E m \in S : \A j \in S : m >= j
    BY <1>1
  <2>2. Max(S) \in S /\ \A j \in S : Max(S) >= j
    BY <2>1 DEF Max
  <2>3. Max(S) \in Int /\ i \in Int /\ Max(S) >= i /\ Max(S) <= i
    BY <1>1, <2>2
  <2> QED BY <2>3
<1>2. ASSUME \A j \in S : i <= j PROVE Min(S) = i
  <2>1. \E m \in S : \A j \in S : m <= j
    BY <1>2
  <2>2. Min(S) \in S /\ \A j \in S : Min(S) <= j
    BY <2>1 DEF Min
  <2>3. Min(S) \in Int /\ i \in Int /\ i <= Min(S) /\ Min(S) <= i
    BY <1>2, <2>2
  <2> QED BY <2>3
<1> QED BY <1>1, <1>2

\* The SQL shown is the last one of the data blocks, or the first one beside
\* them if they have none (analytics_tool.py:127-140).
THEOREM SqlShown == Spec => []SqlShownIsLastOfData
<1>1. AnalyticsInv /\ RenderInv => SqlShownIsLastOfData
  <2> SUFFICES ASSUME AnalyticsInv, RenderInv, NEW c \in Calls,
                      \A i \in DataSteps(got[c], read[c]) : got[c][i].dataSql # None
               PROVE  out[c].sql =
                        IF DataSteps(got[c], read[c]) # {}
                        THEN got[c][Max(DataSteps(got[c], read[c]))].dataSql
                        ELSE IF BesideSteps(got[c], read[c]) # {}
                        THEN got[c][Min(BesideSteps(got[c], read[c]))].payloadSql
                        ELSE None
    BY DEF SqlShownIsLastOfData, DataSteps, BesideSteps
  <2> DEFINE data == DataSteps(got[c], read[c])
             beside == BesideSteps(got[c], read[c])
  <2>1. data \subseteq Int /\ beside \subseteq Int
    BY DEF DataSteps, BesideSteps
  <2>2. \/ \E i \in data : (\A j \in data : j <= i) /\ out[c].sql = got[c][i].dataSql
        \/ /\ data = {}
           /\ \E i \in beside :
                (\A j \in beside : i <= j) /\ out[c].sql = got[c][i].payloadSql
        \/ data = {} /\ beside = {} /\ out[c].sql = None
    BY DEF RenderInv, Kept, SqlKept
  <2> HIDE DEF data, beside
  <2>3. \A i \in data : (\A j \in data : j <= i) => Max(data) = i
    BY <2>1, ExtremeIsIt
  <2>4. \A i \in beside : (\A j \in beside : i <= j) => Min(beside) = i
    BY <2>1, ExtremeIsIt
  <2>5. out[c].sql = IF data # {} THEN got[c][Max(data)].dataSql
                     ELSE IF beside # {} THEN got[c][Min(beside)].payloadSql
                     ELSE None
    BY <2>2, <2>3, <2>4
  <2> QED BY <2>5 DEF data, beside
<1> QED BY <1>1, AnalyticsSafety, RenderSafety, PTL

\* The table shown is what the SQL shown retrieved where both came in one data
\* block (analytics_tool.py:127-136): what the doc string of the tool promises
\* holds of these responses, and fails only of those with SQL in other places.
THEOREM TableOfItsSql == Spec => []TableMatchesSqlOfData
<1>1. AnalyticsInv /\ RenderInv => TableMatchesSqlOfData
  BY DEF TableMatchesSqlOfData, RenderInv, Kept, TableKept, TableSqlKept, Steps,
         ShowsTable
<1> QED BY <1>1, AnalyticsSafety, RenderSafety, PTL

\* The notice that nothing was found hides nothing that was
\* (analytics_tool.py:151-160, 243-246).
THEOREM EmptyNotice == Spec => []EmptyHidesNothing
<1>1. AnalyticsInv /\ RenderInv => EmptyHidesNothing
  <2> SUFFICES ASSUME AnalyticsInv, RenderInv, NEW c \in Calls, reply[c] = "empty"
      PROVE
        /\ (\A s \in Steps(c) : {s.dataSql, s.payloadSql} \subseteq Statement \cup {Absent})
            => \A s \in Steps(c) : s.dataSql = Absent /\ s.payloadSql = Absent
        /\ \A s \in Steps(c) : ~s.thought => s.part \notin Prose
        /\ (\A s \in Steps(c) : s.schema # NoFields)
            => \A s \in Steps(c) : s.rows = None \/ s.schema = None
    BY DEF EmptyHidesNothing
  <2>1. Kept(got[c], read[c], out[c]) /\ Blank(out[c])
    BY DEF AnalyticsInv, CallInv, RenderInv
  <2>2. /\ out[c].sql \in {None, EmptySql} /\ out[c].text = <<>>
        /\ out[c].rows = None \/ out[c].headers \in {None, NoFields}
    BY <2>1 DEF Blank, ShowsTable
  <2>3. (\A s \in Steps(c) : {s.dataSql, s.payloadSql} \subseteq Statement \cup {Absent})
          => \A s \in Steps(c) : s.dataSql = Absent /\ s.payloadSql = Absent
    BY <2>1, <2>2 DEF Kept, AnySqlKept, Steps
  <2>4. \A s \in Steps(c) : ~s.thought => s.part \notin Prose
    <3>1. ToSet(out[c].text) = {}
      BY <2>2 DEF ToSet
    <3> QED BY <2>1, <3>1 DEF Kept, TextKept, ShownSteps, Steps
  <2>5. (\A s \in Steps(c) : s.schema # NoFields)
          => \A s \in Steps(c) : s.rows = None \/ s.schema = None
    BY <2>1, <2>2 DEF Kept, HeadersKept, RowsKept, Steps
  <2> QED BY <2>3, <2>4, <2>5
<1> QED BY <1>1, AnalyticsSafety, RenderSafety, PTL

-----------------------------------------------------------------------------
\* Every step of a call counts, for any budget and any response: a failure
\* spends what is left of the attempt, a new attempt is worth four stages, and
\* reading a response is bounded by its length.
THEOREM StepsCount == Spec => EveryStepCounts
<1>1. AnalyticsInv /\ [Next]_vars =>
        [\A c \in Calls : pc[c] \in {"auth", "waiting", "rendering", "backoff"} =>
            \/ UNCHANGED <<pc[c], attempt[c], read[c]>>
            \/ StagesLeft(c)' \in 0 .. StagesLeft(c) - 1
            \/ StagesLeft(c)' = StagesLeft(c) /\ Unread(c)' \in 0 .. Unread(c) - 1]_vars
  <2> SUFFICES ASSUME AnalyticsInv, [Next]_vars, NEW c \in Calls,
                      pc[c] \in {"auth", "waiting", "rendering", "backoff"}
               PROVE  \/ /\ pc'[c] = pc[c] /\ attempt'[c] = attempt[c]
                         /\ read'[c] = read[c]
                      \/ StagesLeft(c)' \in 0 .. StagesLeft(c) - 1
                      \/ StagesLeft(c)' = StagesLeft(c) /\ Unread(c)' \in 0 .. Unread(c) - 1
    OBVIOUS
  <2> DEFINE later == 4 * (MaxRetries - attempt[c])
  <2>1. TypeOK /\ CallInv(c)
    BY DEF AnalyticsInv
  <2>2. attempt[c] \in Nat /\ attempt[c] <= MaxRetries /\ MaxRetries \in Nat /\ later \in Nat
    BY <2>1, AnalyticsAssumption DEF TypeOK
  <2>3. /\ pc[c] = "auth" => StagesLeft(c) = later + 3
        /\ pc[c] = "waiting" => StagesLeft(c) = later + 2
        /\ pc[c] = "rendering" => StagesLeft(c) = later + 1
        /\ pc[c] = "backoff" => StagesLeft(c) = later
    BY DEF StagesLeft
  <2>4. CASE UNCHANGED vars
    BY <2>4 DEF vars, rendering
  <2>5. ASSUME NEW d \in Calls, d # c,
               Invoke(d) \/ PrologueRaises(d) \/ Step(d) \/ Discard(d)
        PROVE  pc'[c] = pc[c] /\ attempt'[c] = attempt[c] /\ read'[c] = read[c]
    BY <2>1, <2>5 DEF TypeOK, Invoke, PrologueRaises, Step, AuthFails, Post, PostRaises,
               ReceiveFailure, Receive, RenderStep, RenderRaises, Return, Wake, Discard,
               Fails, Answered, rendering
  <2>6. CASE Invoke(c) \/ PrologueRaises(c) \/ Discard(c)
    BY <2>6 DEF Invoke, PrologueRaises, Discard, rendering
  <2>7. ASSUME pc[c] # "backoff", Fails(c)
        PROVE  StagesLeft(c)' \in 0 .. StagesLeft(c) - 1
    <3>1. attempt'[c] = attempt[c] /\ pc'[c] \in {"backoff", "done"}
      BY <2>1, <2>7 DEF Fails, TypeOK
    <3>2. StagesLeft(c)' \in {later, 0}
      BY <3>1 DEF StagesLeft
    <3> QED BY <2>2, <2>3, <2>7, <3>2
  <2>8. CASE AuthFails(c) \/ PostRaises(c) \/ ReceiveFailure(c) \/ RenderRaises(c)
    BY <2>7, <2>8 DEF AuthFails, PostRaises, ReceiveFailure, RenderRaises, Answered
  <2>9. CASE Post(c)
    <3>1. pc[c] = "auth" /\ pc'[c] = "waiting" /\ attempt'[c] = attempt[c]
      BY <2>1, <2>9 DEF Post, TypeOK
    <3>2. StagesLeft(c)' = later + 2
      BY <3>1 DEF StagesLeft
    <3> QED BY <2>2, <2>3, <3>1, <3>2
  <2>10. CASE Receive(c)
    <3>1. pc[c] = "waiting" /\ pc'[c] = "rendering" /\ attempt'[c] = attempt[c]
      BY <2>1, <2>10 DEF Receive, Answered, TypeOK
    <3>2. StagesLeft(c)' = later + 1
      BY <3>1 DEF StagesLeft
    <3> QED BY <2>2, <2>3, <3>1, <3>2
  <2>11. CASE RenderStep(c)
    <3>1. /\ pc'[c] = pc[c] /\ attempt'[c] = attempt[c]
          /\ got'[c] = got[c] /\ read'[c] = read[c] + 1 /\ read[c] < Len(got[c])
      BY <2>1, <2>11 DEF RenderStep, TypeOK
    <3>2. StagesLeft(c)' = StagesLeft(c)
      BY <3>1 DEF StagesLeft
    <3>3. Unread(c) = Len(got[c]) - read[c] /\ Unread(c)' = Len(got[c]) - (read[c] + 1)
      BY <3>1 DEF Unread
    <3>4. Len(got[c]) \in Nat /\ read[c] \in Nat
      BY <2>1, AnalyticsAssumption DEF TypeOK
    <3>5. Unread(c)' \in 0 .. Unread(c) - 1
      BY <3>1, <3>3, <3>4
    <3> QED BY <3>2, <3>5
  <2>12. CASE Return(c)
    <3>1. pc[c] = "rendering" /\ pc'[c] = "done"
      BY <2>1, <2>12 DEF Return, TypeOK
    <3>2. StagesLeft(c)' = 0
      BY <3>1 DEF StagesLeft
    <3> QED BY <2>2, <2>3, <3>1, <3>2
  <2>13. CASE Wake(c)
    <3>1. /\ pc[c] = "backoff" /\ pc'[c] = "auth" /\ attempt'[c] = attempt[c] + 1
          /\ attempt[c] < MaxRetries
      BY <2>1, <2>13 DEF Wake, TypeOK, CallInv
    <3>2. StagesLeft(c)' = 4 * (MaxRetries - (attempt[c] + 1)) + 3
      BY <3>1 DEF StagesLeft
    <3> QED BY <2>2, <2>3, <3>1, <3>2
  <2> QED BY <2>4, <2>5, <2>6, <2>8, <2>9, <2>10, <2>11, <2>12, <2>13 DEF Next, Step
<1> QED BY <1>1, AnalyticsSafety, PTL DEF Spec, EveryStepCounts

-----------------------------------------------------------------------------
\* A step of one call changes the retry phase of that call only.
LEMMA PhaseStep ==
    ASSUME NEW c \in Calls,
           \A d \in Calls \ {c} : pc'[d] = pc[d] /\ reply'[d] = reply[d]
    PROVE  LoopPhase' = [LoopPhase EXCEPT ![c] = PhaseOf(pc'[c], reply'[c])]
<1>1. LoopPhase' = [d \in Calls |-> PhaseOf(pc'[d], reply'[d])]
  BY DEF LoopPhase
<1> QED BY <1>1 DEF LoopPhase

\* The places of the code in the retry discipline's terms.
LEMMA PhaseFacts ==
    /\ \A k : PhaseOf("idle", k) = "idle" /\ PhaseOf("raised", k) = "raised"
    /\ \A k : \A p \in {"auth", "waiting", "rendering"} : PhaseOf(p, k) = "trying"
    /\ \A k : PhaseOf("backoff", k) = "sleeping"
    /\ \A k : k # "unavailable" => PhaseOf("done", k) = "answered"
    /\ PhaseOf("done", "unavailable") = "exhausted"
BY DEF PhaseOf

\* A failed attempt, wherever it fails, is a failed attempt of the discipline.
LEMMA FailsIsFail ==
    ASSUME AnalyticsInv, NEW c \in Calls, Fails(c),
           pc[c] \in {"auth", "waiting", "rendering"}
    PROVE  Retry!Fail(c) \/ Retry!Exhaust(c)
<1>1. /\ pc \in [Calls -> PC] /\ reply \in [Calls -> Kind]
      /\ LoopPhase[c] = "trying"
  BY PhaseFacts DEF AnalyticsInv, TypeOK, LoopPhase
<1>2. CASE /\ attempt[c] < MaxRetries
           /\ pc' = [pc EXCEPT ![c] = "backoff"]
           /\ naps' = [naps EXCEPT ![c] = Append(@, Delay(attempt[c]))]
           /\ UNCHANGED <<attempt, reply>>
  <2>1. /\ pc'[c] = "backoff"
        /\ \A d \in Calls \ {c} : pc'[d] = pc[d] /\ reply'[d] = reply[d]
    BY <1>1, <1>2
  <2>2. LoopPhase' = [LoopPhase EXCEPT ![c] = "sleeping"]
    BY <2>1, PhaseStep, PhaseFacts
  <2>3. Retry!Delay(attempt[c]) = Delay(attempt[c])
    BY DEF Retry!Delay, Delay
  <2> QED BY <1>1, <1>2, <2>2, <2>3 DEF Retry!Fail
<1>3. CASE /\ attempt[c] = MaxRetries
           /\ pc' = [pc EXCEPT ![c] = "done"]
           /\ reply' = [reply EXCEPT ![c] = "unavailable"]
           /\ UNCHANGED <<attempt, naps>>
  <2>1. /\ pc'[c] = "done" /\ reply'[c] = "unavailable"
        /\ \A d \in Calls \ {c} : pc'[d] = pc[d] /\ reply'[d] = reply[d]
    BY <1>1, <1>3
  <2>2. LoopPhase' = [LoopPhase EXCEPT ![c] = "exhausted"]
    BY <2>1, PhaseStep, PhaseFacts
  <2> QED BY <1>1, <1>3, <2>2 DEF Retry!Exhaust
<1> QED BY <1>2, <1>3, FailsCases

\* Retry discipline: authentication, POST and rendering are one attempt of
\* BoundedRetry, for every budget and every response.
THEOREM AnalyticsImplementsRetry == Spec => ImplementsRetry
<1> USE DEF Retry!vars
<1>1. Init => Retry!Init
  BY PhaseFacts DEF Init, Retry!Init, LoopPhase
<1>2. AnalyticsInv /\ [Next]_vars => [Retry!Next]_(Retry!vars)
  <2> SUFFICES ASSUME AnalyticsInv, [Next]_vars
               PROVE  Retry!Next \/ UNCHANGED Retry!vars
    OBVIOUS
  <2>1. /\ pc \in [Calls -> PC] /\ reply \in [Calls -> Kind]
        /\ \A c \in Calls : LoopPhase[c] = PhaseOf(pc[c], reply[c])
    BY DEF AnalyticsInv, TypeOK, LoopPhase
  <2>2. ASSUME NEW c \in Calls, Invoke(c) PROVE Retry!Start(c)
    <3>1. /\ pc'[c] = "auth"
          /\ \A d \in Calls \ {c} : pc'[d] = pc[d] /\ reply'[d] = reply[d]
      BY <2>1, <2>2 DEF Invoke
    <3>2. LoopPhase' = [LoopPhase EXCEPT ![c] = "trying"]
      BY <3>1, PhaseStep, PhaseFacts
    <3> QED BY <2>1, <2>2, <3>2, PhaseFacts DEF Invoke, Retry!Start
  <2>3. ASSUME NEW c \in Calls, PrologueRaises(c) PROVE Retry!Abort(c)
    <3>1. /\ pc'[c] = "raised"
          /\ \A d \in Calls \ {c} : pc'[d] = pc[d] /\ reply'[d] = reply[d]
      BY <2>1, <2>3 DEF PrologueRaises
    <3>2. LoopPhase' = [LoopPhase EXCEPT ![c] = "raised"]
      BY <3>1, PhaseStep, PhaseFacts
    <3> QED BY <2>1, <2>3, <3>2, PhaseFacts DEF PrologueRaises, Retry!Abort
  <2>4. ASSUME NEW c \in Calls,
               \/ AuthFails(c) \/ PostRaises(c)
               \/ ReceiveFailure(c) \/ RenderRaises(c)
        PROVE  Retry!Fail(c) \/ Retry!Exhaust(c)
    BY <2>4, FailsIsFail DEF AuthFails, PostRaises, ReceiveFailure, RenderRaises, Answered
  <2>5. ASSUME NEW c \in Calls, Return(c) PROVE Retry!Succeed(c)
    <3>1. /\ pc[c] = "rendering" /\ pc'[c] = "done" /\ reply'[c] # "unavailable"
          /\ \A d \in Calls \ {c} : pc'[d] = pc[d] /\ reply'[d] = reply[d]
      BY <2>1, <2>5 DEF Return
    <3>2. LoopPhase' = [LoopPhase EXCEPT ![c] = "answered"]
      BY <3>1, PhaseStep, PhaseFacts
    <3> QED BY <2>1, <2>5, <3>1, <3>2, PhaseFacts DEF Return, Retry!Succeed
  <2>6. ASSUME NEW c \in Calls, Wake(c) PROVE Retry!Wake(c)
    <3>1. /\ pc'[c] = "auth"
          /\ \A d \in Calls \ {c} : pc'[d] = pc[d] /\ reply'[d] = reply[d]
      BY <2>1, <2>6 DEF Wake
    <3>2. LoopPhase' = [LoopPhase EXCEPT ![c] = "trying"]
      BY <3>1, PhaseStep, PhaseFacts
    <3> QED BY <2>1, <2>6, <3>2, PhaseFacts DEF Wake, Retry!Wake
  <2>7. ASSUME NEW c \in Calls, Post(c) \/ Receive(c) \/ RenderStep(c)
        PROVE  UNCHANGED Retry!vars
    <3>1. \A d \in Calls : PhaseOf(pc'[d], reply'[d]) = PhaseOf(pc[d], reply[d])
      BY <2>1, <2>7, PhaseFacts DEF Post, Receive, Answered, RenderStep
    <3> QED BY <2>7, <3>1 DEF Post, Receive, RenderStep, LoopPhase
  <2>8. ASSUME NEW c \in Calls, Discard(c) PROVE UNCHANGED Retry!vars
    BY <2>8 DEF Discard, LoopPhase
  <2>9. CASE UNCHANGED vars
    BY <2>9 DEF vars, LoopPhase
  <2> QED BY <2>2, <2>3, <2>4, <2>5, <2>6, <2>7, <2>8, <2>9 DEF Next, Step, Retry!Next
<1> QED BY <1>1, <1>2, AnalyticsSafety, PTL DEF Spec, ImplementsRetry, Retry!Spec

\* What is proved of the loop on its own (BoundedRetryProofs), for the loop of
\* this tool.
Loop == INSTANCE BoundedRetryProofs WITH phase <- LoopPhase

\* The delays of a call are 2, 4, 8, ..., one per failed attempt that another
\* one follows, and a call that gives up has spent its budget and slept nothing
\* after it (analytics_tool.py:229, :240, :257).
THEOREM AnalyticsBackoff == Spec => []Retry!RetryInv
<1>1. Retry!Spec => []Loop!RetryInv
  <2>1. MaxRetries \in Nat \ {0}
    BY AnalyticsAssumption
  <2>2. Retry!Init <=> Loop!Init
    BY DEF Retry!Init, Loop!Init
  <2>3. [Retry!Next]_(Retry!vars) <=> [Loop!Next]_(Loop!vars)
    BY DEF Retry!Next, Loop!Next, Retry!vars, Loop!vars,
           Retry!Start, Loop!Start, Retry!Abort, Loop!Abort,
           Retry!Succeed, Loop!Succeed, Retry!Fail, Loop!Fail, Retry!Wake, Loop!Wake,
           Retry!Exhaust, Loop!Exhaust, Retry!Delay, Loop!Delay
  <2>4. Loop!Spec => []Loop!RetryInv
    BY <2>1, Loop!RetrySafety
  <2> QED BY <2>2, <2>3, <2>4, PTL DEF Retry!Spec, Loop!Spec
<1>2. Loop!RetryInv <=> Retry!RetryInv
  BY DEF Loop!RetryInv, Retry!RetryInv, Loop!TypeOK, Retry!TypeOK,
         Loop!NapsMatchAttempts, Retry!NapsMatchAttempts, Loop!NapsOf, Retry!NapsOf,
         Loop!Phase, Retry!Phase, Loop!Delays, Retry!Delays, Loop!Delay, Retry!Delay
<1> QED BY <1>1, <1>2, AnalyticsImplementsRetry, PTL DEF ImplementsRetry
=============================================================================
