-------------------------- MODULE MCAnalyticsTool --------------------------
(***************************************************************************)
(* Small instances of AnalyticsTool.  A response is about up to two        *)
(* statements, the second a correction of the first, and ends in text.     *)
(***************************************************************************)
EXTENDS AnalyticsTool

Plain == [dataSql |-> Absent, payloadSql |-> Absent, schema |-> None, rows |-> None,
          thought |-> FALSE, part |-> None]

\* A statement's SQL in either envelope, there but null or empty, or absent.
SqlSteps(n) ==
    {<<>>} \cup {<<[Plain EXCEPT !.dataSql = v]>> : v \in {n, None, EmptySql}}
           \cup {<<[Plain EXCEPT !.payloadSql = v]>> : v \in {n, None, EmptySql}}

\* Its result: a table, with the SQL in the same block or without, a table
\* without rows, rows without a schema or with one that has no fields, or nothing.
DataSteps(n) ==
    {<<>>, <<[Plain EXCEPT !.schema = n, !.rows = n]>>,
     <<[Plain EXCEPT !.dataSql = n, !.schema = n, !.rows = n]>>,
     <<[Plain EXCEPT !.schema = n]>>, <<[Plain EXCEPT !.rows = n]>>,
     <<[Plain EXCEPT !.schema = NoFields, !.rows = n]>>}

Text(thought, part) == <<[Plain EXCEPT !.thought = thought, !.part = part]>>

TextSteps ==
    {<<>>, Text(TRUE, "answer"), Text(FALSE, "chatter"),
     Text(FALSE, "chatter") \o Text(FALSE, "answer"),
     Text(TRUE, "other") \o Text(FALSE, "answer") \o Text(FALSE, "other")}

\* Every shape of one or two statements, with and without text.
Shapes ==
    {s1 \o d1 \o s2 \o d2 \o t :
        s1 \in SqlSteps(1), d1 \in DataSteps(1),
        s2 \in SqlSteps(2), d2 \in DataSteps(2), t \in TextSteps}

\* By name, which lets TLC evaluate it once.
RenderResponse == Shapes
=============================================================================
