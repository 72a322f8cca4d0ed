-------------------------- MODULE DataAgentRender --------------------------
(***************************************************************************)
(* _render_data_agent_response: one pass over the steps of a Data Agent    *)
(* response that keeps the SQL, the column headers, the rows and the prose *)
(* to show.  A response may be about several statements, so the SQL, the   *)
(* headers and the rows are each represented by the statement they belong  *)
(* to; the two envelopes (native `data`, REST `systemMessage`) differ in   *)
(* where the SQL is: in the data block or beside it.  A text block of      *)
(* several parts, which are treated alike, is as many steps.               *)
(***************************************************************************)
EXTENDS SequencesExt

CONSTANTS
    Statement,   \* the SQL statements a response may be about
    Prose,       \* text parts meant for the user
    Chatter,     \* text parts that begin with one of _ENGINE_LOG_PREFIXES
    None,        \* null; of rows and schema also an absent or empty one
    Absent,      \* there is no generatedSql key
    EmptySql,    \* the empty string as SQL
    NoFields     \* a schema without fields

ASSUME RenderAssumption ==
    /\ Prose \cap Chatter = {} /\ None \notin Prose \cup Chatter
    /\ {None, Absent, EmptySql, NoFields} \cap Statement = {}
    /\ None \notin {Absent, EmptySql, NoFields}
    /\ Absent \notin {EmptySql, NoFields} /\ EmptySql # NoFields

\* One step, with its keys normalised: the data block's SQL, the payload's own
\* SQL, the schema, the rows and a part of the text block.
ResponseStep ==
    [dataSql : Statement \cup {Absent, None, EmptySql},
     payloadSql : Statement \cup {Absent, None, EmptySql},
     schema : Statement \cup {None, NoFields},
     rows : Statement \cup {None},
     thought : BOOLEAN,
     part : Prose \cup Chatter \cup {None}]

\* generated_sql, data_headers, data_rows and final_text.
Output ==
    [sql : Statement \cup {None, EmptySql},
     headers : Statement \cup {None, NoFields},
     rows : Statement \cup {None},
     text : Seq(Prose)]

Empty == [sql |-> None, headers |-> None, rows |-> None, text |-> <<>>]

\* Mutant of AbsorbSql: the `generated_sql is None` of the second key is gone.
AbsorbLastSql(sql, step) ==
    IF step.payloadSql # Absent THEN step.payloadSql
    ELSE IF step.dataSql # Absent THEN step.dataSql ELSE sql

\* The SQL after a step: a data block that has the key overwrites it, even
\* with null; the key beside the data block counts only while there is none.
AbsorbSql(sql, step) ==
    LET inData == IF step.dataSql # Absent THEN step.dataSql ELSE sql
    IN  IF step.payloadSql # Absent /\ inData = None THEN step.payloadSql ELSE inData

\* Mutant of Absorb: THOUGHT blocks are not skipped.
AbsorbThoughts(acc, step) ==
    [sql |-> AbsorbSql(acc.sql, step),
     headers |-> IF step.schema # None THEN step.schema ELSE acc.headers,
     rows |-> IF step.rows # None THEN step.rows ELSE acc.rows,
     text |-> IF step.part \notin Chatter \cup {None}
              THEN Append(acc.text, step.part)
              ELSE acc.text]

\* Mutant of Absorb: the first rows win, the last headers do.
AbsorbFirstRows(acc, step) ==
    [AbsorbThoughts(acc, step) EXCEPT
        !.rows = IF acc.rows = None THEN step.rows ELSE acc.rows]

\* The body of the loop over the steps.
Absorb(acc, step) ==
    [sql |-> AbsorbSql(acc.sql, step),
     headers |-> IF step.schema # None THEN step.schema ELSE acc.headers,
     rows |-> IF step.rows # None THEN step.rows ELSE acc.rows,
     text |-> IF ~step.thought /\ step.part \notin Chatter \cup {None}
              THEN Append(acc.text, step.part)
              ELSE acc.text]

\* The data table is shown only with both its rows and its headers.
ShowsTable(acc) == acc.rows # None /\ acc.headers \notin {None, NoFields}

\* Mutant of Blank: a response of SQL alone counts as empty.
BlankBesidesSql(acc) == ~ShowsTable(acc) /\ acc.text = <<>>

\* `if not rendered`: no section was put out.
Blank(acc) == acc.sql \in {None, EmptySql} /\ ~ShowsTable(acc) /\ acc.text = <<>>
=============================================================================
