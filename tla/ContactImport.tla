--------------------------- MODULE ContactImport ---------------------------
(***************************************************************************)
(* The import of contacts from a CSV text (server/contacts.ts): parseCsv,  *)
(* and which rows become contacts.  Characters that play no part in the    *)
(* syntax are alike; the limits of 1 MB and 1000 rows, and the columns of  *)
(* the header, are left out.                                               *)
(***************************************************************************)
EXTENDS Naturals, Sequences, SequencesExt

CONSTANTS
  Cells,      \* cells of the tables that are written and read again
  Phones,     \* normalized phones
  Refused,    \* a cell that is no phone
  MaxTable    \* bound on the rows of a table, and on the cells of a row

Comma == ","
Quote == "\""
LF == "\n"
CR == "\r"
Space == " "

ASSUME ImportAssumption == Refused \notin Phones /\ MaxTable \in Nat \ {0}

-----------------------------------------------------------------------------
(* parseCsv() *)

Unread == [rows |-> <<>>, row |-> <<>>, field |-> <<>>,
          quoted |-> FALSE, closedQuote |-> FALSE, skip |-> FALSE, malformed |-> FALSE]

Adds(state, char) == [state EXCEPT !.field = Append(@, char)]
EndField(state) ==
  [state EXCEPT !.row = Append(@, state.field), !.field = <<>>, !.closedQuote = FALSE]
Blank(row) == \A i \in DOMAIN row : \A k \in DOMAIN row[i] : row[i][k] \in {LF, CR, Space}
\* A row is kept unless all its cells are blank.
EndRow(state) ==
  LET row == EndField(state).row IN
  [state EXCEPT !.rows = IF Blank(row) THEN @ ELSE Append(@, row),
                !.row = <<>>, !.field = <<>>, !.closedQuote = FALSE]

Quoted(state, char, following) ==
  IF char # Quote THEN Adds(state, char)
  ELSE IF following = Quote THEN [Adds(state, Quote) EXCEPT !.skip = TRUE]
  ELSE [state EXCEPT !.quoted = FALSE, !.closedQuote = TRUE]

Unquoted(state, char, following) ==
  IF char = Comma THEN EndField(state)
  ELSE IF char \in {LF, CR} THEN [EndRow(state) EXCEPT !.skip = (char = CR /\ following = LF)]
  ELSE IF char = Quote /\ state.field = <<>> /\ ~state.closedQuote THEN [state EXCEPT !.quoted = TRUE]
  ELSE IF char = Quote \/ state.closedQuote THEN [state EXCEPT !.malformed = TRUE]
  ELSE Adds(state, char)

Reads(text, state, i) ==
  LET following == IF i < Len(text) THEN text[i + 1] ELSE Space IN
  IF state.malformed THEN state
  ELSE IF state.skip THEN [state EXCEPT !.skip = FALSE]
  ELSE IF state.quoted THEN Quoted(state, text[i], following)
  ELSE Unquoted(state, text[i], following)

\* The rows of a text, or that it is malformed.
ParseCsv(text) ==
  LET last == FoldLeft(LAMBDA state, i : Reads(text, state, i), Unread, [i \in DOMAIN text |-> i])
      over == IF last.field # <<>> \/ last.row # <<>> \/ last.closedQuote THEN EndRow(last) ELSE last IN
  [rows |-> over.rows, malformed |-> last.malformed \/ last.quoted]

-----------------------------------------------------------------------------
(* previewContacts(), importContacts() *)

\* A row whose phone is refused rejects the whole text; one whose phone is known, from the
\* store or from an earlier row, is a duplicate.
Fresh(known, earlier, phone) == phone \notin known /\ phone \notin ToSet(earlier)

Preview(known, phones) ==
  [rejected |-> Refused \in ToSet(phones),
   imported |-> FoldLeft(LAMBDA earlier, phone :
                           IF Fresh(known, earlier, phone) THEN Append(earlier, phone) ELSE earlier,
                         <<>>, phones)]

\* saveContacts() stores all of them or none.
Imported(known, phones) ==
  LET preview == Preview(known, phones) IN
  IF preview.rejected THEN known ELSE known \cup ToSet(preview.imported)

-----------------------------------------------------------------------------
(* Properties of the two functions, over bounded inputs. *)

NeedsQuotes(cell) == \E i \in DOMAIN cell : cell[i] \in {Comma, Quote, LF, CR}
Doubled(cell) == FlattenSeq([i \in DOMAIN cell |-> IF cell[i] = Quote THEN <<Quote, Quote>> ELSE <<cell[i]>>])
Written(cell, always) ==
  IF always \/ NeedsQuotes(cell) THEN <<Quote>> \o Doubled(cell) \o <<Quote>> ELSE cell
WrittenRow(row, always) ==
  FlattenSeq([i \in DOMAIN row |-> IF i = 1 THEN Written(row[i], always)
                                   ELSE <<Comma>> \o Written(row[i], always)])
Rows == BoundedSeq(Cells, MaxTable) \ {<<>>}
Tables == BoundedSeq(Rows, MaxTable)
CsvOf(table, always, lineEnd, lastEnds) ==
  FlattenSeq([i \in DOMAIN table |->
    WrittenRow(table[i], always) \o (IF i < Len(table) \/ lastEnds THEN lineEnd ELSE <<>>)])

\* What a spreadsheet writes is read back cell by cell, whatever the cells hold and however
\* its lines end; only blank rows are dropped.  (parseCsv)
ReadsAsWritten ==
  \A table \in Tables : \A always \in BOOLEAN : \A lastEnds \in BOOLEAN :
    \A lineEnd \in {<<LF>>, <<CR, LF>>, <<CR>>} :
      ParseCsv(CsvOf(table, always, lineEnd, lastEnds)) =
        [rows |-> SelectSeq(table, LAMBDA row : ~Blank(row)), malformed |-> FALSE]

\* An import never gives a phone a second contact, and leaves out none: after it exactly the
\* phones of the text are known besides those of before, and the same text again imports
\* nothing; a text with a refused row changes nothing.  (importContacts)
ImportsOnce ==
  \A known \in SUBSET Phones : \A phones \in BoundedSeq(Phones \cup {Refused}, MaxTable + 1) :
    LET preview == Preview(known, phones)
        after == Imported(known, phones) IN
    IF Refused \in ToSet(phones) THEN after = known
    ELSE /\ after = known \cup ToSet(phones)
         /\ IsInjective(preview.imported)
         /\ Preview(after, phones).imported = <<>>
=============================================================================
