------------------------------ MODULE Dossier ------------------------------
(***************************************************************************)
(* How much of a deep run's dossier and of its final message fits one tool *)
(* result (_deep_report, _with_deep_report), and the footer that           *)
(* get_delegate_result puts below them.  A text is its length.  The fixed  *)
(* phrases around the pieces, with the path in them, are constants: the    *)
(* code counts the separator and the note of a cut message, leaves room    *)
(* for the phrases of the dossier and does not count the footer.           *)
(***************************************************************************)
EXTENDS Naturals

CONSTANTS
  ReportMax,   \* DEEP_REPORT_MAX_CHARS
  Extra,       \* what DEEP_RESULT_MAX_CHARS adds to it
  IndexMax,    \* DEEP_INDEX_MAX_CHARS
  Reserve,     \* the 400 chars kept for the frame of a cut dossier
  MoreNote,    \* "... n more headings"
  Header,      \* "=== DOSSIER path ==="
  Frame,       \* the phrases around a cut dossier
  Notice,      \* "the dossier path was NOT written", or is empty
  Separator,   \* "=== FINAL MESSAGE ==="
  CutNote,     \* "final message cut to its last n chars"
  Footer,      \* "-- native agent id ..., session ..., state ..."
  MaxText      \* a bound on the lengths ResultsFit tries

ASSUME LengthAssumption ==
  {ReportMax, Extra, IndexMax, Reserve, MoreNote, Header, Frame, Notice, Separator, CutNote,
   Footer, MaxText}
    \subseteq Nat

\* DEEP_REPORT_MAX_CHARS has a minimum of 4000, which is IndexMax; a path may take
\* what 8000 chars leave it.
ASSUME RoomAssumption ==
  /\ IndexMax <= ReportMax
  /\ Notice <= ReportMax
  /\ Header + Separator + CutNote <= Extra
  /\ Frame + MoreNote + Separator + CutNote <= Extra

ResultMax == ReportMax + Extra

\* Subtraction that stops at 0: max(0, a - b).
Left(a, b) == IF b <= a THEN a - b ELSE 0

Least(a, b) == IF a <= b THEN a ELSE b

\* The index of a cut dossier, of the headings' length and whether some are left out.
Index(headings, more) == Least(headings, IndexMax) + (IF more THEN MoreNote ELSE 0)

HeadLen(index) == Left(ReportMax, index + Reserve)

\* What is returned of a dossier that was not written or is blank (length 0), of one
\* that fits, and of one that does not.
Report(length, headings, more) ==
  IF length = 0 THEN Notice
  ELSE IF length <= ReportMax THEN Header + length
  ELSE LET index == Index(headings, more) IN Frame + HeadLen(index) + index

\* Mutant: the note's own length is forgotten.
MessageAndNote(report, body) ==
  LET room == Left(ResultMax, report + Separator)
  IN  IF body <= room THEN body ELSE CutNote + Least(body, room)

\* The end of the final message, in what the report leaves of the result.
Message(report, body) ==
  LET room == Left(ResultMax, report + Separator)
  IN  IF body <= room THEN body ELSE CutNote + Least(body, Left(room, CutNote))

\* _with_deep_report, which is what the budget is for.
WithReport(report, body) == report + Separator + Message(report, body)

\* What get_delegate_result returns.
Result(report, body) == WithReport(report, body) + Footer

\* Whatever a run wrote, dossier and final message fit the budget, and the result
\* exceeds it by the footer at most.
ResultsFit ==
  \A length, headings, body \in 0..MaxText, more \in BOOLEAN :
    LET report == Report(length, headings, more)
    IN  /\ WithReport(report, body) <= ResultMax
        /\ Result(report, body) <= ResultMax + Footer
=============================================================================
