----------------------------- MODULE TextScreen -----------------------------
(***************************************************************************)
(* What the screen promises: each terminal has a page of text of its own.  *)
(* Characters go to the end of its last line, a new line follows the last, *)
(* the oldest line leaves when there are more than fit, erasing takes the  *)
(* last character away, and a terminal that is left and visited again      *)
(* shows the text it had.                                                  *)
(***************************************************************************)
EXTENDS Sequences, Integers

CONSTANTS Terms, Rows, Glyphs, TabWidth

VARIABLES
  at,     \* the terminal displayed
  text    \* per terminal its lines; the last one is being written

vars == <<at, text>>

Lines == text[at]
Show(lines) == text' = [text EXCEPT ![at] = lines] /\ UNCHANGED at

Last(lines) == lines[Len(lines)]
\* Blanks at the end of a line cannot be seen.
Nonblank(l) == {i \in 1 .. Len(l) : l[i] # "blank"}
Trim(l) == SubSeq(l, 1, CHOOSE n \in 0 .. Len(l) :
                         /\ n = 0 \/ n \in Nonblank(l)
                         /\ \A i \in Nonblank(l) : i <= n)
Ended(lines) == Append([lines EXCEPT ![Len(lines)] = Trim(@)], <<>>)

Init ==
  /\ at = 0
  /\ text = [t \in Terms |-> <<<<>>>>]

\* A line that does not fit becomes visible with its first character.
Room(lines) == IF Len(lines) > Rows THEN Tail(lines) ELSE lines
With(lines, s) == [lines EXCEPT ![Len(lines)] = @ \o s]

Type ==
  \/ \E g \in Glyphs : Show(With(Room(Lines), <<g>>))
  \/ Show(With(Room(Lines), [i \in 1 .. TabWidth |-> "blank"]))

NewLine ==
  \/ Len(Lines) <= Rows /\ Show(Ended(Lines))
  \/ Len(Lines) = Rows /\ Show(Tail(Ended(Lines)))

Erase ==
  \E n \in {1, TabWidth} :
    /\ Len(Last(Lines)) >= n
    /\ Show([Lines EXCEPT ![Len(Lines)] = SubSeq(@, 1, Len(@) - n)])

Clear == Show(<<<<>>>>)

Visit ==
  /\ at' \in Terms \ {at}
  /\ UNCHANGED text

Next == Type \/ NewLine \/ Erase \/ Clear \/ Visit

Spec == Init /\ [][Next]_vars
=============================================================================
