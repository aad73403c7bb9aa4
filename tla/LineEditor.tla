----------------------------- MODULE LineEditor -----------------------------
(***************************************************************************)
(* The line a user types in a session: controller/schronu/interactive.rs.  *)
(* The cursor is counted in characters, the terminal's in columns, and a   *)
(* character takes none, one or two of them.  Some keys draw the line      *)
(* again and others only move the terminal's cursor by a width, so that    *)
(* the two must be kept together key by key.  What the session answers to  *)
(* its events is InteractiveShell's; here any of the answers may come.     *)
(* Lines longer than the terminal is wide are left out.                    *)
(***************************************************************************)
EXTENDS Integers, SequencesExt

CONSTANTS
    Chars,       \* characters that can be typed
    Width,       \* the columns each takes on the screen: 0, 1 or 2
    MaxLength    \* bound: no more characters than that in a line

VARIABLES
    line,        \* the characters typed
    cursor,      \* cursor_x: how many of them are before the cursor
    column,      \* where the terminal's cursor is
    over         \* the loop has ended

vars == <<line, cursor, column, over>>

Header == 9      \* "schronu> "

Columns(s) == FoldLeft(LAMBDA sum, c : sum + Width[c], 0, s)
WidthForRerender(l, c) == Header + Columns(SubSeq(l, 1, c))

BackwardWidth(l, c) == IF l = << >> \/ c = 0 THEN 0 ELSE Width[l[c]]
ForwardWidth(l, c) == IF c < Len(l) THEN Width[l[c + 1]] ELSE 0

\* The line as it is now and the cursor in it, drawn anew.
Redraw == column' = WidthForRerender(line', cursor')

TypeOK ==
    /\ line \in UNION {[1..n -> Chars] : n \in 0..MaxLength}
    /\ cursor \in 0..Len(line)
    /\ column \in Nat
    /\ over \in BOOLEAN

Init == line = << >> /\ cursor = 0 /\ column = Header /\ over = FALSE

-----------------------------------------------------------------------------
(* Keys that edit.                                                         *)

Left ==
    /\ BackwardWidth(line, cursor) > 0
    /\ cursor' = cursor - 1
    /\ column' = column - BackwardWidth(line, cursor)
    /\ UNCHANGED line

Right ==
    /\ ForwardWidth(line, cursor) > 0
    /\ cursor' = cursor + 1
    /\ column' = column + ForwardWidth(line, cursor)
    /\ UNCHANGED line

ToBegin == cursor' = 0 /\ UNCHANGED line /\ Redraw

\* Right as long as it moves.
ToEnd ==
    /\ cursor' = CHOOSE c \in cursor..Len(line) :
                    /\ ForwardWidth(line, c) = 0
                    /\ \A b \in cursor..(c - 1) : ForwardWidth(line, b) > 0
    /\ column' = column + Columns(SubSeq(line, cursor + 1, cursor'))
    /\ UNCHANGED line

CutLine == line' = << >> /\ cursor' = 0 /\ Redraw

CutRest == line' = SubSeq(line, 1, cursor) /\ UNCHANGED cursor /\ Redraw

Backspace ==
    /\ IF line = << >> \/ cursor = 0 THEN UNCHANGED <<line, cursor>>
       ELSE line' = RemoveAt(line, cursor) /\ cursor' = cursor - 1
    /\ Redraw

Type(character) ==
    /\ Len(line) < MaxLength
    /\ line' = InsertAt(line, cursor + 1, character)
    /\ cursor' = cursor + 1
    /\ Redraw

Edit ==
    /\ \/ Left \/ Right \/ ToBegin \/ ToEnd \/ CutLine \/ CutRest \/ Backspace
       \/ \E character \in Chars : Type(character)
    /\ UNCHANGED over

-----------------------------------------------------------------------------
(* What the session is told, and how it may answer.                        *)

DrawnAgain == UNCHANGED <<line, cursor, over>> /\ Redraw
Stops == over' = TRUE /\ UNCHANGED <<line, cursor, column>>

\* Ctrl-D ends the session only on an empty line.
Exit == line = << >> /\ (DrawnAgain \/ Stops)

Submit ==
    \/ line' = << >> /\ cursor' = 0 /\ UNCHANGED over /\ Redraw
    \/ DrawnAgain
    \/ Stops

\* Nothing was typed for a minute: the screen is cleared and drawn.
Refresh == DrawnAgain \/ Stops

\* Ctrl-C, and input that cannot be read or has ended.
Interrupted == Stops

Event == Exit \/ Submit \/ Refresh \/ Interrupted

Next == ~ over /\ (Edit \/ Event)
Spec == Init /\ [][Next]_vars

-----------------------------------------------------------------------------
(***************************************************************************)
(* Properties                                                              *)
(***************************************************************************)

\* The terminal's cursor is at the character the editor takes it to be at,
\* whichever keys drew and whichever moved.
CursorIsShown == ~ over => column = WidthForRerender(line, cursor)

Before(l, c) == SubSeq(l, 1, c)
After(l, c) == SubSeq(l, c + 1, Len(l))

\* Every key edits at the cursor: it moves over what is there, as far as there
\* is something to see, puts a character before it, takes the one before it
\* away, or cuts what follows it or everything; nothing else is lost.
EditsAtCursor ==
    \/ /\ line' = line
       /\ \/ cursor' \in {0, cursor - 1, cursor, cursor + 1}
          \/ cursor' > cursor /\ (cursor' = Len(line) \/ Width[line[cursor' + 1]] = 0)
    \/ /\ After(line', cursor') = After(line, cursor)
       /\ \/ \E c \in Chars : Before(line', cursor') = Append(Before(line, cursor), c)
          \/ cursor > 0 /\ Before(line', cursor') = Before(line, cursor - 1)
    \/ line' = Before(line, cursor) /\ cursor' = cursor
    \/ line' = << >> /\ cursor' = 0
=============================================================================
