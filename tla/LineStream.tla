----------------------------- MODULE LineStream -----------------------------
(***************************************************************************)
(* Response::text_lines (response.rs of the core): the body's chunks are   *)
(* gathered in a buffer that lines are cut from.  A line longer than the   *)
(* limit is an error, and it is noticed before the buffer grows past it.   *)
(*                                                                         *)
(* A byte of the text is one of: "x" (any other), "cr", "lf", and "bad",   *)
(* which is not UTF-8.  The body may arrive in chunks of any size, empty   *)
(* ones too (they are skipped), and may fail at any point.                 *)
(***************************************************************************)
EXTENDS Naturals, FiniteSets, Sequences, SequencesExt

CONSTANTS Texts,             \* the response texts considered
          MAX_LINE_LENGTH    \* the longest line, its "lf" not counted

Byte == {"x", "cr", "lf", "bad"}

ASSUME LineAssumption == MAX_LINE_LENGTH \in Nat /\ Texts \subseteq Seq(Byte)

VARIABLE ln

lineVars == <<ln>>

LineStart(text) == [text |-> text, taken |-> 0, buffer |-> << >>, out |-> << >>,
                    closed |-> FALSE, ended |-> FALSE]

LineInit == \E t \in Texts : ln = LineStart(t)

TooLong == [ok |-> FALSE, why |-> "length"]
NotUtf8 == [ok |-> FALSE, why |-> "utf8"]
BodyFailed == [ok |-> FALSE, why |-> "body"]

\* Where the first line of s ends, or 0.
LineEnd(s) == SelectInSeq(s, LAMBDA b : b = "lf")

\* The line without its "cr", as text.
Line(s) ==
    LET line == IF s # << >> /\ Last(s) = "cr" THEN Front(s) ELSE s
    IN  IF \E i \in DOMAIN line : line[i] = "bad" THEN NotUtf8 ELSE [ok |-> TRUE, line |-> line]

Failed(out) == \E i \in DOMAIN out : ~out[i].ok
Yield(item) == Append(ln.out, item)

-----------------------------------------------------------------------------
(***************************************************************************)
(* poll_next, arm by arm.  What a caller sees after the first error is not *)
(* followed.                                                               *)
(***************************************************************************)
Polls == ~ln.ended /\ ~Failed(ln.out)

\* A line that sits in the buffer.
EmitLine ==
    LET pos == LineEnd(ln.buffer)
    IN  /\ Polls /\ pos > 0
        /\ ln' = IF pos - 1 > MAX_LINE_LENGTH
                 THEN [ln EXCEPT !.out = Yield(TooLong)]
                 ELSE [ln EXCEPT !.buffer = SubSeq(@, pos + 1, Len(@)),
                                 !.out = Yield(Line(SubSeq(ln.buffer, 1, pos - 1)))]

NeedsMore == Polls /\ LineEnd(ln.buffer) = 0
Overgrown == NeedsMore /\ Len(ln.buffer) > MAX_LINE_LENGTH

EmitTooLong == Overgrown /\ ln' = [ln EXCEPT !.out = Yield(TooLong)]

\* Mutant: a line end just behind the last byte that fits counts as beyond it.
first_line_overflows_early(buffer, chunk) ==
    /\ Len(buffer) + Len(chunk) > MAX_LINE_LENGTH
    /\ LET prefix == SubSeq(chunk, 1, MAX_LINE_LENGTH - Len(buffer)) IN LineEnd(prefix) = 0
\* A chunk that would overgrow the buffer is looked at before it is added: is
\* the end of its first line within the limit?
first_line_overflows(buffer, chunk) ==
    /\ Len(buffer) + Len(chunk) > MAX_LINE_LENGTH
    /\ LET prefix == SubSeq(chunk, 1, MAX_LINE_LENGTH - Len(buffer))
       IN  LineEnd(prefix) = 0
    /\ LineEnd(chunk) > 0 => Len(buffer) + LineEnd(chunk) - 1 > MAX_LINE_LENGTH

ChunkArrives(n) ==
    /\ NeedsMore /\ ~Overgrown /\ ln.taken + n <= Len(ln.text)
    /\ LET chunk == SubSeq(ln.text, ln.taken + 1, ln.taken + n)
       IN  ln' = IF first_line_overflows(ln.buffer, chunk)
                 THEN [ln EXCEPT !.taken = @ + n, !.out = Yield(TooLong)]
                 ELSE [ln EXCEPT !.taken = @ + n, !.buffer = @ \o chunk]

ChunkFails ==
    /\ NeedsMore /\ ~Overgrown /\ ~ln.closed
    /\ ln' = [ln EXCEPT !.out = Yield(BodyFailed)]

\* The body's end: the rest of the buffer, which has not overgrown, is the
\* last line.
EmitRest ==
    /\ NeedsMore /\ ~Overgrown /\ ln.taken = Len(ln.text)
    /\ ln' = IF ln.buffer = << >> THEN [ln EXCEPT !.ended = TRUE]
             ELSE [ln EXCEPT !.buffer = << >>, !.closed = TRUE, !.out = Yield(Line(ln.buffer))]

LineNext ==
    \/ EmitLine \/ EmitTooLong \/ ChunkFails \/ EmitRest
    \/ \E n \in 1..Len(ln.text) : ChunkArrives(n)

LineSpec == LineInit /\ [][LineNext]_lineVars

-----------------------------------------------------------------------------
\* The line ends among the first n bytes.
LineEnds(text, n) == Cardinality({i \in 1 .. n : text[i] = "lf"})

\* What begins with the first holds no line end up to the last byte, and is
\* followed by one or ends the text.
Reaches(text, first, last) ==
    /\ \A i \in first .. last : text[i] # "lf"
    /\ last = Len(text) \/ text[last + 1] = "lf"

\* text[first .. last] is line k of the text: k - 1 line ends come before it, and
\* it begins the text or follows a line end.
IsLine(text, k, first, last) ==
    /\ LineEnds(text, first - 1) = k - 1
    /\ first = 1 \/ text[first - 1] = "lf"
    /\ Reaches(text, first, last)

Read(line) == IF Len(line) > MAX_LINE_LENGTH THEN TooLong ELSE Line(line)

ReadsLine(text, k, item) ==
    \E first \in 1 .. Len(text) : \E last \in first - 1 .. Len(text) :
        IsLine(text, k, first, last) /\ item = Read(SubSeq(text, first, last))

\* The lines of a text: what follows the last line end is one unless it is empty.
LineCount(text) ==
    LineEnds(text, Len(text)) + (IF text = << >> \/ text[Len(text)] = "lf" THEN 0 ELSE 1)

\* However the body is cut into chunks, text_lines (LineStream, response.rs)
\* yields the lines of the text in order: its n-th item is the text's n-th
\* line or the error that line deserves, a failing body aside, an over-long
\* line included that ends one byte beyond the limit or on it; and a stream
\* that ended has yielded every line.
LinesFollowTheText ==
    /\ \A k \in DOMAIN ln.out :
          (ln.out[k] = BodyFailed /\ k = Len(ln.out)) \/ ReadsLine(ln.text, k, ln.out[k])
    /\ ln.ended => Len(ln.out) = LineCount(ln.text)
=============================================================================
