----------------------------- MODULE Multipart -----------------------------
(***************************************************************************)
(* A multipart/form-data request body (multipart.rs of the core, with the  *)
(* Python builder in front of it and apply_content_length of               *)
(* pipeline/prepare.rs behind it): parts are added, the boundary is checked*)
(* against the buffered parts and drawn again while it occurs in one, the  *)
(* form becomes one buffer or a streaming encoder, its length becomes the  *)
(* Content-Length of the request, and the body is sent.                    *)
(*                                                                         *)
(* A name is the number of its characters of each class, a boundary is its *)
(* text and length, and a part knows which boundaries its bytes contain.   *)
(* Bytes on the wire are tokens: one for a part's header, a part's line    *)
(* end and the final boundary, and one for every byte of a part.           *)
(***************************************************************************)
EXTENDS Naturals, Sequences

CONSTANTS PartInputs,     \* parts a caller adds: [by, name, filename, ctype, headers, ...]
          Pinned,         \* boundaries a caller chooses itself
          Randoms,        \* boundaries the generator may draw
          MaxParts,       \* bound: parts of a form
          MaxAttempts,    \* draws before the form is given up
          MaxBoundary,    \* the longest boundary accepted from a caller
          LengthMax,      \* the largest u64
          UsizeMax,       \* the largest usize
          UserLengths     \* Content-Length values a caller sets itself

PartName == [plain : Nat, quotes : Nat, backslashes : Nat, controls : Nat, given : BOOLEAN]

FormBoundary == [text : STRING, len : Nat, clean : BOOLEAN]

FormPart == [by : STRING, kind : STRING, name : PartName, filename : PartName, ctype : Nat, ctypeOk : BOOLEAN,
         headers : Nat, size : Nat, declared : Nat, holds : SUBSET FormBoundary]

ASSUME MultipartAssumption ==
    /\ {MaxParts, MaxAttempts, MaxBoundary, LengthMax, UsizeMax} \subseteq Nat
    /\ UsizeMax <= LengthMax
    /\ PartInputs \subseteq FormPart /\ Pinned \subseteq FormBoundary /\ Randoms \subseteq FormBoundary

Unknown == LengthMax + 1
NoFile == [plain |-> 0, quotes |-> 0, backslashes |-> 0, controls |-> 0, given |-> FALSE]
NoBoundary == [text |-> "none", len |-> 0, clean |-> TRUE]

VARIABLE mp

multipartVars == <<mp>>

MultipartStart(boundary, caller) ==
    [caller |-> caller, phase |-> "form", parts |-> << >>, boundary |-> boundary,
     announced |-> IF caller = "python" THEN boundary ELSE NoBoundary,
     tries |-> 0, kind |-> "none", length |-> Unknown, header |-> Unknown,
     state |-> "Done", pos |-> FALSE, idx |-> 1, left |-> 0, wire |-> << >>, error |-> FALSE]

\* try_new: what a caller may pin.
try_new(b) == b.len > 0 /\ b.len <= MaxBoundary /\ b.clean

\* Boundary::random: any text over the generator's characters.
random == Randoms

\* The Python builder reads the boundary for its Content-Type as it begins.
MultipartInit ==
    \/ \E b \in random, c \in {"rust", "python"} : mp = MultipartStart(b, c)
    \/ \E b \in Pinned : try_new(b) /\ mp = MultipartStart(b, "rust")

-----------------------------------------------------------------------------
(***************************************************************************)
(* Parts.                                                                  *)
(***************************************************************************)
NameLength(n) == n.plain + n.quotes + n.backslashes + n.controls

validate_field_name(n) == NameLength(n) > 0 /\ n.quotes = 0 /\ n.controls = 0

validate_filename(n) == NameLength(n) > 0 /\ n.quotes = 0 /\ n.controls = 0

quote_string_escape(n) == NameLength(n) + n.quotes + n.backslashes

\* The bytes of a part's header: dashes, boundary and line end, the
\* disposition, the content type and other headers, and the blank line.
format_part_header(b, part) ==
    2 + b.len + 2 + quote_string_escape(part.name)
      + (IF part.filename.given THEN quote_string_escape(part.filename) ELSE 0)
      + part.ctype + part.headers + 2

is_stream(part) == part.kind = "stream"

len(part) == IF is_stream(part) THEN part.declared ELSE part.size

\* text and part check the field name only, bytes and stream the file name
\* and the content type too.
Accepted(part) ==
    /\ validate_field_name(part.name)
    /\ part.by \in {"bytes", "stream"} => validate_filename(part.filename) /\ part.ctypeOk

AddPart(part) ==
    /\ mp.phase = "form" /\ mp.caller = "rust" /\ Len(mp.parts) < MaxParts
    /\ mp' = IF Accepted(part) THEN [mp EXCEPT !.parts = Append(@, part)]
             ELSE [mp EXCEPT !.phase = "refused"]

\* extract_text_field refuses line ends before the core sees the value.
extract_text_field(n) == n.controls = 0

IsFile(part) == part.by # "text"

\* Form fields come before files.
add_form_fields(part) ==
    /\ mp.phase = "form" /\ mp.caller = "python" /\ Len(mp.parts) < MaxParts
    /\ part.by = "text" /\ \A i \in DOMAIN mp.parts : ~IsFile(mp.parts[i])
    /\ mp' = IF extract_text_field(part.name) /\ Accepted(part)
             THEN [mp EXCEPT !.parts = Append(@, part)]
             ELSE [mp EXCEPT !.phase = "refused"]

\* Bytes and strings are files named after their field, a path is read whole,
\* and a tuple with headers is a part whose file name the core does not check.
add_file_parts(part, readable) ==
    /\ mp.phase = "form" /\ mp.caller = "python" /\ Len(mp.parts) < MaxParts
    /\ IsFile(part) /\ ~is_stream(part)
    /\ mp' = IF readable /\ extract_text_field(part.filename) /\ Accepted(part)
             THEN [mp EXCEPT !.parts = Append(@, part)]
             ELSE [mp EXCEPT !.phase = "refused"]

-----------------------------------------------------------------------------
(***************************************************************************)
(* The body.                                                               *)
(***************************************************************************)
is_replayable(parts) == \A i \in DOMAIN parts : ~is_stream(parts[i])

\* Only buffered parts can be searched for the boundary.
Collides(parts, b) == \E i \in DOMAIN parts : ~is_stream(parts[i]) /\ b \in parts[i].holds

PartBytes(b, part, size) == format_part_header(b, part) + size + 2

\* The sums of the first terms, and the first pieces put together.
Summed(terms) ==
    LET summed[n \in 0 .. Len(terms)] == IF n = 0 THEN 0 ELSE summed[n - 1] + terms[n]
    IN  summed

Joined(pieces) ==
    LET joined[n \in 0 .. Len(pieces)] == IF n = 0 THEN << >> ELSE joined[n - 1] \o pieces[n]
    IN  joined

PartLengths(parts, b) == [i \in 1 .. Len(parts) |-> PartBytes(b, parts[i], len(parts[i]))]

\* Mutant: the line end after a part's body is not counted.
content_length_without_line_ends(parts, b) ==
    LET total == b.len + 6
                 + Summed([i \in 1 .. Len(parts) |-> PartLengths(parts, b)[i] - 2])[Len(parts)]
    IN  IF (\E i \in DOMAIN parts : len(parts[i]) = Unknown) \/ total > LengthMax
        THEN Unknown ELSE total
\* checked_add: what does not fit in a u64 is unknown, never truncated.
content_length(parts, b) ==
    LET total == b.len + 6 + Summed(PartLengths(parts, b))[Len(parts)]
    IN  IF (\E i \in DOMAIN parts : len(parts[i]) = Unknown) \/ total > LengthMax
        THEN Unknown ELSE total

\* Tokens of the wire: [what, part, boundary].
Token(what, i, b) == [what |-> what, part |-> i, boundary |-> b]
Data(i, n) == [k \in 1 .. n |-> Token("byte", i, NoBoundary)]

\* The buffered encoding.
PartTokens(parts, b) ==
    [i \in 1 .. Len(parts) |-> (<<Token("header", i, b)>> \o Data(i, parts[i].size))
                                \o <<Token("line", i, NoBoundary)>>]

Encoded(parts, b) == Joined(PartTokens(parts, b))[Len(parts)] \o <<Token("final", 0, b)>>

TokenBytes(parts, token) ==
    CASE token.what = "header" -> format_part_header(token.boundary, parts[token.part])
      [] token.what = "byte"   -> 1
      [] token.what = "line"   -> 2
      [] token.what = "final"  -> token.boundary.len + 6

WireBytes(parts, wire) ==
    Summed([i \in 1 .. Len(wire) |-> TokenBytes(parts, wire[i])])[Len(wire)]

\* into_body or encoder is called; both look for a collision first.
into_body(kind) ==
    /\ mp.phase = "form" /\ (mp.caller = "python" => kind = "body")
    /\ mp' = [mp EXCEPT !.phase = "checking", !.kind = kind]

\* A boundary that occurs in a buffered part is drawn again; the last draw is
\* given up unchecked, and the body is then a stream of one error.
ensure_no_boundary_collision(b) ==
    /\ mp.phase = "checking" /\ mp.tries < MaxAttempts /\ Collides(mp.parts, mp.boundary)
    /\ mp' = [mp EXCEPT !.boundary = b, !.tries = @ + 1]

EncoderError ==
    /\ mp.phase = "checking" /\ mp.tries = MaxAttempts
    /\ mp' = [mp EXCEPT !.phase = "framing", !.kind = "stream", !.error = TRUE, !.state = "Done"]

Buffered ==
    /\ mp.phase = "checking" /\ mp.tries < MaxAttempts /\ ~Collides(mp.parts, mp.boundary)
    /\ mp.kind = "body" /\ is_replayable(mp.parts)
    /\ mp' = [mp EXCEPT !.phase = "framing", !.kind = "bytes",
                        !.length = WireBytes(mp.parts, Encoded(mp.parts, mp.boundary))]

\* MultipartEncoder::new, with the length of the form where it fits in usize.
NewEncoder ==
    /\ mp.phase = "checking" /\ mp.tries < MaxAttempts /\ ~Collides(mp.parts, mp.boundary)
    /\ mp.kind = "encoder" \/ ~is_replayable(mp.parts)
    /\ LET length == content_length(mp.parts, mp.boundary)
       IN  mp' = [mp EXCEPT !.phase = "framing", !.kind = "stream",
                            !.length = IF mp.kind = "body" /\ length <= UsizeMax
                                       THEN length ELSE Unknown,
                            !.state = IF mp.parts = << >> THEN "FinalBoundary" ELSE "PartHeader"]

\* The caller's own Content-Length must be the body's; an unknown length
\* admits none and leaves the body to chunked coding.
apply_content_length(supplied) ==
    /\ mp.phase = "framing"
    /\ mp' = IF supplied # Unknown /\ (mp.length = Unknown \/ supplied # mp.length)
             THEN [mp EXCEPT !.phase = "refused"]
             ELSE [mp EXCEPT !.phase = "sending", !.header = mp.length]

-----------------------------------------------------------------------------
(***************************************************************************)
(* Sending: into_http_body is one frame of a buffer, or the encoder polled *)
(* to its end.                                                             *)
(***************************************************************************)
SendBuffer ==
    /\ mp.phase = "sending" /\ mp.kind = "bytes"
    /\ mp' = [mp EXCEPT !.phase = "sent", !.wire = Encoded(mp.parts, mp.boundary)]

Polled == mp.phase = "sending" /\ mp.kind = "stream"
AtBody == mp.state = "PartBody" \/ (mp.state = "PartHeader" /\ mp.pos)

PollError ==
    /\ Polled /\ mp.error
    /\ mp' = [mp EXCEPT !.phase = "failed", !.error = FALSE]

PollHeader ==
    /\ Polled /\ mp.state = "PartHeader" /\ ~mp.pos
    /\ mp' = [mp EXCEPT !.pos = TRUE, !.left = mp.parts[mp.idx].size,
                        !.wire = Append(@, Token("header", mp.idx, mp.boundary))]

\* Buffered bytes go out at once, a stream's chunk by chunk.
PollBody(n) ==
    /\ Polled /\ AtBody /\ n <= mp.left /\ (~is_stream(mp.parts[mp.idx]) => n = mp.left)
    /\ mp' = [mp EXCEPT !.left = @ - n, !.wire = @ \o Data(mp.idx, n),
                        !.state = IF is_stream(mp.parts[mp.idx]) THEN "PartBody" ELSE "TrailingCrlf"]

PollBodyFails ==
    /\ Polled /\ AtBody /\ is_stream(mp.parts[mp.idx])
    /\ mp' = [mp EXCEPT !.state = "Done", !.phase = "failed"]

PollTrailingCrlf ==
    /\ Polled
    /\ mp.state = "TrailingCrlf" \/ (AtBody /\ mp.left = 0)
    /\ LET sending == [mp EXCEPT !.wire = Append(@, Token("line", mp.idx, NoBoundary))]
       IN  mp' = IF mp.idx < Len(mp.parts) THEN [sending EXCEPT !.idx = @ + 1, !.state = "PartHeader", !.pos = FALSE]
                 ELSE [sending EXCEPT !.state = "FinalBoundary"]

PollFinal ==
    /\ Polled /\ mp.state = "FinalBoundary"
    /\ mp' = [mp EXCEPT !.state = "Done", !.wire = Append(@, Token("final", 0, mp.boundary))]

PollDone ==
    /\ Polled /\ mp.state = "Done" /\ ~mp.error
    /\ mp' = [mp EXCEPT !.phase = "sent"]

MultipartNext ==
    \/ \E p \in PartInputs : AddPart(p) \/ add_form_fields(p)
    \/ \E p \in PartInputs, readable \in BOOLEAN : add_file_parts(p, readable)
    \/ \E k \in {"body", "encoder"} : into_body(k)
    \/ \E b \in random : ensure_no_boundary_collision(b)
    \/ EncoderError \/ Buffered \/ NewEncoder
    \/ \E n \in UserLengths \cup {Unknown} : apply_content_length(n)
    \/ SendBuffer \/ PollError \/ PollHeader
    \/ \E n \in 1..LengthMax : PollBody(n)
    \/ PollBodyFails \/ PollTrailingCrlf \/ PollFinal \/ PollDone

MultipartSpec == MultipartInit /\ [][MultipartNext]_multipartVars

-----------------------------------------------------------------------------
\* A form that was sent whole (into_body and encoder, multipart.rs) is on the
\* wire as the buffered encoding of its parts would be, under a boundary that
\* occurs in none of its buffered parts and that is the one the Python builder
\* announced in its Content-Type unless that one occurred; and the request's
\* Content-Length, if it has one, is what was sent whenever every stream kept
\* to the length its caller stated.
EncodedAsDeclared ==
    mp.phase = "sent" =>
        /\ mp.wire = Encoded(mp.parts, mp.boundary)
        /\ ~Collides(mp.parts, mp.boundary)
        /\ mp.announced \in {NoBoundary, mp.boundary} \/ Collides(mp.parts, mp.announced)
        /\ (mp.header # Unknown /\ \A i \in DOMAIN mp.parts : len(mp.parts[i]) = mp.parts[i].size)
              => mp.header = WireBytes(mp.parts, mp.wire)
=============================================================================
