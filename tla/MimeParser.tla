----------------------------- MODULE MimeParser -----------------------------
(***************************************************************************)
(* mime_parser::parse.  A message is a sequence of lines that end in CRLF; *)
(* a line is named for what the parser looks for in it:                    *)
(*   "delimiter"      -- and the sender's boundary                         *)
(*   "close"          the same with -- behind it                           *)
(*   "cut"            a closing delimiter at the end of the message,       *)
(*                    without its CRLF                                     *)
(*   "json", "ngap"   Content-Type and its value                           *)
(*   "id"             another Content- header                              *)
(*   "blank"          nothing                                              *)
(* and any other line is content.                                          *)
(***************************************************************************)
EXTENDS Naturals, Sequences, FiniteSetsExt

ContentTypes == {"json", "ngap"}

(* std::string::find, with the place after the last line for npos.         *)
Npos(str) == Len(str) + 1

First(str, places) == Min({Npos(str)} \cup places)

FindType(str, pos) == First(str, {i \in pos..Len(str) : str[i] \in ContentTypes})

(* What stands before the first Content- header is taken for the boundary. *)
BoundarySize(str) ==
  First(str, {i \in 1..Len(str) : str[i] \in ContentTypes \cup {"id"}}) - 1

FindBoundary(str, pos) ==
  LET size == BoundarySize(str)
  IN  First(str, {i \in pos..Len(str) :
                    /\ str[1] = "delimiter" /\ i + size - 1 <= Len(str)
                    /\ SubSeq(str, i, i + size - 1) = SubSeq(str, 1, size)})

(* A boundary of several lines has no closing one.                         *)
FindLastBoundary(str, pos) ==
  First(str, {i \in pos..Len(str) : BoundarySize(str) = 1 /\ str[i] = "close"})

(* The end of a line before a blank one.                                   *)
FindBlank(str, pos) ==
  First(str, {i \in pos..Len(str) - 1 : str[i + 1] = "blank"})

(* Mutant of NextBoundary: the closing boundary is not looked for.         *)
NextBoundary_OpenOnly(str, pos) == FindBoundary(str, pos)

NextBoundary(str, pos) ==
  IF FindBoundary(str, pos) # Npos(str) THEN FindBoundary(str, pos)
  ELSE FindLastBoundary(str, pos)

(* The content of a part: without a blank line it is the whole message but *)
(* three characters, and without a line before the boundary it goes on.    *)
PartBody(str, blank, boundary) ==
  CASE blank = Npos(str)        -> <<"garbage">>
    [] blank + 2 = boundary     -> SubSeq(str, blank + 2, Len(str))
    [] OTHER                    -> SubSeq(str, blank + 2, boundary - 1)

(* parse fails if the first header is too near to the beginning, ...       *)
Parses(str) == BoundarySize(str) \in 1..Len(str) - 1

(* ... and goes from boundary to boundary: a part has the first content    *)
(* type behind its boundary, be it in its headers or not.                  *)
MimeParts(str) ==
  LET parts[pos \in 1..Npos(str)] ==
        LET type     == FindType(str, pos)
            blank    == IF type = Npos(str) THEN Npos(str) ELSE FindBlank(str, type)
            boundary == NextBoundary(str, blank + 1)
        IN  IF pos >= FindLastBoundary(str, 1) \/ type = Npos(str)
            THEN <<>>
            ELSE <<[content_type |-> str[type],
                    body |-> PartBody(str, blank, boundary)]>> \o parts[boundary]
  IN  parts[FindBoundary(str, 1)]

-----------------------------------------------------------------------------
(* A message as its sender composes it: parts with headers before and      *)
(* after the content type.                                                 *)
SentPart(Line) ==
  [before : Seq({"id"}), content_type : Line, after : Seq({"id"}), body : Seq(Line)]

Compose(parts, ending) ==
  LET lines[i \in 0..Len(parts)] ==
        IF i = 0 THEN <<>>
        ELSE lines[i - 1] \o <<"delimiter">>
               \o parts[i].before \o <<parts[i].content_type>> \o parts[i].after
               \o <<"blank">> \o parts[i].body
  IN  lines[Len(parts)] \o ending

=============================================================================
