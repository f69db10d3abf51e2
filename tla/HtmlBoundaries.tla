---------------------------- MODULE HtmlBoundaries ----------------------------
(* A document's mark-up on its way to the renderer.  A reader of low trust (the
   URL fetcher, the CHM helper) takes it one tag at a time, throws away what is
   active and passes on bare tags; the worker's own parser reads every piece
   again and accepts or refuses the whole.  The two were written apart: here
   each piece the one emits is given to the other in the same step.  An HTML
   upload has a reader only.  Script and style are opaque text to the parser
   both are built on and are a text not shown; limits on the number of tags,
   characters and image bytes are left out. *)
EXTENDS Naturals, Sequences, FiniteSets, SequencesExt

CONSTANTS
    Depth,                 \* MAX_DEPTH, 128 in the code
    MaxPictures,           \* MAX_IMAGES, 32 in the code
    MaxHidden              \* bound: suppressed elements open at once

VARIABLES
    markup,                \* "url", "chm" or "html": which reader
    chapter,               \* the CHM topic being read
    hidden, opened,        \* the reader's stacks
    said, drawn,           \* it has emitted something; images_used
    wrapped, boundary,     \* the chapter's section is open; the second parser
    covers, astray,        \* history: what hides text in a browser; a text was
                           \* shown or dropped against that
    stage                  \* "reading", "refused" by the reader, "done"

htmlVars == <<markup, chapter, hidden, opened, said, drawn, wrapped, boundary, covers, astray, stage>>

Topics   == 1..2
Picture  == {"i1", "i2"}
Shown    == {"p", "div"}
Empty    == {"br"}
HtmlVoid == {"meta", "embed"}          \* hidden elements that have no content in HTML
Tag      == Shown \cup Empty \cup HtmlVoid \cup {"form", "object", "font"}

Hides == [url |-> {"form", "object", "embed", "meta"}, chm |-> {"form", "object", "embed", "meta"},
          html |-> {"object", "embed"}]
VoidNone == [url |-> {}, chm |-> {}, html |-> {}]   \* mutant: <meta> opens like <form>
Void  == [url |-> {"meta"}, chm |-> {"meta", "embed"}, html |-> {}]

Open(tag, to) == [form |-> "open", tag |-> tag, to |-> to]
Close(tag)    == [form |-> "close", tag |-> tag, to |-> 0]
Text(to)      == [form |-> "text", tag |-> "text", to |-> to]
Nothing       == [form |-> "nothing", tag |-> "none", to |-> 0]   \* no output at all
Word == 1
Spaces == 0

Fresh == [stack |-> <<>>, topics |-> {}, links |-> {}, pictures |-> 0, printable |-> FALSE, why |-> "none"]

TypeOK ==
    /\ markup \in DOMAIN Hides /\ chapter \in Topics
    /\ hidden \in Seq(Hides[markup] \ Void[markup]) /\ covers \in Seq(Hides[markup] \ HtmlVoid)
    /\ \A i \in DOMAIN opened : opened[i].tag \in Shown \cup {"a"} /\ opened[i].out \in BOOLEAN
    /\ said \in BOOLEAN /\ wrapped \in BOOLEAN /\ astray \in BOOLEAN
    /\ drawn \subseteq Picture /\ Cardinality(drawn) <= MaxPictures
    /\ boundary.topics \subseteq Topics /\ boundary.links \subseteq Topics
    /\ boundary.pictures \in 0..(MaxPictures + 1) /\ Len(boundary.stack) <= Depth + 1
    /\ boundary.why \in {"none", "element", "depth", "unbalanced", "pictures", "links", "blank"}
    /\ stage \in {"reading", "refused", "done"}

Init ==
    /\ markup \in DOMAIN Hides /\ chapter = 1
    /\ hidden = <<>> /\ opened = <<>> /\ said = FALSE /\ drawn = {}
    /\ wrapped = FALSE /\ boundary = Fresh
    /\ covers = <<>> /\ astray = FALSE /\ stage = "reading"

(***************************************************************************)
(* The second parser: _StrictOfflineHtml and _CHMFragment.                  *)
(***************************************************************************)
Permitted == Shown \cup Empty \cup (IF markup = "chm" THEN {"section", "h2", "a", "img"} ELSE {})

AcceptOpen(b, piece) ==
    LET pushed == IF piece.tag \in Empty \cup {"img"} THEN b.stack ELSE Append(b.stack, piece.tag)
        images  == b.pictures + (IF piece.tag = "img" THEN 1 ELSE 0)
    IN [b EXCEPT
         !.stack = pushed, !.pictures = images,
         !.topics = IF piece.tag = "section" THEN @ \cup {piece.to} ELSE @,
         !.links  = IF piece.tag = "a" THEN @ \cup {piece.to} ELSE @,
         !.why = IF piece.tag \notin Permitted \/ (piece.tag = "section" /\ piece.to \in b.topics) THEN "element"
                 ELSE IF images > MaxPictures THEN "pictures"
                 ELSE IF Len(pushed) > Depth THEN "depth" ELSE @]

AcceptClose(b, piece) ==
    IF b.stack # <<>> /\ Last(b.stack) = piece.tag
    THEN [b EXCEPT !.stack = Front(@)] ELSE [b EXCEPT !.why = "unbalanced"]

Accept(b, piece) ==
    IF b.why # "none" THEN b
    ELSE CASE piece.form = "open"  -> AcceptOpen(b, piece)
           [] piece.form = "close" -> AcceptClose(b, piece)
           [] piece.form = "text"  -> [b EXCEPT !.printable = @ \/ piece.to = Word]
           [] piece.form = "nothing" -> b

Complete(b) ==
    IF b.why # "none" THEN b
    ELSE [b EXCEPT !.why = IF b.stack # <<>> THEN "unbalanced"
                           ELSE IF ~b.printable THEN "blank"
                           ELSE IF b.links \subseteq b.topics THEN "none" ELSE "links"]

Parsed(pieces) == IF markup = "html" THEN boundary ELSE FoldLeft(Accept, boundary, pieces)

(***************************************************************************)
(* What the reader emits.  A CHM chapter gets its section and its label if   *)
(* any of it is not spaces: both go out before its first such piece.        *)
(***************************************************************************)
Counts(piece) ==
    IF markup = "url" THEN piece = Text(Word) ELSE piece \notin {Text(Spaces), Nothing}

Label == <<Open("section", chapter), Open("h2", 0), Text(Word), Close("h2")>>

Emit(pieces) ==
    LET first == \E i \in DOMAIN pieces : Counts(pieces[i]) IN
    /\ said' = (said \/ first)
    /\ wrapped' = (markup = "chm" /\ (wrapped \/ first))
    /\ boundary' = IF markup = "chm" /\ ~wrapped'             THEN boundary
                   ELSE IF markup = "chm" /\ ~wrapped THEN Parsed(Label \o pieces)
                   ELSE Parsed(pieces)

EmitNothing == UNCHANGED <<said, wrapped, boundary>>

Refuse ==
    /\ stage' = "refused"
    /\ UNCHANGED <<markup, chapter, hidden, opened, said, drawn, wrapped, boundary, covers, astray>>

Go == UNCHANGED <<markup, chapter, drawn, stage>>

(* What a browser makes of a hidden element: one without content hides nothing,
   a slash at its end changes nothing, its end tag closes the innermost of its
   name and all inside it, or is ignored. *)
Cover(tag) ==
    covers' = IF tag \in Hides[markup] \ HtmlVoid THEN Append(covers, tag) ELSE covers
Uncover(tag) ==
    covers' = IF Contains(covers, tag) THEN SubSeq(covers, 1, SelectLastInSeq(covers, LAMBDA c : c = tag) - 1)
              ELSE covers

(***************************************************************************)
(* The reader: _SanitizedDocument, _Chapter and SafeTextHtml.               *)
(***************************************************************************)
(* CHM counts what is open before it opens more, the URL reader after. *)
Full == \/ markup = "chm" /\ Len(opened) + Len(hidden) > Depth
        \/ markup = "url" /\ Len(opened) >= Depth

Push(tag, out) ==
    opened' = IF markup = "html" THEN opened ELSE Append(opened, [tag |-> tag, out |-> out])

Hide(tag, slash) ==
    /\ tag \in Hides[markup]
    /\ IF (slash /\ tag \notin Void[markup]) \/ (markup = "chm" /\ Full) THEN Refuse
       ELSE /\ Len(hidden) < MaxHidden \/ tag \in Void[markup]
            /\ hidden' = IF tag \in Void[markup] THEN hidden ELSE Append(hidden, tag)
            /\ Cover(tag) /\ EmitNothing /\ Go /\ UNCHANGED <<opened, astray>>

Skip(tag) ==
    /\ tag \notin Hides[markup] /\ (hidden # <<>> \/ tag \notin Shown \cup Empty)
    /\ IF markup = "chm" /\ Full THEN Refuse ELSE EmitNothing /\ Go /\ UNCHANGED <<hidden, opened, covers, astray>>

Show(tag, slash) ==
    /\ hidden = <<>> /\ tag \in Shown \cup Empty
    /\ IF Full /\ (markup = "chm" \/ tag \in Shown) THEN Refuse
       ELSE /\ Emit(IF slash /\ tag \in Shown THEN <<Open(tag, 0), Close(tag)>> ELSE <<Open(tag, 0)>>)
            /\ IF slash \/ tag \in Empty THEN UNCHANGED opened ELSE Push(tag, TRUE)
            /\ Go /\ UNCHANGED <<hidden, covers, astray>>

(* handle_starttag and handle_startendtag *)
Start(tag, slash) == Hide(tag, slash) \/ Skip(tag) \/ Show(tag, slash)

(* A link to a page of the archive, or to anything else: the second kind is
   kept on the stack and never emitted. *)
Link(known, to) ==
    /\ markup = "chm" /\ hidden = <<>>
    /\ IF Full THEN Refuse
       ELSE /\ Push("a", known) /\ Go /\ UNCHANGED <<hidden, covers, astray>>
            /\ IF known THEN Emit(<<Open("a", to)>>) ELSE EmitNothing

DrawImage(image) ==
    /\ markup = "chm" /\ hidden = <<>>
    /\ IF Full \/ Cardinality(drawn \cup {image}) > MaxPictures THEN Refuse
       ELSE /\ drawn' = drawn \cup {image} /\ Emit(<<Open("img", 0)>>)
            /\ UNCHANGED <<markup, chapter, stage, hidden, opened, covers, astray>>

(* The end tags of the open elements from the innermost out to the index-th. *)
Ending(e) == IF e.out THEN Close(e.tag) ELSE Nothing
ClosingInOrder(index) ==                                 \* mutant: from the index-th in
    [i \in 1..(Len(opened) + 1 - index) |-> Ending(opened[index + i - 1])]
Closing(index) ==
    [i \in 1..(Len(opened) + 1 - index) |-> Ending(opened[Len(opened) + 1 - i])]

Innermost(tag) == SelectLastInSeq(opened, LAMBDA e : e.tag = tag)

CloseShown(tag) ==
    /\ hidden = <<>> /\ tag \in Shown \cup {"a"}
    /\ IF markup = "html" THEN Emit(<<Close(tag)>>) /\ UNCHANGED opened
       ELSE /\ Innermost(tag) > 0
            /\ Emit(Closing(Innermost(tag))) /\ opened' = SubSeq(opened, 1, Innermost(tag) - 1)
    /\ Go /\ UNCHANGED <<hidden, covers, astray>>

CloseHidden(tag) ==
    /\ tag \in Hides[markup] \ Void[markup]
    /\ IF hidden = <<>> \/ Last(hidden) # tag THEN Refuse
       ELSE /\ hidden' = Front(hidden) /\ Uncover(tag) /\ EmitNothing /\ Go /\ UNCHANGED <<opened, astray>>

(* handle_endtag; every other end tag is ignored *)
End(tag) == CloseHidden(tag) \/ CloseShown(tag)

Data(to) ==
    /\ IF hidden = <<>> THEN Emit(<<Text(to)>>) ELSE EmitNothing
    /\ astray' = (astray \/ ((hidden = <<>>) # (covers = <<>>) /\ ~Contains(hidden, "embed")))
    /\ Go /\ UNCHANGED <<hidden, opened, covers>>

(* finish, render: what is open is closed; a CHM goes on with its next chapter *)
Finish ==
    IF hidden # <<>> \/ (~said /\ (markup # "chm" \/ chapter = 2)) THEN Refuse
    ELSE LET pieces == Closing(1) \o (IF wrapped THEN <<Close("section")>> ELSE <<>>)
             parsed == Parsed(pieces)
             more   == markup = "chm" /\ chapter = 1
         IN /\ opened' = <<>> /\ wrapped' = FALSE
            /\ boundary' = IF more \/ markup = "html" THEN parsed ELSE Complete(parsed)
            /\ chapter' = IF more THEN 2 ELSE chapter
            /\ stage' = IF more THEN "reading" ELSE "done"
            /\ UNCHANGED <<markup, hidden, said, drawn, covers, astray>>

Next ==
    /\ stage = "reading"
    /\ \/ \E tag \in Tag, slash \in BOOLEAN : Start(tag, slash)
       \/ \E tag \in Tag \cup {"a"} : End(tag)
       \/ \E known \in BOOLEAN, to \in Topics : Link(known, to)
       \/ \E image \in Picture : DrawImage(image)
       \/ \E to \in {Spaces, Word} : Data(to)
       \/ Finish

Spec == Init /\ [][Next]_htmlVars

(***************************************************************************)
(* Properties.                                                              *)
(***************************************************************************)
(* Whatever the page, what a reader finishes is accepted by the parser behind
   it: no tag of it is foreign to that parser, none is closed out of order or
   left open, no finished page is blank.  A CHM alone can be read in full and
   then be refused as a whole: nested as deep as its reader allows, one picture
   shown too often, or a link to a chapter that was left out as blank. *)
BoundaryAgrees ==
    stage = "done" => boundary.why \in {"none"} \cup IF markup = "chm" THEN {"depth", "pictures", "links"} ELSE {}

(* No finished document has lost a word a browser would show, or shows one that
   a suppressed element hides - an unclosed <meta> does not swallow the rest of
   the page, a stray end tag does not uncover a form - save inside <embed>,
   which the URL and HTML readers take for an element with content. *)
NothingLost == stage = "done" => ~astray
=============================================================================
