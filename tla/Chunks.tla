------------------------------- MODULE Chunks -------------------------------
(***************************************************************************)
(* A document as the sections ingest reads (chunks in crates/rm-host/src/  *)
(* ingest.rs). A line is a heading (it starts with a hash), a code fence,  *)
(* blank, or text. A heading inside a fence is text, like everything else  *)
(* there. A section's hash is its text: collisions are left out.           *)
(***************************************************************************)
EXTENDS Naturals, Sequences, SequencesExt

IsBlank(line) == line.is = "blank"

(* trim, over lines.                                                       *)
Trimmed(body) ==
  LET said == {i \in DOMAIN body : ~IsBlank(body[i])}
  IN IF said = {} THEN <<>>
     ELSE SubSeq(body, CHOOSE i \in said : \A j \in said : i <= j,
                       CHOOSE i \in said : \A j \in said : j <= i)

(* flush: a heading with nothing under it is not a section.                *)
Flushed(s) ==
  IF Trimmed(s.body) = <<>> THEN s.out
  ELSE Append(s.out, [heading |-> s.path, text |-> Trimmed(s.body)])

ReadLine(s, line) ==
  IF line.is = "heading" /\ ~s.fenced
  THEN [s EXCEPT !.out = Flushed(s), !.body = <<>>,
                 !.path = Append(SubSeq(@, 1, IF line.depth - 1 < Len(@)
                                              THEN line.depth - 1 ELSE Len(@)), line.title)]
  ELSE [s EXCEPT !.body = Append(@, line), !.fenced = (@ # (line.is = "fence"))]

AllRead(document) ==
  LET after[n \in 0..Len(document)] ==
        IF n = 0 THEN [path |-> <<>>, body |-> <<>>, fenced |-> FALSE, out |-> <<>>]
        ELSE ReadLine(after[n - 1], document[n])
  IN after[Len(document)]

(* Mutant: what follows the last heading is not flushed.                   *)
SectionsSoFar(document) == AllRead(document).out

Sections(document) == Flushed(AllRead(document))

-----------------------------------------------------------------------------
(* Some sequences end to end.                                              *)
Gathered(parts) ==
  LET upto[n \in 0..Len(parts)] == IF n = 0 THEN <<>> ELSE upto[n - 1] \o parts[n]
  IN upto[Len(parts)]

Unless(left, line) == IF left THEN <<>> ELSE <<line>>

(* What lines say, without the blank ones.                                 *)
NotBlank(lines) == Gathered([i \in 1..Len(lines) |-> Unless(IsBlank(lines[i]), lines[i])])

(* What an author wrote that is not a heading, in order: a hash after an   *)
(* odd number of fences is not one.                                        *)
InCode(document, i) == Cardinality({j \in 1..(i - 1) : document[j].is = "fence"}) % 2 = 1
IsHeading(document, i) == document[i].is = "heading" /\ ~InCode(document, i)
Prose(document) ==
  Gathered([i \in 1..Len(document) |->
              Unless(IsBlank(document[i]) \/ IsHeading(document, i), document[i])])

(* What is sent to be read is what was written: no line is dropped, sent   *)
(* twice, or cut off by a hash in a code block.                            *)
Sent(sections) == Gathered([k \in 1..Len(sections) |-> NotBlank(sections[k].text)])
SendsAll(document) == Sent(Sections(document)) = Prose(document)
=============================================================================
