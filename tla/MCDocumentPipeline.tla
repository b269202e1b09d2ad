------------------------- MODULE MCDocumentPipeline -------------------------
(***************************************************************************)
(* A document and the uploads of two or three versions of it, under one or *)
(* two file names, of a type with a preview or one without.                *)
(***************************************************************************)
EXTENDS DocumentPipeline, TLC

CONSTANTS u1, u2, u3, a, b

TwoUploads   == {u1, u2}
ThreeUploads == {u1, u2, u3}
OneName      == {a}
TwoNames     == {a, b}
DocxOnly     == {"DOCX"}
AllMimes     == {"DOCX", "PDF"}

\* Uploads are interchangeable, and so are file names.
Symmetry == Permutations(ThreeUploads) \cup Permutations(TwoNames)

=============================================================================
