--------------------------- MODULE MCCmsMetadata ----------------------------
(* The instance of CmsMetadata that TLC checks. *)
EXTENDS CmsMetadata, TLC

\* Texts, images of edits and edit slots are interchangeable; no property is a liveness one.
Symmetric == Permutations(Text) \cup Permutations(EditImage) \cup Permutations(Editor)
=============================================================================
