--------------------------- MODULE PatchRefinement ---------------------------
(***************************************************************************)
(* The heap of PatchApply against the immutable values of PatchTrees.      *)
(***************************************************************************)
EXTENDS PatchApply, PatchTrees

NormalForm(value) == normalizeValueForSchema(value, Root)

\* The clone edited in place through resolved pointers does what RFC 6902 says
\* of immutable values, all of it or nothing.
Abstract == INSTANCE PatchSpec WITH
  Operations <- Ops(Scalars \cup {Argument}),
  Done       <- SpecOp,
  Normalized <- NormalForm,
  input      <- View(heap, doc),
  draft      <- View(heap, working),
  schemaful  <- cfg.hasSchema

ImplementsPatchSpec == Abstract!PatchSpecification
=============================================================================
