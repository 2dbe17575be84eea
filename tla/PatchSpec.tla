------------------------------ MODULE PatchSpec ------------------------------
(***************************************************************************)
(* What applying a patch promises (RFC 6902, tech-docs/patch.md, the       *)
(* comment of ApplyPatch): the operations are applied in order to a draft, *)
(* the caller's document does not change, and the caller gets the last     *)
(* draft, normalised when there is a schema, or nothing at all.            *)
(***************************************************************************)
EXTENDS JSONValues

CONSTANTS
  Operations,    \* the operations a patch may hold
  MaxOps,        \* bound: operations in a patch
  Done(_, _),    \* what an operation makes of a document
  Invalid,       \* what it makes of one it fails on
  Normalized(_)  \* the normal form of a document, if it has one

VARIABLES
  input,      \* the caller's document
  draft,      \* the document so far
  schemaful,  \* is there a schema, attached or supplied
  status,     \* "applying", "done" or "failed"
  applied     \* number of operations applied

specVars == <<input, draft, schemaful, status, applied>>

SpecInit == status = "applying" /\ applied = 0 /\ draft = input

SpecStep(op) ==
  /\ status = "applying" /\ applied < MaxOps
  /\ LET new == Done(draft, op)
     IN  IF new = Invalid THEN status' = "failed" /\ draft' = Void
                          ELSE status' = status   /\ draft' = new
  /\ applied' = applied + 1
  /\ UNCHANGED <<input, schemaful>>

SpecFinish ==
  /\ status = "applying"
  /\ LET norm == Normalized(draft)
     IN  IF ~schemaful THEN status' = "done"   /\ draft' = draft
         ELSE IF norm.ok THEN status' = "done" /\ draft' = norm.value
         ELSE status' = "failed" /\ draft' = Void
  /\ UNCHANGED <<input, schemaful, applied>>

SpecNext == SpecFinish \/ \E op \in Operations : SpecStep(op)

PatchSpecification == SpecInit /\ [][SpecNext]_specVars
=============================================================================
