------------------------------ MODULE HeapViews ------------------------------
(***************************************************************************)
(* The heap as seen from some slots up to the names of the nodes: nodes    *)
(* are numbered in the order in which a walk from those slots meets them.  *)
(* The runs use it as their VIEW.                                          *)
(***************************************************************************)
EXTENDS NodeHeap

RECURSIVE Visit(_, _, _)
Visit(heap, slots, met) ==
  IF slots = <<>> THEN met
  ELSE LET s == Head(slots)
       IN  IF IsRef(s) /\ \A i \in DOMAIN met : met[i] # s.ref
             THEN Visit(heap, Parts(heap[s.ref]) \o Tail(slots), Append(met, s.ref))
             ELSE Visit(heap, Tail(slots), met)

Canonical(heap, slots) ==
  LET met       == Visit(heap, slots, <<>>)
      Number(s) == IF IsRef(s) THEN Ref(CHOOSE i \in DOMAIN met : met[i] = s.ref) ELSE s
      Renamed(node) ==
        IF node.kind = "array"
          THEN [node EXCEPT !.items = [i \in DOMAIN @ |-> Number(@[i])]]
          ELSE [node EXCEPT !.fields = [i \in DOMAIN @ |->
                                          Field(@[i].key, Number(@[i].value))]]
  IN  <<[i \in DOMAIN met |-> Renamed(heap[met[i]])],
        [i \in DOMAIN slots |-> Number(slots[i])]>>
=============================================================================
