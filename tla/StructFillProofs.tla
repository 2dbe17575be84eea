--------------------------- MODULE StructFillProofs ---------------------------
(***************************************************************************)
(* Proofs about StructFill for any Go types, documents, patches, prepared  *)
(* memories and number of calls; and about the integer conversions of      *)
(* Numbers.                                                                *)
(*                                                                         *)
(* The inductive invariant speaks of what the activations of a call may    *)
(* still write to.  Its parts take the memory, the cells and the call as   *)
(* arguments, so that one lemma says what a new cell or a store does.      *)
(***************************************************************************)
EXTENDS StructFill, TLAPS

Places(cs) == [cell : DOMAIN cs, path : Seq(Nat)]

\* Memory is typed.
Typed(m, cs) ==
  /\ DOMAIN m \subseteq Places(cs)
  /\ \A a \in DOMAIN m :
       /\ m[a].kind = "pointer" => m[a].cell \in DOMAIN cs /\ cs[m[a].cell] = "pointee"
       /\ m[a].kind = "slice" => m[a].cell \in DOMAIN cs /\ cs[m[a].cell] = "elements"

\* The call knows its target, and how much memory there was.
Known(cs, c) ==
  /\ c = [status |-> c.status, target |-> c.target, source |-> c.source,
          before |-> c.before, mark |-> c.mark, like |-> c.like]
  /\ c.status # "ready" =>
       /\ c.target \in DOMAIN cs /\ cs[c.target] = "struct"
       /\ c.mark \in 0..Len(cs)
       /\ DOMAIN c.before \subseteq Places(cs)
       /\ \A a \in DOMAIN c.before : a.cell <= c.mark

\* A place a call may write to, or below.
Writable(a, m, cs, c) ==
  /\ a \in Places(cs)
  /\ a.cell \notin SliceCells(m)
  /\ c.target > c.mark => a.cell > c.mark
  /\ cs[a.cell] = "struct" => a.cell = c.target

\* A part of the target the document speaks of, unless it is no part of a
\* caller's struct.
Meant(a, cs, c) ==
  cs[a.cell] = "struct" => a.path # <<>> /\ Mentions(c.source, a.path[1])

\* An activation writes where it may: to what is meant, except that the loop
\* over the fields of the target has the target itself.  An array's items are
\* built in elements this call has allocated.
Activation(f, m, cs, c) ==
  /\ f = [do |-> f.do, source |-> f.source, at |-> f.at, type |-> f.type,
          next |-> f.next, into |-> f.into]
  /\ f.next \in Nat \ {0}
  /\ Writable(f.at, m, cs, c) /\ Writable(f.into, m, cs, c)
  /\ \/ Meant(f.at, cs, c) /\ Meant(f.into, cs, c)
     \/ f.do = "fields" /\ f.at.path = <<>> /\ f.type = StructType /\ f.source = c.source
  /\ f.do = "items" => cs[f.at.cell] = "elements" /\ f.at.cell > c.mark

\* No activation below the loop over an array's items, nor the loop itself when
\* it stores the slice, writes to the elements.
Stacked(s, m, cs, c) ==
  /\ s \in Seq({s[i] : i \in DOMAIN s})
  /\ \A i \in DOMAIN s : Activation(s[i], m, cs, c)
  /\ \A i, j \in DOMAIN s : s[i].do = "items" =>
       /\ i <= j => s[j].into.cell # s[i].at.cell
       /\ i < j => s[j].at.cell # s[i].at.cell

\* OnlyMentionedFields and InputIsLeftAlone of a call that is under way or over.
OnlyMentioned(m, cs, c) ==
  \A a \in DOMAIN m \cup DOMAIN c.before :
    cs[a.cell] = "struct" /\ Read(m, a) # Read(c.before, a) =>
      a.cell = c.target /\ a.path # <<>> /\ Mentions(c.source, a.path[1])
LeftAlone(m, c) ==
  /\ c.target > c.mark =>
       \A a \in DOMAIN m \cup DOMAIN c.before :
         a.cell <= c.mark => Read(m, a) = Read(c.before, a)
  /\ \A a \in DOMAIN m : a.cell > c.mark /\ Refers(m[a]) => m[a].cell > c.mark

Memory(m, cs, c) == Typed(m, cs) /\ OnlyMentioned(m, cs, c) /\ LeftAlone(m, c)

IInv ==
  /\ cells \in Seq(CellKind) /\ calls \in Nat
  /\ \A v \in Variables : v \in DOMAIN cells /\ cells[v] = "struct"
  /\ call.status \in {"ready", "filling", "filled", "failed"}
  /\ Typed(mem, cells) /\ Known(cells, call)
  /\ call.status # "ready" => Memory(mem, cells, call)
  /\ IF call.status = "filling" THEN Stacked(stack, mem, cells, call) ELSE stack = <<>>

-----------------------------------------------------------------------------
(* Sequences.                                                              *)

LEMMA TailOf ==
  ASSUME NEW S, NEW s \in Seq(S), s # <<>>
  PROVE  /\ Tail(s) \in Seq(S) /\ Head(s) = s[1] /\ 1 \in DOMAIN s
         /\ DOMAIN Tail(s) = 1..Len(s) - 1 /\ DOMAIN s = 1..Len(s) /\ Len(s) \in Nat
         /\ \A i \in DOMAIN Tail(s) : i + 1 \in DOMAIN s /\ Tail(s)[i] = s[i + 1]
  OBVIOUS

LEMMA PushOf ==
  ASSUME NEW S, NEW s \in Seq(S), NEW x
  PROVE  /\ <<x>> \o s \in Seq(S \cup {x})
         /\ DOMAIN s = 1..Len(s) /\ Len(s) \in Nat
         /\ DOMAIN (<<x>> \o s) = 1..Len(s) + 1
         /\ (<<x>> \o s)[1] = x
         /\ \A i \in DOMAIN (<<x>> \o s) :
              i # 1 => i - 1 \in DOMAIN s /\ (<<x>> \o s)[i] = s[i - 1]
  OBVIOUS

LEMMA ItsOwnRange ==
  ASSUME NEW S, NEW s \in Seq(S)
  PROVE  s \in Seq({s[i] : i \in DOMAIN s})
  <1> DEFINE R == {s[i] : i \in DOMAIN s}
  <1>1. DOMAIN s = 1..Len(s) /\ Len(s) \in Nat
    OBVIOUS
  <1>2. s = [i \in 1..Len(s) |-> s[i]]
    OBVIOUS
  <1>3. \A i \in 1..Len(s) : s[i] \in R
    BY <1>1
  <1>4. s \in [1..Len(s) -> R]
    BY <1>2, <1>3
  <1> QED
    BY <1>1, <1>4

-----------------------------------------------------------------------------
(* Cells and places.                                                       *)

\* The cells grow: what was allocated stays what it is.
Grown(cs, new) ==
  /\ cs \in Seq(CellKind) /\ new \in Seq(CellKind)
  /\ DOMAIN cs \subseteq DOMAIN new /\ \A k \in DOMAIN cs : new[k] = cs[k]

LEMMA AppendGrows ==
  ASSUME NEW cs \in Seq(CellKind), NEW kind \in CellKind
  PROVE  /\ Grown(cs, Append(cs, kind))
         /\ Len(cs) \in Nat /\ DOMAIN cs = 1..Len(cs)
         /\ DOMAIN Append(cs, kind) = 1..Len(cs) + 1
         /\ Append(cs, kind)[Len(cs) + 1] = kind
  BY DEF Grown

LEMMA CellPlace ==
  ASSUME NEW cs \in Seq(CellKind), NEW k \in DOMAIN cs
  PROVE  Cell(k) \in Places(cs) /\ Cell(k).cell = k /\ Cell(k).path = <<>>
  BY DEF Cell, Places

LEMMA PartPlace ==
  ASSUME NEW cs \in Seq(CellKind), NEW a \in Places(cs), NEW i \in Nat
  PROVE  /\ Part(a, i) \in Places(cs) /\ Part(a, i).cell = a.cell
         /\ Part(a, i).path # <<>>
         /\ a.path = <<>> => Part(a, i).path[1] = i
         /\ a.path # <<>> => Part(a, i).path[1] = a.path[1]
  <1> DEFINE p == a.path
  <1>1. a.cell \in DOMAIN cs /\ p \in Seq(Nat)
    BY DEF Places
  <1>2. /\ Append(p, i) \in Seq(Nat) /\ Append(p, i) # <<>>
        /\ p = <<>> => Append(p, i)[1] = i
        /\ p # <<>> => Append(p, i)[1] = p[1]
    <2> HIDE DEF p
    <2>1. Append(p, i) \in Seq(Nat) /\ Len(Append(p, i)) = Len(p) + 1 /\ Len(p) \in Nat
      BY <1>1
    <2>2. Append(p, i) # <<>>
      BY <2>1
    <2>3. p = <<>> => Append(p, i)[1] = i
      OBVIOUS
    <2>4. p # <<>> => Append(p, i)[1] = p[1]
      <3>1. p # <<>> => Len(p) # 0
        BY <1>1
      <3> QED
        BY <1>1, <3>1
    <2> QED BY <2>1, <2>2, <2>3, <2>4
  <1> QED
    BY <1>1, <1>2 DEF Part, Places

LEMMA GrownPlace ==
  ASSUME NEW cs, NEW new, Grown(cs, new), NEW a \in Places(cs)
  PROVE  a \in Places(new) /\ a.cell \in DOMAIN cs /\ new[a.cell] = cs[a.cell]
  BY DEF Grown, Places

-----------------------------------------------------------------------------
(* The stack of activations.                                               *)

LEMMA Popped ==
  ASSUME NEW s, NEW m, NEW cs, NEW c, Stacked(s, m, cs, c), s # <<>>
  PROVE  /\ Stacked(Tail(s), m, cs, c)
         /\ Activation(Head(s), m, cs, c)
         /\ Head(s).do = "items" =>
              /\ Head(s).into.cell # Head(s).at.cell
              /\ \A i \in DOMAIN Tail(s) : /\ Tail(s)[i].at.cell # Head(s).at.cell
                                           /\ Tail(s)[i].into.cell # Head(s).at.cell
  <1> DEFINE S == {s[i] : i \in DOMAIN s}
             t == Tail(s)
  <1>1. s \in Seq(S)
    BY DEF Stacked
  <1>2. /\ t \in Seq(S) /\ Head(s) = s[1] /\ 1 \in DOMAIN s
        /\ DOMAIN t = 1..Len(s) - 1 /\ DOMAIN s = 1..Len(s) /\ Len(s) \in Nat
        /\ \A i \in DOMAIN t : i + 1 \in DOMAIN s /\ t[i] = s[i + 1]
    <2> HIDE DEF S
    <2> QED BY <1>1, TailOf
  <1>3. t \in Seq({t[i] : i \in DOMAIN t})
    <2> HIDE DEF S, t
    <2> QED BY <1>2, ItsOwnRange
  <1> HIDE DEF S, t
  <1>4. /\ \A i \in DOMAIN s : Activation(s[i], m, cs, c)
        /\ \A i, j \in DOMAIN s : s[i].do = "items" =>
             /\ i <= j => s[j].into.cell # s[i].at.cell
             /\ i < j => s[j].at.cell # s[i].at.cell
    BY DEF Stacked
  <1>5. \A i \in DOMAIN t : Activation(t[i], m, cs, c)
    BY <1>2, <1>4
  <1>6. \A i, j \in DOMAIN t : t[i].do = "items" =>
          /\ i <= j => t[j].into.cell # t[i].at.cell
          /\ i < j => t[j].at.cell # t[i].at.cell
    BY <1>2, <1>4
  <1>7. s[1].do = "items" =>
          /\ s[1].into.cell # s[1].at.cell
          /\ \A i \in DOMAIN t : t[i].at.cell # s[1].at.cell /\ t[i].into.cell # s[1].at.cell
    BY <1>2, <1>4
  <1>8. Stacked(t, m, cs, c)
    BY <1>3, <1>5, <1>6 DEF Stacked
  <1> QED
    BY <1>2, <1>4, <1>7, <1>8 DEF t

LEMMA Pushed ==
  ASSUME NEW s, NEW m, NEW cs, NEW c, Stacked(s, m, cs, c),
         NEW f, Activation(f, m, cs, c),
         f.do = "items" =>
           /\ f.into.cell # f.at.cell
           /\ \A i \in DOMAIN s : s[i].at.cell # f.at.cell /\ s[i].into.cell # f.at.cell
  PROVE  Stacked(<<f>> \o s, m, cs, c)
  <1> DEFINE S == {s[i] : i \in DOMAIN s}
             t == <<f>> \o s
  <1>1. s \in Seq(S)
    BY DEF Stacked
  <1>2. /\ t \in Seq(S \cup {f})
        /\ DOMAIN s = 1..Len(s) /\ Len(s) \in Nat
        /\ DOMAIN t = 1..Len(s) + 1
        /\ t[1] = f
        /\ \A i \in DOMAIN t : i # 1 => i - 1 \in DOMAIN s /\ t[i] = s[i - 1]
    <2> HIDE DEF S
    <2> QED BY <1>1, PushOf
  <1> HIDE DEF t
  <1>3. t \in Seq({t[i] : i \in DOMAIN t})
    <2> HIDE DEF S
    <2> QED BY <1>2, ItsOwnRange
  <1> HIDE DEF S
  <1>4. /\ \A i \in DOMAIN s : Activation(s[i], m, cs, c)
        /\ \A i, j \in DOMAIN s : s[i].do = "items" =>
             /\ i <= j => s[j].into.cell # s[i].at.cell
             /\ i < j => s[j].at.cell # s[i].at.cell
    BY DEF Stacked
  <1>5. \A i \in DOMAIN t : Activation(t[i], m, cs, c)
    BY <1>2, <1>4
  <1>6. ASSUME NEW i \in DOMAIN t, NEW j \in DOMAIN t, t[i].do = "items"
        PROVE  /\ i <= j => t[j].into.cell # t[i].at.cell
               /\ i < j => t[j].at.cell # t[i].at.cell
    <2>1. CASE i = 1
      BY <2>1, <1>6, <1>2
    <2>2. CASE i # 1
      <3>1. /\ i - 1 \in DOMAIN s /\ t[i] = s[i - 1]
            /\ i <= j => j - 1 \in DOMAIN s /\ t[j] = s[j - 1] /\ i - 1 <= j - 1
            /\ i < j => i - 1 < j - 1
        BY <2>2, <1>2
      <3> DEFINE k == i - 1
                 l == j - 1
      <3>2. k \in DOMAIN s /\ s[k].do = "items" /\ t[i] = s[k]
        BY <3>1, <1>6
      <3>3. ASSUME i <= j  PROVE t[j].into.cell # t[i].at.cell
        <4>1. l \in DOMAIN s /\ t[j] = s[l] /\ k <= l
          BY <3>1, <3>3
        <4> QED
          BY <3>2, <4>1, <1>4
      <3>4. ASSUME i < j  PROVE t[j].at.cell # t[i].at.cell
        <4>1. l \in DOMAIN s /\ t[j] = s[l] /\ k < l
          BY <3>1, <3>4, <1>2
        <4> QED
          BY <3>2, <4>1, <1>4
      <3> QED
        BY <3>3, <3>4
    <2> QED
      BY <2>1, <2>2
  <1>7. Stacked(t, m, cs, c)
    BY <1>3, <1>5, <1>6 DEF Stacked
  <1> QED
    BY <1>7 DEF t

\* Cells and memory may change under the activations as long as nothing they
\* write to becomes the elements of a slice in use.
LEMMA StillActivation ==
  ASSUME NEW f, NEW m, NEW cs, NEW c, Activation(f, m, cs, c),
         NEW new, Grown(cs, new),
         NEW mm, f.at.cell \notin SliceCells(mm), f.into.cell \notin SliceCells(mm)
  PROVE  Activation(f, mm, new, c)
  <1>1. f.at \in Places(cs) /\ f.into \in Places(cs)
    BY DEF Activation, Writable
  <1>2. /\ f.at \in Places(new) /\ new[f.at.cell] = cs[f.at.cell]
        /\ f.into \in Places(new) /\ new[f.into.cell] = cs[f.into.cell]
    BY <1>1, GrownPlace
  <1>3. Writable(f.at, mm, new, c) /\ Writable(f.into, mm, new, c)
    BY <1>2 DEF Activation, Writable
  <1>4. \/ Meant(f.at, new, c) /\ Meant(f.into, new, c)
        \/ f.do = "fields" /\ f.at.path = <<>> /\ f.type = StructType /\ f.source = c.source
    BY <1>2 DEF Activation, Meant
  <1> QED
    BY <1>2, <1>3, <1>4 DEF Activation

LEMMA StillStacked ==
  ASSUME NEW s, NEW m, NEW cs, NEW c, Stacked(s, m, cs, c),
         NEW new, Grown(cs, new),
         NEW mm, \A i \in DOMAIN s : /\ s[i].at.cell \notin SliceCells(mm)
                                     /\ s[i].into.cell \notin SliceCells(mm)
  PROVE  Stacked(s, mm, new, c)
  <1>1. \A i \in DOMAIN s : Activation(s[i], m, cs, c)
    BY DEF Stacked
  <1>2. \A i \in DOMAIN s : Activation(s[i], mm, new, c)
    BY <1>1, StillActivation
  <1> QED
    BY <1>2 DEF Stacked

-----------------------------------------------------------------------------
(* The memory.                                                             *)

LEMMA ReadWritten ==
  ASSUME NEW m, NEW a, NEW value
  PROVE  /\ DOMAIN Write(m, a, value) = DOMAIN m \cup {a}
         /\ Write(m, a, value)[a] = value /\ Read(Write(m, a, value), a) = value
         /\ \A b \in DOMAIN m : b # a => Write(m, a, value)[b] = m[b]
         /\ \A b : b # a => Read(Write(m, a, value), b) = Read(m, b)
  BY DEF Write, Read

\* What a pointer or a slice may refer to.
RefersTo(value, kind, ref, cs, mark) ==
  value.kind = kind => value.cell \in DOMAIN cs /\ cs[value.cell] = ref /\ value.cell > mark

Storable(value, cs, mark) ==
  /\ RefersTo(value, "pointer", "pointee", cs, mark)
  /\ RefersTo(value, "slice", "elements", cs, mark)

LEMMA StillTyped ==
  ASSUME NEW m, NEW cs, Typed(m, cs), NEW new, Grown(cs, new)
  PROVE  Typed(m, new)
  BY GrownPlace DEF Typed, Grown, Places

LEMMA StillKnown ==
  ASSUME NEW cs, NEW c, Known(cs, c), NEW new, Grown(cs, new)
  PROVE  Known(new, c)
  <1>1. Len(cs) \in Nat /\ Len(new) \in Nat /\ DOMAIN cs = 1..Len(cs) /\ DOMAIN new = 1..Len(new)
    BY DEF Grown
  <1>2. Len(cs) <= Len(new)
    BY <1>1 DEF Grown
  <1>3. ASSUME c.status # "ready"
        PROVE  /\ c.target \in DOMAIN new /\ new[c.target] = "struct"
               /\ c.mark \in 0..Len(new)
    BY <1>1, <1>2, <1>3 DEF Known, Grown
  <1>4. Places(cs) \subseteq Places(new)
    BY GrownPlace
  <1> QED
    BY <1>3, <1>4 DEF Known

LEMMA Unwritten ==
  ASSUME NEW m, NEW cs, NEW c, Memory(m, cs, c), Known(cs, c), c.status # "ready",
         NEW new, Grown(cs, new)
  PROVE  Memory(m, new, c)
  <1>1. \A a \in DOMAIN m \cup DOMAIN c.before : new[a.cell] = cs[a.cell]
    BY GrownPlace DEF Memory, Typed, Known
  <1>2. OnlyMentioned(m, new, c)
    BY <1>1 DEF Memory, OnlyMentioned
  <1> QED
    BY <1>2, StillTyped DEF Memory

LEMMA Written ==
  ASSUME NEW m, NEW cs, NEW c, Memory(m, cs, c), Known(cs, c), c.status # "ready",
         NEW new, Grown(cs, new),
         NEW a, Writable(a, m, cs, c), Meant(a, cs, c),
         NEW value, Storable(value, new, c.mark)
  PROVE  Memory(Write(m, a, value), new, c)
  <1> DEFINE mm == Write(m, a, value)
  <1>1. /\ DOMAIN mm = DOMAIN m \cup {a}
        /\ mm[a] = value /\ Read(mm, a) = value
        /\ \A b \in DOMAIN m : b # a => mm[b] = m[b]
        /\ \A b : b # a => Read(mm, b) = Read(m, b)
    BY DEF Write, Read
  <1> HIDE DEF mm
  <1>2. Memory(m, new, c)
    BY Unwritten
  <1>3. a \in Places(new) /\ new[a.cell] = cs[a.cell]
    BY GrownPlace DEF Writable
  <1>4. Typed(mm, new)
    BY <1>1, <1>2, <1>3 DEF Memory, Typed, Storable, RefersTo
  <1>5. OnlyMentioned(mm, new, c)
    BY <1>1, <1>2, <1>3 DEF Memory, OnlyMentioned, Writable, Meant
  <1>6. LeftAlone(mm, c)
    <2>1. ASSUME c.target > c.mark, NEW b \in DOMAIN mm \cup DOMAIN c.before, b.cell <= c.mark
          PROVE  Read(mm, b) = Read(c.before, b)
      <3>1. a.cell \in Nat /\ c.mark \in Nat
        <4>1. DOMAIN cs \subseteq Nat /\ Len(cs) \in Nat
          BY DEF Grown
        <4> QED
          BY <4>1 DEF Writable, Places, Known
      <3>2. b # a
        BY <2>1, <3>1 DEF Writable
      <3> QED
        BY <2>1, <3>2, <1>1, <1>2 DEF Memory, LeftAlone
    <2>2. ASSUME NEW b \in DOMAIN mm, b.cell > c.mark, Refers(mm[b])
          PROVE  mm[b].cell > c.mark
      BY <2>2, <1>1, <1>2 DEF Memory, LeftAlone, Refers, Storable, RefersTo
    <2> QED
      BY <2>1, <2>2 DEF LeftAlone
  <1>7. Memory(mm, new, c)
    BY <1>4, <1>5, <1>6 DEF Memory
  <1> QED
    BY <1>7 DEF mm

LEMMA SlicesWritten ==
  ASSUME NEW m, NEW a, NEW value
  PROVE  /\ value.kind # "slice" => SliceCells(Write(m, a, value)) \subseteq SliceCells(m)
         /\ SliceCells(Write(m, a, value)) \subseteq SliceCells(m) \cup {value.cell}
  <1> DEFINE mm == Write(m, a, value)
  <1>1. /\ DOMAIN mm = DOMAIN m \cup {a} /\ mm[a] = value
        /\ \A b \in DOMAIN m : b # a => mm[b] = m[b]
    BY DEF Write
  <1> HIDE DEF mm
  <1>2. ASSUME NEW k \in SliceCells(mm)
        PROVE  k \in SliceCells(m) \/ (value.kind = "slice" /\ k = value.cell)
    <2>1. PICK b \in DOMAIN mm : mm[b].kind = "slice" /\ k = mm[b].cell
      BY DEF SliceCells
    <2>2. CASE b = a
      BY <2>1, <2>2, <1>1
    <2>3. CASE b # a
      <3>1. b \in DOMAIN m /\ m[b].kind = "slice" /\ k = m[b].cell
        BY <2>1, <2>3, <1>1
      <3> QED
        BY <3>1 DEF SliceCells
    <2> QED
      BY <2>2, <2>3
  <1> QED
    BY <1>2 DEF mm

-----------------------------------------------------------------------------
(* The steps.                                                              *)

LEMMA InitIInv == Init => IInv
  <1> SUFFICES ASSUME Init  PROVE IInv
    OBVIOUS
  <1>1. VariableCount \in Nat /\ cells = [v \in 1..VariableCount |-> "struct"]
    BY StructFillAssumption DEF Init, Variables
  <1>2. cells \in Seq(CellKind) /\ DOMAIN cells = Variables
    BY <1>1 DEF CellKind, Variables
  <1>3. Typed(mem, cells)
    BY <1>2, StructFillAssumption DEF Init, Typed, Places
  <1>4. Known(cells, call)
    BY DEF Init, NoCall, Known
  <1> QED
    BY <1>1, <1>2, <1>3, <1>4 DEF Init, IInv, NoCall

\* Nothing in memory refers to cells beyond the ones there are.
LEMMA BeginIInv ==
  ASSUME IInv, call.status # "filling", NEW target, NEW source, NEW like,
         Begin(target, source, like), UNCHANGED mem,
         Grown(cells, cells'), target \in DOMAIN cells', cells'[target] = "struct",
         target \in DOMAIN cells \/ target > Len(cells)
  PROVE  IInv'
  <1>1. /\ Len(cells) \in Nat /\ DOMAIN cells = 1..Len(cells)
        /\ Len(cells') \in Nat /\ DOMAIN cells' = 1..Len(cells')
        /\ Len(cells) <= Len(cells')
    BY DEF Grown
  <1>2. \A a \in DOMAIN mem : a \in Places(cells) /\ a \in Places(cells')
                                /\ a.cell \in DOMAIN cells
    BY GrownPlace DEF IInv, Typed, Places
  <1>3. /\ call' = [status |-> call'.status, target |-> target, source |-> source,
                    before |-> mem, mark |-> Len(cells), like |-> like]
        /\ call'.status = IF source.kind = "object" THEN "filling" ELSE "failed"
        /\ stack' = IF source.kind = "object"
                      THEN <<Fields(source, Cell(target), StructType)>> ELSE <<>>
    BY DEF Begin
  <1>4. /\ call'.target = target /\ call'.source = source /\ call'.before = mem
        /\ call'.mark = Len(cells) /\ call'.like = like
        /\ call'.status \in {"filling", "failed"}
        /\ call'.status = "filling" <=> source.kind = "object"
    BY <1>3
  <1>5. Typed(mem, cells')
    BY StillTyped DEF IInv
  <1>6. Known(cells', call')
    BY <1>1, <1>2, <1>3, <1>4 DEF Known
  <1>7. Memory(mem, cells', call')
    <2>1. OnlyMentioned(mem, cells', call')
      BY <1>4 DEF OnlyMentioned
    <2>2. LeftAlone(mem, call')
      BY <1>1, <1>2, <1>4 DEF LeftAlone
    <2> QED
      BY <1>5, <2>1, <2>2 DEF Memory
  <1>8. IF call'.status = "filling" THEN Stacked(stack', mem, cells', call')
        ELSE stack' = <<>>
    <2>1. CASE call'.status # "filling"
      BY <2>1, <1>3, <1>4
    <2>2. CASE call'.status = "filling"
      <3> DEFINE root == Cell(target)
                 f    == Fields(source, root, StructType)
      <3>1. stack' = <<f>>
        BY <2>2, <1>3, <1>4
      <3>2. root \in Places(cells') /\ root.cell = target /\ root.path = <<>>
        BY CellPlace DEF Grown
      <3>3. /\ f = [do |-> "fields", source |-> source, at |-> root, type |-> StructType,
                    next |-> 1, into |-> root]
        BY DEF Fields, Assign
      <3> HIDE DEF f, root
      <3>4. target \notin SliceCells(mem)
        <4>1. \A k \in SliceCells(mem) : k \in DOMAIN cells /\ cells'[k] = "elements"
          BY DEF IInv, Typed, SliceCells, Grown
        <4> QED
          BY <4>1
      <3>5. Writable(root, mem, cells', call')
        BY <3>2, <3>4, <1>4 DEF Writable
      <3>6. Activation(f, mem, cells', call')
        BY <3>2, <3>3, <3>5, <1>4 DEF Activation
      <3>7. <<f>> \in Seq({<<f>>[i] : i \in DOMAIN <<f>>})
        BY ItsOwnRange, <<f>> \in Seq({f})
      <3>8. DOMAIN <<f>> = {1} /\ <<f>>[1] = f /\ f.do # "items"
        BY <3>3
      <3>9. Stacked(<<f>>, mem, cells', call')
        BY <3>6, <3>7, <3>8 DEF Stacked
      <3> QED
        BY <2>2, <3>1, <3>9
    <2> QED
      BY <2>1, <2>2
  <1>9. \A v \in Variables : v \in DOMAIN cells' /\ cells'[v] = "struct"
    BY DEF IInv, Grown
  <1> QED
    BY <1>4, <1>5, <1>6, <1>7, <1>8, <1>9 DEF IInv, Begin, Grown

LEMMA ToStructTryIInv ==
  ASSUME IInv, NEW v \in Variables, NEW source, ToStructTry(v, source)
  PROVE  IInv'
  <1>1. Grown(cells, cells')
    BY DEF ToStructTry, IInv, Grown
  <1>2. v \in DOMAIN cells /\ cells'[v] = "struct" /\ cells' = cells
    BY DEF ToStructTry, IInv
  <1> QED
    BY <1>1, <1>2, BeginIInv DEF ToStructTry, MayCall

LEMMA FillNewIInv ==
  ASSUME IInv, MayCall, NEW source, NEW like, FillNew(source, like)
  PROVE  IInv'
  <1> DEFINE target == Len(cells) + 1
  <1>1. Grown(cells, cells') /\ Len(cells) \in Nat
        /\ target \in DOMAIN cells' /\ cells'[target] = "struct"
    BY AppendGrows DEF FillNew, IInv, CellKind
  <1>2. Begin(target, source, like) /\ UNCHANGED mem /\ target > Len(cells)
    BY <1>1 DEF FillNew
  <1> HIDE DEF target
  <1> QED
    BY <1>1, <1>2, BeginIInv DEF MayCall

LEMMA Copied ==
  ASSUME NEW m, NEW cs \in Seq(CellKind), Typed(m, cs),
         NEW v \in DOMAIN cs, NEW w \in DOMAIN cs
  PROVE  Typed(CopyStruct(m, w, v), cs)
  <1> DEFINE mm   == CopyStruct(m, w, v)
             Into == {[cell |-> v, path |-> x.path] : x \in {x \in DOMAIN m : x.cell = w}}
             Rest == {x \in DOMAIN m : x.cell # v}
  <1>1. mm = [a \in Rest \cup Into |->
                IF a.cell = v THEN m[[cell |-> w, path |-> a.path]] ELSE m[a]]
    BY DEF CopyStruct
  <1> HIDE DEF mm
  <1>2. ASSUME NEW a \in DOMAIN mm
        PROVE  a \in Places(cs) /\ \E b \in DOMAIN m : mm[a] = m[b]
    <2>1. CASE a.cell # v
      <3>1. a \in Rest
        BY <2>1, <1>1, <1>2
      <3> QED
        BY <2>1, <3>1, <1>1 DEF Typed
    <2>2. CASE a.cell = v
      <3>1. PICK x \in DOMAIN m : x.cell = w /\ a = [cell |-> v, path |-> x.path]
        BY <2>2, <1>1, <1>2
      <3>2. x \in [cell : DOMAIN cs, path : Seq(Nat)]
        BY DEF Typed, Places
      <3>3. x = [cell |-> w, path |-> a.path] /\ a \in Places(cs)
        BY <3>1, <3>2 DEF Places
      <3>4. mm[a] = m[x]
        BY <2>2, <3>3, <1>1, <1>2
      <3> QED
        BY <3>3, <3>4
    <2> QED
      BY <2>1, <2>2
  <1>3. Typed(mm, cs)
    BY <1>2 DEF Typed
  <1> QED
    BY <1>3 DEF mm

\* Copies are made between calls.
LEMMA CopyIInv ==
  ASSUME IInv, call.status # "filling",
         NEW v \in DOMAIN cells, NEW w \in DOMAIN cells,
         mem' = CopyStruct(mem, w, v), call' = NoCall, UNCHANGED <<cells, stack, calls>>
  PROVE  IInv'
  <1>1. Typed(mem', cells')
    BY Copied DEF IInv
  <1>2. Known(cells', call') /\ call'.status = "ready"
    BY DEF NoCall, Known
  <1> QED
    BY <1>1, <1>2 DEF IInv

\* What is known of a running call: its innermost activation and the rest.
LEMMA RunningCall ==
  ASSUME IInv, NEW do, Running(do)
  PROVE  /\ Known(cells, call) /\ call.status = "filling"
         /\ Memory(mem, cells, call) /\ Stacked(Parent, mem, cells, call)
         /\ Grown(cells, cells)
         /\ Activation(Top, mem, cells, call) /\ Top.do = do
         /\ do # "fields" => Meant(Top.at, cells, call) /\ Meant(Top.into, cells, call)
         /\ do = "items" =>
              /\ Top.into.cell # Top.at.cell
              /\ \A i \in DOMAIN Parent : /\ Parent[i].at.cell # Top.at.cell
                                          /\ Parent[i].into.cell # Top.at.cell
  <1>1. Stacked(stack, mem, cells, call) /\ stack # <<>>
    BY DEF IInv, Running
  <1>2. Activation(Top, mem, cells, call) /\ Top.do = do
    BY <1>1, Popped DEF Running, Top
  <1> QED
    BY <1>1, <1>2, Popped DEF IInv, Running, Activation, Top, Parent, Grown

\* A step that goes on with the call: what is left to show of it.
LEMMA GoesOn ==
  ASSUME IInv, call.status = "filling", UNCHANGED <<call, calls>>,
         Grown(cells, cells'), Memory(mem', cells', call),
         Stacked(stack', mem', cells', call)
  PROVE  IInv'
  <1>1. Known(cells', call)
    BY StillKnown DEF IInv
  <1>2. \A v \in Variables : v \in DOMAIN cells' /\ cells'[v] = "struct"
    BY DEF IInv, Grown
  <1> QED
    BY <1>1, <1>2 DEF IInv, Memory, Grown

\* Storing a value that is no slice.
LEMMA Stores ==
  ASSUME IInv, Running("assign"), NEW value, value.kind # "slice",
         NEW new, Grown(cells, new), Storable(value, new, call.mark)
  PROVE  /\ Memory(Write(mem, Top.at, value), new, call)
         /\ Stacked(Parent, Write(mem, Top.at, value), new, call)
         /\ SliceCells(Write(mem, Top.at, value)) \subseteq SliceCells(mem)
  <1>1. /\ Known(cells, call) /\ call.status # "ready"
        /\ Memory(mem, cells, call) /\ Stacked(Parent, mem, cells, call)
        /\ Activation(Top, mem, cells, call) /\ Meant(Top.at, cells, call)
    BY RunningCall
  <1>2. Memory(Write(mem, Top.at, value), new, call)
    BY <1>1, Written DEF Activation
  <1>3. SliceCells(Write(mem, Top.at, value)) \subseteq SliceCells(mem)
    BY SlicesWritten
  <1>4. \A i \in DOMAIN Parent :
          /\ Parent[i].at.cell \notin SliceCells(Write(mem, Top.at, value))
          /\ Parent[i].into.cell \notin SliceCells(Write(mem, Top.at, value))
    BY <1>1, <1>3 DEF Stacked, Activation, Writable
  <1> QED
    BY <1>1, <1>2, <1>3, <1>4, StillStacked

LEMMA AssignNilIInv == ASSUME IInv, AssignNil  PROVE IInv'
  <1>1. Running("assign") /\ call.status = "filling" /\ Grown(cells, cells')
    BY DEF AssignNil, Assigning, Running, IInv, Grown
  <1>2. Zero.kind # "slice" /\ Storable(Zero, cells', call.mark)
    BY DEF Zero, Storable, RefersTo
  <1>3. mem' = Write(mem, Top.at, Zero) /\ stack' = Parent
    BY DEF AssignNil, Store
  <1> QED
    BY <1>1, <1>2, <1>3, Stores, GoesOn DEF AssignNil

LEMMA ConvertedKind ==
  ASSUME NEW source, NEW type, Converted(source, type).ok
  PROVE  Converted(source, type).value.kind \notin {"pointer", "slice"}
  <1> DEFINE r == Converted(source, type)
  <1>1. \/ type.kind \in {"string", "boolean"} /\ source.kind = type.kind /\ r = Stored(source)
        \/ \E n : r = Stored(GoInt(n))
        \/ r = Stored(Str(source.text))
        \/ r = Stored(Zero)
        \/ r = Stored(Native(source))
    BY DEF Converted, NoValue, Stored, ToInteger
  <1> HIDE DEF r
  <1>2. r.value.kind \notin {"pointer", "slice"}
    BY <1>1 DEF Stored, GoInt, Str, Scalar, Zero, Native
  <1> QED
    BY <1>2 DEF r

LEMMA AssignScalarIInv == ASSUME IInv, AssignScalar  PROVE IInv'
  <1>1. Running("assign") /\ call.status = "filling" /\ Grown(cells, cells')
    BY DEF AssignScalar, Running, IInv, Grown
  <1>2. PICK value : /\ value.kind \notin {"pointer", "slice"}
                     /\ mem' = Write(mem, Top.at, value) /\ stack' = Parent
    BY ConvertedKind DEF AssignScalar, Store
  <1>3. value.kind # "slice" /\ Storable(value, cells', call.mark)
    BY <1>2 DEF Storable, RefersTo
  <1> QED
    BY <1>1, <1>2, <1>3, Stores, GoesOn DEF AssignScalar

\* A new activation may write to the part of memory it is given.
LEMMA NewAssign ==
  ASSUME NEW m, NEW cs, NEW c, NEW a, Writable(a, m, cs, c), Meant(a, cs, c),
         NEW source, NEW type
  PROVE  /\ Activation(Assign(source, a, type), m, cs, c)
         /\ Assign(source, a, type).do # "items"
         /\ Activation(Fields(source, a, type), m, cs, c)
         /\ Fields(source, a, type).do # "items"
  <1>1. Fields(source, a, type) =
          [do |-> "fields", source |-> source, at |-> a, type |-> type, next |-> 1, into |-> a]
    BY DEF Fields, Assign
  <1> QED
    BY <1>1 DEF Activation, Assign

\* A loop that has its next round before it.
LEMMA Advanced ==
  ASSUME NEW f, NEW m, NEW cs, NEW c, Activation(f, m, cs, c)
  PROVE  /\ Activation([f EXCEPT !.next = @ + 1], m, cs, c)
         /\ [f EXCEPT !.next = @ + 1].do = f.do
         /\ [f EXCEPT !.next = @ + 1].at = f.at
         /\ [f EXCEPT !.next = @ + 1].into = f.into
  <1> DEFINE g == [f EXCEPT !.next = @ + 1]
  <1>1. f = [do |-> f.do, source |-> f.source, at |-> f.at, type |-> f.type,
             next |-> f.next, into |-> f.into]
    BY DEF Activation
  <1>2. g = [do |-> f.do, source |-> f.source, at |-> f.at, type |-> f.type,
             next |-> f.next + 1, into |-> f.into]
    BY <1>1
  <1> HIDE DEF g
  <1>3. /\ g.do = f.do /\ g.at = f.at /\ g.into = f.into /\ g.source = f.source
        /\ g.type = f.type /\ g.next = f.next + 1
        /\ g = [do |-> g.do, source |-> g.source, at |-> g.at, type |-> g.type,
                next |-> g.next, into |-> g.into]
    BY <1>2
  <1>4. Activation(g, m, cs, c)
    BY <1>3 DEF Activation
  <1> QED
    BY <1>3, <1>4 DEF g

LEMMA AssignPointerIInv == ASSUME IInv, AssignPointer  PROVE IInv'
  <1> DEFINE old == Read(mem, Top.at)
             new == Len(cells) + 1
             elem == GoType[Top.type].elem
             Go(k) == Assign(Top.source, Cell(k), elem)
  <1>1. Running("assign") /\ call.status = "filling" /\ UNCHANGED <<call, calls>>
    BY DEF AssignPointer, Assigning, Running
  <1>2. /\ Known(cells, call) /\ Memory(mem, cells, call) /\ Stacked(Parent, mem, cells, call)
        /\ Grown(cells, cells) /\ Activation(Top, mem, cells, call)
    BY <1>1, RunningCall
  <1>3. /\ \A k \in SliceCells(mem) : k \in DOMAIN cells /\ cells[k] = "elements"
        /\ Len(cells) \in Nat /\ DOMAIN cells = 1..Len(cells) /\ call.mark \in 0..Len(cells)
    BY <1>1, <1>2 DEF Memory, Typed, SliceCells, Grown, Known
  <1>4. CASE old.kind = "pointer"
    <2>1. UNCHANGED <<mem, cells>> /\ stack' = <<Go(old.cell)>> \o Parent
      BY <1>4 DEF AssignPointer
    <2>2. Top.at \in DOMAIN mem /\ old = mem[Top.at]
      BY <1>4 DEF Read, Zero
    <2>3. /\ old.cell \in DOMAIN cells /\ cells[old.cell] = "pointee"
          /\ call.target > call.mark => old.cell > call.mark
      BY <1>2, <1>4, <2>2 DEF Memory, Typed, LeftAlone, Refers, Activation, Writable
    <2>4. /\ Writable(Cell(old.cell), mem, cells, call) /\ Meant(Cell(old.cell), cells, call)
      BY <1>2, <1>3, <2>3, CellPlace DEF Writable, Meant, Grown
    <2>5. Stacked(<<Go(old.cell)>> \o Parent, mem, cells, call)
      BY <1>2, <2>4, NewAssign, Pushed
    <2> QED
      BY <1>1, <1>2, <2>1, <2>5, GoesOn
  <1>5. CASE old.kind # "pointer"
    <2>1. /\ cells' = Append(cells, "pointee") /\ mem' = Write(mem, Top.at, Pointer(new))
          /\ stack' = <<Go(new)>> \o Parent
      BY <1>5 DEF AssignPointer
    <2>2. /\ Grown(cells, cells') /\ new \in DOMAIN cells' /\ cells'[new] = "pointee"
          /\ new > call.mark /\ new \notin SliceCells(mem)
      BY <1>2, <1>3, <2>1, AppendGrows DEF Grown, CellKind
    <2>3. Pointer(new).kind # "slice" /\ Storable(Pointer(new), cells', call.mark)
      BY <2>2 DEF Pointer, Storable, RefersTo
    <2>4. /\ Memory(mem', cells', call) /\ Stacked(Parent, mem', cells', call)
          /\ SliceCells(mem') \subseteq SliceCells(mem)
      BY <1>1, <2>1, <2>2, <2>3, Stores
    <2>5. Writable(Cell(new), mem', cells', call) /\ Meant(Cell(new), cells', call)
      BY <2>2, <2>4, CellPlace DEF Writable, Meant, Grown
    <2>6. Stacked(<<Go(new)>> \o Parent, mem', cells', call)
      BY <2>4, <2>5, NewAssign, Pushed
    <2> QED
      BY <1>1, <2>1, <2>2, <2>4, <2>6, GoesOn
  <1> QED
    BY <1>4, <1>5

LEMMA AssignSliceIInv == ASSUME IInv, AssignSlice  PROVE IInv'
  <1> DEFINE new == Len(cells) + 1
             f   == Items(Top.source, Cell(new), GoType[Top.type].elem, Top.at)
  <1>1. /\ Running("assign") /\ call.status = "filling" /\ UNCHANGED <<mem, call, calls>>
        /\ cells' = Append(cells, "elements") /\ stack' = <<f>> \o Parent
    BY DEF AssignSlice, Assigning, Running
  <1>2. /\ Known(cells, call) /\ Memory(mem, cells, call) /\ Stacked(Parent, mem, cells, call)
        /\ Activation(Top, mem, cells, call) /\ Meant(Top.at, cells, call)
        /\ Grown(cells, cells)
    BY <1>1, RunningCall
  <1>3. /\ \A k \in SliceCells(mem) : k \in DOMAIN cells
        /\ Len(cells) \in Nat /\ DOMAIN cells = 1..Len(cells) /\ call.mark \in 0..Len(cells)
    BY <1>1, <1>2 DEF Memory, Typed, SliceCells, Grown, Known
  <1>4. /\ Grown(cells, cells') /\ new \in DOMAIN cells' /\ cells'[new] = "elements"
        /\ new > call.mark /\ new \notin SliceCells(mem) /\ new \notin DOMAIN cells
    BY <1>1, <1>2, <1>3, AppendGrows DEF Grown, CellKind
  <1>5. Memory(mem, cells', call)
    BY <1>1, <1>2, <1>4, Unwritten
  <1>6. /\ \A i \in DOMAIN Parent : /\ Parent[i].at.cell \in DOMAIN cells
                                    /\ Parent[i].into.cell \in DOMAIN cells
                                    /\ Parent[i].at.cell \notin SliceCells(mem)
                                    /\ Parent[i].into.cell \notin SliceCells(mem)
        /\ Top.at.cell \in DOMAIN cells
    BY <1>2 DEF Stacked, Activation, Writable, Places
  <1>7. Stacked(Parent, mem, cells', call)
    BY <1>2, <1>4, <1>6, StillStacked
  <1>8. /\ Cell(new) \in Places(cells') /\ Cell(new).cell = new
    BY <1>4, CellPlace DEF Grown
  <1>9. Writable(Cell(new), mem, cells', call) /\ Meant(Cell(new), cells', call)
    BY <1>4, <1>8 DEF Writable, Meant
  <1>10. Activation(Top, mem, cells', call) /\ cells'[Top.at.cell] = cells[Top.at.cell]
    <2>1. Top.at.cell \notin SliceCells(mem) /\ Top.into.cell \notin SliceCells(mem)
      BY <1>2 DEF Activation, Writable
    <2>2. Activation(Top, mem, cells', call)
      BY <1>2, <1>4, <2>1, StillActivation
    <2> QED
      BY <1>4, <1>6, <2>2 DEF Grown
  <1>11. Writable(Top.at, mem, cells', call) /\ Meant(Top.at, cells', call)
    BY <1>2, <1>10 DEF Activation, Meant
  <1>12. f = [do |-> "items", source |-> Top.source, at |-> Cell(new),
              type |-> GoType[Top.type].elem, next |-> 1, into |-> Top.at]
    BY DEF Items
  <1> HIDE DEF f
  <1>13. Activation(f, mem, cells', call)
    BY <1>4, <1>8, <1>9, <1>11, <1>12 DEF Activation
  <1>14. Stacked(<<f>> \o Parent, mem, cells', call)
    BY <1>4, <1>6, <1>7, <1>8, <1>12, <1>13, Pushed
  <1> QED
    BY <1>1, <1>4, <1>5, <1>14, GoesOn

LEMMA NextItemIInv == ASSUME IInv, NextItem  PROVE IInv'
  <1> DEFINE loop == [Top EXCEPT !.next = @ + 1]
             f    == Assign(Top.source.items[Top.next], Part(Top.at, Top.next), Top.type)
  <1>1. /\ Running("items") /\ call.status = "filling" /\ UNCHANGED <<mem, cells, call, calls>>
        /\ stack' = <<f>> \o (<<loop>> \o Parent)
    BY DEF NextItem, Running
  <1>2. /\ Known(cells, call) /\ Memory(mem, cells, call) /\ Stacked(Parent, mem, cells, call)
        /\ Activation(Top, mem, cells, call) /\ Meant(Top.at, cells, call)
        /\ Grown(cells, cells) /\ Top.do = "items"
        /\ Top.into.cell # Top.at.cell
        /\ \A i \in DOMAIN Parent : /\ Parent[i].at.cell # Top.at.cell
                                    /\ Parent[i].into.cell # Top.at.cell
    BY <1>1, RunningCall
  <1>3. /\ Activation(loop, mem, cells, call)
        /\ loop.do = "items" /\ loop.at = Top.at /\ loop.into = Top.into
    BY <1>2, Advanced
  <1> HIDE DEF loop
  <1>4. Stacked(<<loop>> \o Parent, mem, cells, call)
    BY <1>2, <1>3, Pushed
  <1>5. Top.next \in Nat /\ Top.at \in Places(cells) /\ cells[Top.at.cell] = "elements"
    BY <1>2 DEF Activation, Writable
  <1>6. Writable(Part(Top.at, Top.next), mem, cells, call)
        /\ Meant(Part(Top.at, Top.next), cells, call)
    BY <1>2, <1>5, PartPlace DEF Activation, Writable, Meant, Grown
  <1>7. Activation(f, mem, cells, call) /\ f.do # "items"
    BY <1>6, NewAssign
  <1> HIDE DEF f
  <1>8. Stacked(<<f>> \o (<<loop>> \o Parent), mem, cells, call)
    BY <1>4, <1>7, Pushed
  <1> QED
    BY <1>1, <1>2, <1>8, GoesOn

LEMMA SetSliceIInv == ASSUME IInv, SetSlice  PROVE IInv'
  <1> DEFINE value == Slice(Top.at.cell, Top.next - 1)
  <1>1. /\ Running("items") /\ call.status = "filling" /\ UNCHANGED <<cells, call, calls>>
        /\ mem' = Write(mem, Top.into, value) /\ stack' = Parent
    BY DEF SetSlice, Running
  <1>2. /\ Known(cells, call) /\ Memory(mem, cells, call) /\ Stacked(Parent, mem, cells, call)
        /\ Activation(Top, mem, cells, call) /\ Meant(Top.into, cells, call)
        /\ Grown(cells, cells) /\ Top.do = "items"
        /\ \A i \in DOMAIN Parent : /\ Parent[i].at.cell # Top.at.cell
                                    /\ Parent[i].into.cell # Top.at.cell
    BY <1>1, RunningCall
  <1>3. /\ value.kind = "slice" /\ value.cell = Top.at.cell
        /\ Storable(value, cells, call.mark)
    BY <1>2 DEF Slice, Storable, RefersTo, Activation, Writable, Places
  <1>4. Memory(mem', cells, call)
    BY <1>1, <1>2, <1>3, Written DEF Activation
  <1>5. SliceCells(mem') \subseteq SliceCells(mem) \cup {Top.at.cell}
    BY <1>1, <1>3, SlicesWritten
  <1>6. Stacked(Parent, mem', cells, call)
    <2>1. \A i \in DOMAIN Parent : /\ Parent[i].at.cell \notin SliceCells(mem')
                                   /\ Parent[i].into.cell \notin SliceCells(mem')
      BY <1>2, <1>5 DEF Stacked, Activation, Writable
    <2> QED
      BY <1>2, <2>1, StillStacked
  <1> QED
    BY <1>1, <1>2, <1>4, <1>6, GoesOn

LEMMA AssignStructIInv == ASSUME IInv, AssignStruct  PROVE IInv'
  <1> DEFINE f == Fields(Top.source, Top.at, Top.type)
  <1>1. /\ Running("assign") /\ call.status = "filling" /\ UNCHANGED <<mem, cells, call, calls>>
        /\ stack' = <<f>> \o Parent
    BY DEF AssignStruct, Assigning, Running
  <1>2. /\ Memory(mem, cells, call) /\ Stacked(Parent, mem, cells, call)
        /\ Activation(Top, mem, cells, call) /\ Meant(Top.at, cells, call)
        /\ Grown(cells, cells)
    BY <1>1, RunningCall
  <1>3. Stacked(<<f>> \o Parent, mem, cells, call)
    BY <1>2, NewAssign, Pushed DEF Activation
  <1> QED
    BY <1>1, <1>2, <1>3, GoesOn

LEMMA NextFieldIInv == ASSUME IInv, NextField  PROVE IInv'
  <1> DEFINE g      == GoType[Top.type].fields[Top.next]
             source == SourceFor(Top.source, g)
             loop   == [Top EXCEPT !.next = @ + 1]
             place  == Part(Top.at, Top.next)
             f      == Assign(source, place, g.type)
  <1>1. /\ Running("fields") /\ call.status = "filling" /\ UNCHANGED <<mem, cells, call, calls>>
        /\ Top.next <= Len(GoType[Top.type].fields)
        /\ stack' = IF IsVoid(source) THEN <<loop>> \o Parent
                    ELSE <<f>> \o (<<loop>> \o Parent)
    BY DEF NextField, Running
  <1>2. /\ Memory(mem, cells, call) /\ Stacked(Parent, mem, cells, call)
        /\ Activation(Top, mem, cells, call) /\ Grown(cells, cells) /\ Top.do = "fields"
    BY <1>1, RunningCall
  <1>3. Activation(loop, mem, cells, call) /\ loop.do # "items"
    BY <1>2, Advanced
  <1>4. Stacked(<<loop>> \o Parent, mem, cells, call)
    BY <1>2, <1>3, Pushed
  <1> HIDE DEF loop
  <1>5. CASE IsVoid(source)
    BY <1>1, <1>2, <1>4, <1>5, GoesOn
  <1>6. CASE ~IsVoid(source)
    <2>1. Top.next \in Nat \ {0} /\ Writable(Top.at, mem, cells, call)
          /\ Top.at \in Places(cells)
      BY <1>2 DEF Activation, Writable
    <2>2. /\ place \in Places(cells) /\ place.cell = Top.at.cell /\ place.path # <<>>
          /\ Top.at.path = <<>> => place.path[1] = Top.next
          /\ Top.at.path # <<>> => place.path[1] = Top.at.path[1]
      BY <1>2, <2>1, PartPlace DEF Grown
    <2> HIDE DEF place
    <2>3. Writable(place, mem, cells, call)
      BY <2>1, <2>2 DEF Writable
    <2>4. Meant(place, cells, call)
      <3>1. CASE Meant(Top.at, cells, call)
        BY <3>1, <2>2 DEF Meant
      <3>2. CASE Top.at.path = <<>> /\ Top.type = StructType /\ Top.source = call.source
        <4>1. Top.next \in DOMAIN GoType[StructType].fields
          BY <3>2, <1>1, <2>1, StructFillAssumption
        <4>2. Mentions(call.source, Top.next)
          BY <3>2, <4>1, <1>6 DEF Mentions
        <4> QED
          BY <3>2, <4>2, <2>2 DEF Meant
      <3> QED
        BY <3>1, <3>2, <1>2 DEF Activation
    <2>5. Activation(f, mem, cells, call) /\ f.do # "items"
      BY <2>3, <2>4, NewAssign
    <2> HIDE DEF f
    <2>6. Stacked(<<f>> \o (<<loop>> \o Parent), mem, cells, call)
      BY <1>4, <2>5, Pushed
    <2> QED
      BY <1>1, <1>2, <1>6, <2>6, GoesOn
  <1> QED
    BY <1>5, <1>6

LEMMA EndOfFieldsIInv == ASSUME IInv, EndOfFields  PROVE IInv'
  <1>1. /\ Running("fields") /\ call.status = "filling" /\ UNCHANGED <<mem, cells, call, calls>>
        /\ stack' = Parent
    BY DEF EndOfFields, Running
  <1> QED
    BY <1>1, RunningCall, GoesOn

\* The end of a call.
LEMMA EndsIInv ==
  ASSUME IInv, call.status = "filling", NEW status \in {"filled", "failed"},
         call' = [call EXCEPT !.status = status], stack' = <<>>,
         UNCHANGED <<mem, cells, calls>>
  PROVE  IInv'
  <1>1. call = [status |-> call.status, target |-> call.target, source |-> call.source,
                before |-> call.before, mark |-> call.mark, like |-> call.like]
    BY DEF IInv, Known
  <1>2. call' = [status |-> status, target |-> call.target, source |-> call.source,
                 before |-> call.before, mark |-> call.mark, like |-> call.like]
    BY <1>1
  <1>3. /\ call'.status = status /\ call'.target = call.target /\ call'.source = call.source
        /\ call'.before = call.before /\ call'.mark = call.mark /\ call'.like = call.like
    BY <1>2
  <1>4. Known(cells', call')
    BY <1>2, <1>3 DEF IInv, Known
  <1>5. Memory(mem', cells', call')
    BY <1>3 DEF IInv, Memory, OnlyMentioned, LeftAlone
  <1> QED
    BY <1>3, <1>4, <1>5 DEF IInv

LEMMA StepIInv == IInv /\ [Next]_vars => IInv'
  <1> SUFFICES ASSUME IInv, [Next]_vars  PROVE IInv'
    OBVIOUS
  <1>1. ASSUME NEW v \in Variables, NEW d \in Documents, ToStructTry(v, d)  PROVE IInv'
    BY <1>1, ToStructTryIInv
  <1>2. ASSUME MayCall, NEW r \in Patched(mem), FillNew(r.source, r.like)  PROVE IInv'
    BY <1>2, FillNewIInv
  <1>3. ASSUME NEW v \in Variables, NEW w \in Variables, Copy(v, w)  PROVE IInv'
    BY <1>3, CopyIInv DEF Copy, IInv
  <1>4. ASSUME NEW v \in Variables, TakeResult(v)  PROVE IInv'
    BY <1>4, CopyIInv DEF TakeResult, IInv, Known
  <1>5. CASE Reject
    BY <1>5, EndsIInv DEF Reject, Running
  <1>6. CASE Return
    BY <1>6, EndsIInv DEF Return
  <1>7. CASE UNCHANGED vars
    BY <1>7 DEF vars, IInv, Memory, Typed, Known, Stacked, Activation, Writable, Meant,
                OnlyMentioned, LeftAlone
  <1> QED
    BY <1>1, <1>2, <1>3, <1>4, <1>5, <1>6, <1>7, AssignNilIInv, AssignPointerIInv,
       AssignScalarIInv, AssignSliceIInv, AssignStructIInv, NextItemIInv, SetSliceIInv,
       NextFieldIInv, EndOfFieldsIInv DEF Next

\* The inductive invariant: of an activation it says where it may write, of the
\* stack that none below an array under construction writes to its elements.
THEOREM Inductive == Spec => []IInv
  BY InitIInv, StepIInv, PTL DEF Spec

-----------------------------------------------------------------------------
(* What it is for.                                                         *)

\* Memory stays typed, and a call that is over has left no activation behind.
THEOREM TypeCorrect == Spec => []TypeOK
  <1>1. IInv => TypeOK
    BY DEF IInv, TypeOK, Typed, Places
  <1> QED
    BY <1>1, Inductive, PTL

\* Whatever fits or does not, a call changes nothing in the caller's structs
\* but what the document mentions, in the target (object_native.go's ToStructTry).
THEOREM MissingFieldsAreKept == Spec => []OnlyMentionedFields
  <1>1. IInv => OnlyMentionedFields
    BY DEF IInv, OnlyMentionedFields, Memory, OnlyMentioned
  <1> QED
    BY <1>1, Inductive, PTL

\* ApplyPatchToStruct builds its result out of new memory and changes none there
\* was; pointees and slices allocated by any call refer to new memory only.
THEOREM InputIsKept == Spec => []InputIsLeftAlone
  <1>1. IInv => InputIsLeftAlone
    BY DEF IInv, InputIsLeftAlone, Memory, LeftAlone
  <1> QED
    BY <1>1, Inductive, PTL

LEMMA StoreFreezes ==
  ASSUME NEW m, NEW a, NEW value, NEW k \in SliceCells(m), a.cell # k
  PROVE  Elements(Write(m, a, value), k) = Elements(m, k)
  BY DEF Elements, Write

LEMMA CopyFreezes ==
  ASSUME NEW m, NEW v, NEW w, NEW k \in SliceCells(m), v # k
  PROVE  Elements(CopyStruct(m, w, v), k) = Elements(m, k)
  <1> DEFINE mm   == CopyStruct(m, w, v)
             Into == {[cell |-> v, path |-> x.path] : x \in {x \in DOMAIN m : x.cell = w}}
  <1>1. /\ DOMAIN mm = {x \in DOMAIN m : x.cell # v} \cup Into
        /\ \A a \in DOMAIN mm : a.cell # v => mm[a] = m[a]
    BY DEF CopyStruct
  <1>2. \A a \in Into : a.cell = v
    OBVIOUS
  <1> HIDE DEF mm, Into
  <1>3. {x \in DOMAIN mm : x.cell = k} = {x \in DOMAIN m : x.cell = k}
    BY <1>1, <1>2
  <1>4. \A a \in {x \in DOMAIN m : x.cell = k} : mm[a] = m[a]
    BY <1>1
  <1>5. Elements(mm, k) = Elements(m, k)
    BY <1>3, <1>4 DEF Elements
  <1> QED
    BY <1>5 DEF mm

\* No step of any call writes into the elements of a slice that is in use, so
\* that copies of a struct do not change when the struct is filled again.
THEOREM FilledSlicesStay == Spec => SlicesAreFrozen
  <1> DEFINE Frozen == \A c \in SliceCells(mem) : Elements(mem', c) = Elements(mem, c)
  <1>1. ASSUME IInv, [Next]_vars  PROVE Frozen \/ UNCHANGED vars
    <2> SUFFICES ASSUME NEW k \in SliceCells(mem)
                 PROVE  Elements(mem', k) = Elements(mem, k) \/ UNCHANGED vars
      OBVIOUS
    <2>1. k \in DOMAIN cells /\ cells[k] = "elements"
      BY <1>1 DEF IInv, Typed, SliceCells
    <2>2. CASE UNCHANGED mem
      BY <2>2
    <2>3. ASSUME Running("assign"), NEW value, mem' = Write(mem, Top.at, value)
          PROVE  Elements(mem', k) = Elements(mem, k)
      <3>1. Top.at.cell # k
        BY <1>1, <2>3, RunningCall DEF Activation, Writable
      <3> QED
        BY <2>3, <3>1, StoreFreezes
    <2>4. ASSUME SetSlice  PROVE Elements(mem', k) = Elements(mem, k)
      <3>1. Running("items") /\ \E value : mem' = Write(mem, Top.into, value)
        BY <2>4 DEF SetSlice
      <3>2. Top.into.cell # k
        BY <1>1, <3>1, RunningCall DEF Activation, Writable
      <3> QED
        BY <3>1, <3>2, StoreFreezes
    <2>5. ASSUME NEW v \in DOMAIN cells, cells[v] = "struct",
                 NEW w, mem' = CopyStruct(mem, w, v)
          PROVE  Elements(mem', k) = Elements(mem, k)
      BY <2>1, <2>5, CopyFreezes
    <2>6. ASSUME NEW v \in Variables, NEW d \in Documents, ToStructTry(v, d)
          PROVE  UNCHANGED mem
      BY <2>6 DEF ToStructTry
    <2>7. ASSUME NEW r \in Patched(mem), FillNew(r.source, r.like)  PROVE UNCHANGED mem
      BY <2>7 DEF FillNew
    <2>8. ASSUME NEW v \in Variables, NEW w \in Variables, Copy(v, w)
          PROVE  Elements(mem', k) = Elements(mem, k)
      BY <1>1, <2>5, <2>8 DEF Copy, IInv
    <2>9. ASSUME NEW v \in Variables, TakeResult(v)
          PROVE  Elements(mem', k) = Elements(mem, k)
      BY <1>1, <2>5, <2>9 DEF TakeResult, IInv
    <2>10. CASE AssignNil
      BY <2>10, <2>3 DEF AssignNil, Assigning, Running, Store
    <2>11. CASE AssignPointer
      BY <2>2, <2>3, <2>11 DEF AssignPointer, Assigning, Running
    <2>12. CASE AssignScalar
      BY <2>3, <2>12 DEF AssignScalar, Store
    <2>13. CASE AssignSlice \/ AssignStruct \/ NextItem \/ NextField \/ EndOfFields
                \/ Reject \/ Return
      BY <2>2, <2>13 DEF AssignSlice, AssignStruct, NextItem, NextField, EndOfFields,
                         Reject, Return
    <2> QED
      BY <1>1, <2>2, <2>4, <2>6, <2>7, <2>8, <2>9, <2>10, <2>11, <2>12, <2>13 DEF Next
  <1>2. IInv /\ [Next]_vars => [Frozen]_vars
    BY <1>1
  <1> QED
    BY <1>2, Inductive, PTL DEF Spec, SlicesAreFrozen

-----------------------------------------------------------------------------
(* Integers.                                                               *)

LEMMA TruncateKeeps ==
  ASSUME NEW type \in IntegerType, NEW n \in Int, Holds(type, n)
  PROVE  Truncate(type, n) = n
  <1> DEFINE d == n - type.min
             b == type.max - type.min + 1
  <1>1. type.min \in Int /\ type.max \in Int
    BY DEF IntegerType
  <1>2. d \in Nat /\ b \in Nat /\ b > 0 /\ d < b /\ type.min + d = n
    BY <1>1 DEF Holds
  <1> HIDE DEF d, b
  <1>3. d % b = d
    BY <1>2
  <1>4. Truncate(type, n) = type.min + (d % b)
    BY DEF Truncate, d, b
  <1> QED
    BY <1>2, <1>3, <1>4

\* A type of Go: no wider than the 64-bit type of its sign.
GoInteger(type) ==
  /\ type \in IntegerType
  /\ type.min <= type.max
  /\ Widest(type).min <= type.min /\ type.max <= Widest(type).max

LEMMA WidestIsType ==
  ASSUME NEW type \in IntegerType
  PROVE  Widest(type) \in IntegerType
  BY WidestTypes DEF Widest

\* An accepted conversion is exact: the number is that integer, and the type
\* holds it.  Every integer the type holds is accepted.
THEOREM ConversionIsExact ==
  ASSUME NEW type, GoInteger(type), NEW rat \in [num : Int, den : Nat \ {0}]
  PROVE  /\ IntegerOf(type, rat).ok =>
              /\ IntegerOf(type, rat).value \in Int
              /\ Holds(type, IntegerOf(type, rat).value)
              /\ IntegerOf(type, rat).value * rat.den = rat.num
         /\ \A n \in Int : Holds(type, n) /\ n * rat.den = rat.num =>
              IntegerOf(type, rat) = Integer(n)
  <1> DEFINE q == rat.num \div rat.den
  <1>1. rat.num \in Int /\ rat.den \in Int /\ rat.den > 0
    OBVIOUS
  <1>2. q \in Int /\ (rat.num % rat.den = 0 => q * rat.den = rat.num)
    BY <1>1
  <1>3. ASSUME NEW n \in Int, n * rat.den = rat.num
        PROVE  rat.num % rat.den = 0 /\ q = n
    BY <1>1, <1>3
  <1> HIDE DEF q
  <1>4. /\ type \in IntegerType /\ Widest(type) \in IntegerType
        /\ type.min \in Int /\ type.max \in Int
        /\ Widest(type).min \in Int /\ Widest(type).max \in Int
        /\ Widest(type).min <= type.min /\ type.max <= Widest(type).max
    BY WidestIsType DEF GoInteger, IntegerType
  <1>5. ASSUME NEW n \in Int
        PROVE  convertBigInt(type, n) = IF Holds(type, n) THEN Integer(n) ELSE NoInteger
    <2>1. CASE Holds(Widest(type), n)
      <3>1. Truncate(Widest(type), n) = n
        BY <1>4, <2>1, TruncateKeeps
      <3>2. Holds(type, n) => Truncate(type, n) = n
        BY <1>4, TruncateKeeps
      <3> QED
        BY <2>1, <3>1, <3>2 DEF convertBigInt
    <2>2. CASE ~Holds(Widest(type), n)
      <3>1. ~Holds(type, n)
        BY <2>2, <1>4 DEF Holds
      <3> QED
        BY <2>2, <3>1 DEF convertBigInt
    <2> QED
      BY <2>1, <2>2
  <1>6. IntegerOf(type, rat) = IF rat.num % rat.den = 0 /\ Holds(type, q)
                                 THEN Integer(q) ELSE NoInteger
    BY <1>2, <1>5 DEF IntegerOf, q
  <1>7. \A n : Integer(n).ok /\ Integer(n).value = n /\ ~NoInteger.ok
    BY DEF Integer, NoInteger
  <1> QED
    BY <1>2, <1>3, <1>6, <1>7

\* An integer field gets the number the document has exactly when it can hold
\* it, and nothing, so that the call fails, when it cannot: no number is cut
\* down to the bits of the field, and none that fits is refused.
THEOREM FieldsHoldExactIntegers ==
  ASSUME NEW range, GoInteger(range),
         NEW source, source.kind = "number", Parsed(source.text),
         parseJSONNumberRat(NumberText[source.text]) \in [num : Int, den : Nat \ {0}]
  PROVE  LET rat     == parseJSONNumberRat(NumberText[source.text])
             Fits(n) == Holds(range, n) /\ n * rat.den = rat.num
         IN  /\ \A n \in Int : Fits(n) => ToInteger(source, range) = Stored(GoInt(n))
             /\ (\A n \in Int : ~Fits(n)) => ToInteger(source, range) = NoValue
  <1> DEFINE rat  == parseJSONNumberRat(NumberText[source.text])
             wide == toIntegerAt(Widest(range), source)
  <1>1. Widest(range) \in IntegerType /\ GoInteger(Widest(range)) /\ range \in IntegerType
    BY WidestTypes DEF GoInteger, Widest, IntegerType
  <1>2. wide = IntegerOf(Widest(range), rat) /\ rat \in [num : Int, den : Nat \ {0}]
    BY DEF toIntegerAt
  <1>3. /\ \A n : Integer(n).ok /\ Integer(n).value = n
        /\ ToInteger(source, range) =
             IF wide.ok /\ ~Overflows(range, wide.value)
               THEN Stored(GoInt(Truncate(range, wide.value))) ELSE NoValue
    BY DEF Integer, ToInteger
  <1> HIDE DEF wide, rat
  <1>4. ASSUME NEW n \in Int, Holds(range, n), n * rat.den = rat.num
        PROVE  ToInteger(source, range) = Stored(GoInt(n))
    <2>1. Holds(Widest(range), n)
      BY <1>1, <1>4 DEF Holds, GoInteger, IntegerType
    <2>2. wide = Integer(n)
      BY <1>1, <1>2, <1>4, <2>1, ConversionIsExact
    <2>3. Truncate(range, n) = n
      BY <1>1, <1>4, TruncateKeeps
    <2> QED
      BY <1>3, <2>2, <2>3 DEF Overflows
  <1>5. ASSUME ToInteger(source, range) # NoValue
        PROVE  \E n \in Int : Holds(range, n) /\ n * rat.den = rat.num
    <2> DEFINE n == wide.value
    <2>1. wide.ok /\ ~Overflows(range, n)
      BY <1>3, <1>5
    <2>2. n \in Int /\ n * rat.den = rat.num
      BY <1>1, <1>2, <2>1, ConversionIsExact
    <2>3. Truncate(range, n) = n
      BY <2>1 DEF Overflows
    <2> HIDE DEF n
    <2>4. Holds(range, n)
      <3> DEFINE d == n - range.min
                 b == range.max - range.min + 1
      <3>1. range.min \in Int /\ range.max \in Int /\ range.min <= range.max
        BY <1>1 DEF GoInteger, IntegerType
      <3>2. d \in Int /\ b \in Int /\ b > 0 /\ range.min + (d % b) = n
        BY <2>2, <2>3, <3>1 DEF Truncate
      <3> HIDE DEF d, b
      <3>3. 0 <= d % b /\ d % b < b /\ d % b \in Int
        BY <3>2
      <3> QED
        BY <3>1, <3>2, <3>3, <2>2 DEF b, Holds
    <2> QED
      BY <2>2, <2>4
  <1> QED
    BY <1>4, <1>5 DEF rat

=============================================================================
