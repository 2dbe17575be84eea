-------------------------- MODULE BuilderCallsProofs --------------------------
(***************************************************************************)
(* The entries that builder calls make are a tree, for all calls, any      *)
(* number of entries and any nesting of callbacks.                         *)
(*                                                                         *)
(* TypeOK is not inductive: that a callback's entry can join its parent    *)
(* when it returns needs that the parent is an older entry, an object or   *)
(* an array, and that no two callbacks run for the same entry.             *)
(***************************************************************************)
EXTENDS BuilderCalls, SequenceTheorems, TLAPS

\* Where entries stand, for any sequence of entries.
PlacesIn(es, p) == DOMAIN es[p].children \cup (IF es[p].items = 0 THEN {} ELSE {0})
AtIn(es, p, i)  == IF i = 0 THEN es[p].items ELSE es[p].children[i]

AnEntry(e) ==
  /\ {"kind", "children", "items"} \subseteq DOMAIN e
  /\ e.kind \in Kinds
  /\ e.children \in Seq(Nat)
  /\ e.items \in Nat
  /\ e.kind = "object" \/ e.children = <<>>
  /\ e.kind = "array" \/ e.items = 0

Empty(e) == AnEntry(e) /\ e.children = <<>> /\ e.items = 0

Unnamed(e) == [e EXCEPT !.name = ""]

AreEntries(es) ==
  /\ es \in Seq({es[p] : p \in DOMAIN es})
  /\ \A p \in DOMAIN es : AnEntry(es[p])

\* Below an entry stand younger ones, each in one place.
InOnePlace(es) ==
  \A p \in DOMAIN es : \A i \in PlacesIn(es, p) :
    /\ AtIn(es, p, i) \in p + 1..Len(es)
    /\ \A q \in DOMAIN es : \A j \in PlacesIn(es, q) :
         AtIn(es, p, i) = AtIn(es, q, j) => p = q /\ i = j

\* An entry that stands nowhere yet.
Free(es, id) == \A p \in DOMAIN es : \A i \in PlacesIn(es, p) : AtIn(es, p, i) # id

Calling(es, call) ==
  /\ call.on \in DOMAIN es /\ call.entry \in DOMAIN es
  /\ call.on < call.entry
  /\ es[call.on].kind \in Containers
  /\ Free(es, call.entry)

Running(es, calling) ==
  /\ calling \in Seq([on : Nat, entry : Nat])
  /\ \A n \in DOMAIN calling : Calling(es, calling[n])
  /\ \A m, n \in DOMAIN calling : calling[m].entry = calling[n].entry => m = n

IInv == AreEntries(entries) /\ InOnePlace(entries) /\ Running(entries, running)

-----------------------------------------------------------------------------
(* Entries.                                                                *)

\* A new entry has nothing below it.
LEMMA NewEntryIsEmpty ==
  ASSUME NEW kind \in Kinds, NEW name, NEW opts
  PROVE  /\ Empty(newSchemaBuilderEntry(kind, name, opts))
         /\ Empty(Unnamed(newSchemaBuilderEntry(kind, name, opts)))
<1> DEFINE made == Options(opts)
           e    == [name |-> name, kind |-> kind, children |-> <<>>, items |-> 0,
                    fields |-> made.fields, buildErrors |-> made.buildErrors]
<1>1. newSchemaBuilderEntry(kind, name, opts) = e
  BY Zenon DEF newSchemaBuilderEntry
<1> HIDE DEF made
<1>2. /\ {"kind", "children", "items"} \subseteq DOMAIN e
      /\ e.kind = kind /\ e.children = <<>> /\ e.items = 0
  OBVIOUS
<1>3. /\ {"kind", "children", "items"} \subseteq DOMAIN Unnamed(e)
      /\ Unnamed(e).kind = kind /\ Unnamed(e).children = <<>> /\ Unnamed(e).items = 0
  BY DEF Unnamed
<1> HIDE DEF e
<1>4. Empty(e)
  BY <1>2 DEF Empty, AnEntry
<1>5. Empty(Unnamed(e))
  BY <1>3 DEF Empty, AnEntry
<1> QED
  BY <1>1, <1>4, <1>5, Zenon

\* An entry that is made stands nowhere, and moves no other.
LEMMA Made ==
  ASSUME NEW es, AreEntries(es), InOnePlace(es), NEW e, Empty(e)
  PROVE  /\ AreEntries(Append(es, e)) /\ InOnePlace(Append(es, e))
         /\ Len(es) \in Nat /\ DOMAIN es = 1..Len(es)
         /\ Len(Append(es, e)) = Len(es) + 1
         /\ DOMAIN Append(es, e) = 1..Len(es) + 1
         /\ \A p \in DOMAIN es : Append(es, e)[p] = es[p]
         /\ Free(Append(es, e), Len(es) + 1)
         /\ \A id : Free(es, id) => Free(Append(es, e), id)
<1> DEFINE new == Append(es, e)
           S   == {es[p] : p \in DOMAIN es}
<1>1. /\ Len(es) \in Nat /\ DOMAIN es = 1..Len(es)
      /\ new \in Seq(S \cup {e})
      /\ Len(new) = Len(es) + 1 /\ DOMAIN new = 1..Len(es) + 1
      /\ \A p \in DOMAIN es : new[p] = es[p]
      /\ new[Len(es) + 1] = e
  <2>1. es \in Seq(S)
    BY DEF AreEntries
  <2> HIDE DEF S
  <2> QED
    BY <2>1
<1> HIDE DEF new
<1>2. AreEntries(new)
  <2>1. S \cup {e} = {new[p] : p \in DOMAIN new}
    BY <1>1
  <2>2. \A p \in DOMAIN new : AnEntry(new[p])
    BY <1>1 DEF AreEntries, Empty
  <2> QED
    BY <1>1, <2>1, <2>2 DEF AreEntries
<1>3. /\ \A p \in DOMAIN es : /\ PlacesIn(new, p) = PlacesIn(es, p)
                              /\ \A i : AtIn(new, p, i) = AtIn(es, p, i)
      /\ PlacesIn(new, Len(es) + 1) = {}
  <2>1. DOMAIN e.children = {} /\ e.items = 0
    BY DEF Empty
  <2> QED
    BY <1>1, <2>1 DEF PlacesIn, AtIn
<1>4. \A p \in DOMAIN new : \A i \in PlacesIn(new, p) :
        p \in DOMAIN es /\ i \in PlacesIn(es, p) /\ AtIn(new, p, i) = AtIn(es, p, i)
  BY <1>1, <1>3
<1>5. InOnePlace(new)
  BY <1>1, <1>4 DEF InOnePlace
<1>6. Free(new, Len(es) + 1)
  BY <1>1, <1>4 DEF InOnePlace, Free
<1>7. \A id : Free(es, id) => Free(new, id)
  BY <1>4 DEF Free
<1> QED
  BY <1>1, <1>2, <1>5, <1>6, <1>7 DEF new

\* What attaching an entry changes: its parent, in one place.
LEMMA AttachedPlaces ==
  ASSUME NEW es, AreEntries(es), NEW b \in DOMAIN es, es[b].kind \in Containers,
         NEW id \in Nat \ {0}
  PROVE  /\ AreEntries(Attached(es, b, id))
         /\ DOMAIN Attached(es, b, id) = DOMAIN es
         /\ Len(Attached(es, b, id)) = Len(es)
         /\ \A p \in DOMAIN es : Attached(es, b, id)[p].kind = es[p].kind
         /\ \E at :
              \A p \in DOMAIN es : \A i \in PlacesIn(Attached(es, b, id), p) :
                \/ /\ i \in PlacesIn(es, p)
                   /\ AtIn(Attached(es, b, id), p, i) = AtIn(es, p, i)
                \/ p = b /\ i = at /\ AtIn(Attached(es, b, id), p, i) = id
<1> DEFINE new      == Attached(es, b, id)
           e        == es[b]
           longer   == [e EXCEPT !.children = Append(@, id)]
           changed  == [e EXCEPT !.items = id]
           f        == IF e.kind = "object" THEN longer ELSE changed
<1>1. /\ es \in Seq({es[p] : p \in DOMAIN es})
      /\ \A p \in DOMAIN es : AnEntry(es[p])
  BY DEF AreEntries
<1>2. new = [es EXCEPT ![b] = f]
  BY Zenon DEF Attached
<1>3. AnEntry(e)
  BY <1>1
<1>4. /\ AnEntry(f) /\ f.kind = e.kind
      /\ e.kind = "object" => /\ f.children = Append(e.children, id)
                              /\ f.items = 0 /\ e.items = 0
      /\ e.kind # "object" => /\ f.children = <<>> /\ e.children = <<>>
                              /\ f.items = id
  <2>1. e.children \in Seq(Nat) /\ e.kind \in {"object", "array"}
    BY <1>3 DEF AnEntry, Containers
  <2> HIDE DEF e
  <2>2. CASE e.kind = "object"
    <3>1. /\ DOMAIN longer = DOMAIN e /\ longer.kind = e.kind
          /\ longer.items = e.items
          /\ longer.children = Append(e.children, id)
      BY <1>3 DEF AnEntry
    <3>2. Append(e.children, id) \in Seq(Nat)
      BY <2>1
    <3>3. f = longer
      BY <2>2
    <3> HIDE DEF f, longer
    <3> QED
      BY <1>3, <2>2, <3>1, <3>2, <3>3 DEF AnEntry
  <2>3. CASE e.kind = "array"
    <3>1. /\ DOMAIN changed = DOMAIN e /\ changed.kind = e.kind
          /\ changed.items = id
          /\ changed.children = e.children
      BY <1>3 DEF AnEntry
    <3>3. f = changed
      BY <2>3
    <3> HIDE DEF f, changed
    <3> QED
      BY <1>3, <2>3, <3>1, <3>3 DEF AnEntry
  <2> QED
    BY <2>1, <2>2, <2>3
<1> HIDE DEF f, new
<1>5. /\ DOMAIN new = DOMAIN es /\ Len(new) = Len(es)
      /\ new[b] = f /\ \A p \in DOMAIN es : p # b => new[p] = es[p]
      /\ new \in Seq({new[p] : p \in DOMAIN new})
  <2> DEFINE S == {es[p] : p \in DOMAIN es}
             T == {new[p] : p \in DOMAIN new}
  <2>1. es \in Seq(S)
    BY <1>1
  <2> HIDE DEF S
  <2> HIDE DEF T
  <2>2. /\ DOMAIN new = DOMAIN es /\ new[b] = f
        /\ \A p \in DOMAIN es : p # b => new[p] = es[p]
        /\ DOMAIN es = 1..Len(es) /\ Len(es) \in Nat
        /\ new = [p \in 1..Len(es) |-> new[p]]
    <3>1. DOMAIN es = 1..Len(es) /\ Len(es) \in Nat
      BY <2>1
    <3>2. new = [p \in DOMAIN es |-> IF p = b THEN f ELSE es[p]]
      BY <1>2, Zenon
    <3> QED
      BY <3>1, <3>2
  <2> USE DEF T
  <2>3. \A p \in 1..Len(es) : new[p] \in T
    BY <2>2
  <2> HIDE DEF T
  <2>5. new \in [1..Len(es) -> T]
    BY <2>2, <2>3
  <2>6. new \in Seq(T) /\ Len(new) = Len(es)
    BY <2>2, <2>5, SeqDef
  <2> QED
    BY <2>2, <2>6 DEF T
<1>6. AreEntries(new) /\ \A p \in DOMAIN es : new[p].kind = es[p].kind
  BY <1>1, <1>4, <1>5 DEF AreEntries
<1> DEFINE at == IF e.kind = "object" THEN Len(e.children) + 1 ELSE 0
<1>7. ASSUME NEW p \in DOMAIN es, NEW i \in PlacesIn(new, p)
      PROVE  \/ i \in PlacesIn(es, p) /\ AtIn(new, p, i) = AtIn(es, p, i)
             \/ p = b /\ i = at /\ AtIn(new, p, i) = id
  <2>1. CASE p # b
    BY <1>5, <2>1 DEF PlacesIn, AtIn
  <2>2. CASE p = b /\ e.kind = "object"
    <3>1. /\ i \in DOMAIN Append(e.children, id)
          /\ AtIn(new, p, i) = IF i = 0 THEN 0 ELSE Append(e.children, id)[i]
          /\ PlacesIn(es, p) = DOMAIN e.children
          /\ AtIn(es, p, i) = IF i = 0 THEN 0 ELSE e.children[i]
      BY <1>4, <1>5, <2>2 DEF PlacesIn, AtIn
    <3>2. e.children \in Seq(Nat)
      BY <1>3 DEF AnEntry
    <3> HIDE DEF e
    <3>3. i \in 1..Len(e.children) + 1 /\ DOMAIN e.children = 1..Len(e.children)
      BY <3>1, <3>2
    <3>4. CASE i = Len(e.children) + 1
      BY <2>2, <3>1, <3>2, <3>4
    <3>5. CASE i \in 1..Len(e.children)
      BY <2>2, <3>1, <3>2, <3>3, <3>5
    <3> QED
      BY <3>2, <3>3, <3>4, <3>5
  <2>3. CASE p = b /\ e.kind # "object"
    <3>1. i \in {0} /\ AtIn(new, p, i) = id
      BY <1>4, <1>5, <2>3 DEF PlacesIn, AtIn
    <3> QED
      BY <2>3, <3>1
  <2> QED
    BY <2>1, <2>2, <2>3
<1>8. \E x : \A p \in DOMAIN es : \A i \in PlacesIn(new, p) :
        \/ i \in PlacesIn(es, p) /\ AtIn(new, p, i) = AtIn(es, p, i)
        \/ p = b /\ i = x /\ AtIn(new, p, i) = id
  <2> HIDE DEF at
  <2> WITNESS at
  <2> QED
    BY <1>7
<1> QED
  BY <1>5, <1>6, <1>8, Zenon DEF new

\* An entry that stood nowhere joins an older one: it stands there, and no
\* other entry comes to stand anywhere.
LEMMA Joined ==
  ASSUME NEW es, AreEntries(es), InOnePlace(es),
         NEW b \in DOMAIN es, es[b].kind \in Containers,
         NEW id \in b + 1..Len(es), Free(es, id)
  PROVE  /\ AreEntries(Attached(es, b, id)) /\ InOnePlace(Attached(es, b, id))
         /\ DOMAIN Attached(es, b, id) = DOMAIN es
         /\ \A p \in DOMAIN es : Attached(es, b, id)[p].kind = es[p].kind
         /\ \A other : other # id /\ Free(es, other) => Free(Attached(es, b, id), other)
<1> DEFINE new == Attached(es, b, id)
<1>1. /\ DOMAIN es = 1..Len(es) /\ Len(es) \in Nat
  <2> DEFINE S == {es[p] : p \in DOMAIN es}
  <2>1. es \in Seq(S)
    BY DEF AreEntries
  <2> HIDE DEF S
  <2> QED
    BY <2>1
<1>2. id \in Nat \ {0}
  BY <1>1
<1>3. /\ AreEntries(new) /\ DOMAIN new = DOMAIN es /\ Len(new) = Len(es)
      /\ \A p \in DOMAIN es : new[p].kind = es[p].kind
      /\ \E at : \A p \in DOMAIN es : \A i \in PlacesIn(new, p) :
           \/ i \in PlacesIn(es, p) /\ AtIn(new, p, i) = AtIn(es, p, i)
           \/ p = b /\ i = at /\ AtIn(new, p, i) = id
  BY <1>2, AttachedPlaces
<1> HIDE DEF new
<1>4. PICK at : \A p \in DOMAIN es : \A i \in PlacesIn(new, p) :
        \/ i \in PlacesIn(es, p) /\ AtIn(new, p, i) = AtIn(es, p, i)
        \/ p = b /\ i = at /\ AtIn(new, p, i) = id
  BY <1>3
<1>5. \A p \in DOMAIN es : \A i \in PlacesIn(es, p) : AtIn(es, p, i) # id
  BY DEF Free
<1>6. InOnePlace(new)
  <2> SUFFICES ASSUME NEW p \in DOMAIN new, NEW i \in PlacesIn(new, p)
               PROVE  /\ AtIn(new, p, i) \in p + 1..Len(new)
                      /\ \A q \in DOMAIN new : \A j \in PlacesIn(new, q) :
                           AtIn(new, p, i) = AtIn(new, q, j) => p = q /\ i = j
    BY DEF InOnePlace
  <2>1. AtIn(new, p, i) \in p + 1..Len(new)
    BY <1>1, <1>3, <1>4 DEF InOnePlace
  <2>2. ASSUME NEW q \in DOMAIN new, NEW j \in PlacesIn(new, q),
               AtIn(new, p, i) = AtIn(new, q, j)
        PROVE  p = q /\ i = j
    BY <1>3, <1>4, <1>5, <2>2 DEF InOnePlace
  <2> QED
    BY <2>1, <2>2
<1>7. \A other : other # id /\ Free(es, other) => Free(new, other)
  BY <1>3, <1>4 DEF Free
<1> QED
  BY <1>3, <1>6, <1>7 DEF new

-----------------------------------------------------------------------------
(* Steps.                                                                  *)

\* What a call makes.
LEMMA CallMakes ==
  ASSUME BuilderAssumption, NEW c \in Calls, NEW b
  PROVE  Empty(NewEntry(CallOn(b, c))) /\ Empty(Unnamed(NewEntry(c)))
<1>1. DOMAIN c = {"name", "kind", "opts"} /\ c.kind \in Kinds
  BY DEF BuilderAssumption
<1>2. [c EXCEPT !.name = ""].kind = c.kind
  BY <1>1
<1>3. CallOn(b, c).kind \in Kinds
  BY <1>1, <1>2 DEF CallOn
<1> QED
  BY <1>1, <1>3, NewEntryIsEmpty DEF NewEntry

\* While nothing is attached, callbacks that run go on.
LEMMA StillCalling ==
  ASSUME NEW es, NEW new, NEW call, Calling(es, call), DOMAIN es \subseteq DOMAIN new,
         \A p \in DOMAIN es : new[p].kind = es[p].kind,
         Free(es, call.entry) => Free(new, call.entry)
  PROVE  Calling(new, call)
  BY DEF Calling

THEOREM IInvHolds == CallsSpec => []IInv
<1>1. Start => IInv
  <2> SUFFICES ASSUME Start PROVE IInv
    OBVIOUS
  <2>1. entries = <<>> /\ running = <<>>
    BY DEF Start
  <2> QED
    BY <2>1 DEF IInv, AreEntries, InOnePlace, Running
<1>2. IInv /\ [CallOrReturn]_calls => IInv'
  <2> SUFFICES ASSUME IInv, [CallOrReturn]_calls PROVE IInv'
    OBVIOUS
  <2> USE BuilderAssumption
  <2>0. AreEntries(entries) /\ InOnePlace(entries) /\ Running(entries, running)
    BY DEF IInv
  <2>1. ASSUME NEW c \in Calls, NewBuilder(c)
        PROVE  IInv'
    <3> DEFINE e == Unnamed(NewEntry(c))
    <3>1. Empty(e)
      BY CallMakes
    <3>2. entries = <<>> /\ entries' = <<e>> /\ running' = running
      BY <2>1, Zenon DEF NewBuilder, Unnamed
    <3> HIDE DEF e
    <3>3. entries' = Append(entries, e)
      BY <3>2
    <3>4. AreEntries(entries') /\ InOnePlace(entries')
      <4>1. AreEntries(Append(entries, e)) /\ InOnePlace(Append(entries, e))
        BY <2>0, <3>1, Made
      <4> QED
        BY <3>3, <4>1
    <3>5. DOMAIN running = {}
      BY <2>0, <3>2 DEF Running, Calling
    <3>6. Running(entries', running')
      BY <2>0, <3>2, <3>5 DEF Running
    <3> QED
      BY <3>4, <3>6 DEF IInv
  <2>2. ASSUME NEW b \in DOMAIN entries, NEW c \in Calls, AddScalar(b, c)
        PROVE  IInv'
    <3> DEFINE e   == NewEntry(CallOn(b, c))
               mid == Append(entries, e)
               id  == Len(entries) + 1
    <3>1. Empty(e)
      BY CallMakes
    <3>2. /\ entries' = Attached(mid, b, id) /\ running' = running
          /\ entries[b].kind \in Containers
      BY <2>2, Zenon DEF AddScalar, New
    <3> HIDE DEF e
    <3>3. /\ AreEntries(mid) /\ InOnePlace(mid)
          /\ Len(entries) \in Nat /\ DOMAIN entries = 1..Len(entries)
          /\ Len(mid) = id /\ DOMAIN mid = 1..id
          /\ \A p \in DOMAIN entries : mid[p] = entries[p]
          /\ Free(mid, id)
          /\ \A other : Free(entries, other) => Free(mid, other)
      BY <2>0, <3>1, Made
    <3> HIDE DEF mid
    <3>4. /\ AreEntries(entries') /\ InOnePlace(entries') /\ DOMAIN entries' = DOMAIN mid
          /\ \A p \in DOMAIN mid : entries'[p].kind = mid[p].kind
          /\ \A other : other # id /\ Free(mid, other) => Free(entries', other)
      <4>1. b \in DOMAIN mid /\ mid[b].kind \in Containers /\ id \in b + 1..Len(mid)
        BY <3>2, <3>3
      <4> QED
        BY <3>2, <3>3, <4>1, Joined
    <3>5. ASSUME NEW n \in DOMAIN running
          PROVE  Calling(entries', running[n])
      <4>1. Calling(entries, running[n])
        BY <2>0 DEF Running
      <4>2. Free(entries, running[n].entry) => Free(entries', running[n].entry)
        <5>1. running[n].entry # id
          BY <3>3, <4>1 DEF Calling
        <5> QED
          BY <3>3, <3>4, <5>1
      <4>3. /\ DOMAIN entries \subseteq DOMAIN entries'
            /\ \A p \in DOMAIN entries : entries'[p].kind = entries[p].kind
        BY <3>3, <3>4
      <4> QED
        BY <4>1, <4>2, <4>3, StillCalling
    <3> QED
      BY <2>0, <3>2, <3>4, <3>5 DEF IInv, Running
  <2>3. ASSUME NEW b \in DOMAIN entries, NEW c \in Calls, AddContainer(b, c)
        PROVE  IInv'
    <3> DEFINE e    == NewEntry(CallOn(b, c))
               id   == Len(entries) + 1
               call == [on |-> b, entry |-> id]
    <3>1. Empty(e)
      BY CallMakes
    <3>2. /\ entries' = Append(entries, e) /\ running' = <<call>> \o running
          /\ entries[b].kind \in Containers
      BY <2>3, Zenon DEF AddContainer, New
    <3> HIDE DEF e
    <3>3. /\ AreEntries(entries') /\ InOnePlace(entries')
          /\ Len(entries) \in Nat /\ DOMAIN entries = 1..Len(entries)
          /\ DOMAIN entries' = 1..id
          /\ \A p \in DOMAIN entries : entries'[p] = entries[p]
          /\ Free(entries', id)
          /\ \A other : Free(entries, other) => Free(entries', other)
      BY <2>0, <3>1, <3>2, Made
    <3>4. Calling(entries', call)
      BY <3>2, <3>3 DEF Calling
    <3>5. ASSUME NEW n \in DOMAIN running
          PROVE  Calling(entries', running[n]) /\ running[n].entry # id
      <4>1. Calling(entries, running[n])
        BY <2>0 DEF Running
      <4>2. Calling(entries', running[n])
        BY <3>3, <4>1 DEF Calling
      <4>3. running[n].entry # id
        BY <3>3, <4>1 DEF Calling
      <4> QED
        BY <4>2, <4>3
    <3>6. /\ running \in Seq([on : Nat, entry : Nat]) /\ call \in [on : Nat, entry : Nat]
      BY <2>0, <3>3 DEF Running
    <3>7. /\ running' \in Seq([on : Nat, entry : Nat])
          /\ DOMAIN running' = 1..Len(running) + 1 /\ DOMAIN running = 1..Len(running)
          /\ Len(running) \in Nat
          /\ running'[1] = call
          /\ \A n \in 2..Len(running) + 1 : running'[n] = running[n - 1]
      <4> HIDE DEF call
      <4> QED
        BY <3>2, <3>6
    <3>8. call.entry = id
      OBVIOUS
    <3> HIDE DEF call, id
    <3>9. \A n \in DOMAIN running' :
            \/ n = 1
            \/ n - 1 \in DOMAIN running /\ running'[n] = running[n - 1]
      BY <3>7
    <3>10. \A n \in DOMAIN running' : Calling(entries', running'[n])
      BY <3>4, <3>5, <3>7, <3>9
    <3>11. \A m, n \in DOMAIN running' : running'[m].entry = running'[n].entry => m = n
      <4> SUFFICES ASSUME NEW m \in DOMAIN running', NEW n \in DOMAIN running',
                          running'[m].entry = running'[n].entry
                   PROVE  m = n
        OBVIOUS
      <4>1. \A x, y \in DOMAIN running : running[x].entry = running[y].entry => x = y
        BY <2>0 DEF Running
      <4>2. m \in Nat /\ n \in Nat
        BY <3>7
      <4> QED
        <5>1. CASE m = 1 /\ n # 1
          BY <3>5, <3>7, <3>8, <3>9, <5>1
        <5>2. CASE m # 1 /\ n = 1
          BY <3>5, <3>7, <3>8, <3>9, <5>2
        <5>3. CASE m # 1 /\ n # 1
          BY <3>9, <4>1, <4>2, <5>3
        <5> QED
          BY <5>1, <5>2, <5>3
    <3> QED
      BY <3>3, <3>7, <3>10, <3>11 DEF IInv, Running
  <2>4. ASSUME EndOfCallback
        PROVE  IInv'
    <3> DEFINE call == Head(running)
    <3>1. /\ running # <<>> /\ running' = Tail(running)
          /\ entries' = Attached(entries, call.on, call.entry)
      BY <2>4 DEF EndOfCallback
    <3>2. /\ running \in Seq([on : Nat, entry : Nat])
          /\ \A n \in DOMAIN running : Calling(entries, running[n])
          /\ \A m, n \in DOMAIN running : running[m].entry = running[n].entry => m = n
      BY <2>0 DEF Running
    <3>3. /\ Len(running) \in Nat \ {0} /\ DOMAIN running = 1..Len(running)
          /\ call = running[1]
          /\ running' \in Seq([on : Nat, entry : Nat])
          /\ DOMAIN running' = 1..Len(running) - 1
          /\ \A n \in DOMAIN running' : running'[n] = running[n + 1]
      BY <3>1, <3>2
    <3>4. Calling(entries, call)
      BY <3>2, <3>3
    <3> HIDE DEF call
    <3>5. DOMAIN entries = 1..Len(entries)
      <4> DEFINE S == {entries[p] : p \in DOMAIN entries}
      <4>1. entries \in Seq(S)
        BY <2>0 DEF AreEntries
      <4> HIDE DEF S
      <4> QED
        BY <4>1
    <3>6. /\ call.on \in DOMAIN entries /\ entries[call.on].kind \in Containers
          /\ call.entry \in call.on + 1..Len(entries) /\ Free(entries, call.entry)
      BY <3>4, <3>5 DEF Calling
    <3>7. /\ AreEntries(entries') /\ InOnePlace(entries') /\ DOMAIN entries' = DOMAIN entries
          /\ \A p \in DOMAIN entries : entries'[p].kind = entries[p].kind
          /\ \A other : other # call.entry /\ Free(entries, other) => Free(entries', other)
      BY <2>0, <3>1, <3>6, Joined
    <3>8. ASSUME NEW n \in DOMAIN running'
          PROVE  Calling(entries', running'[n])
      <4>1. n + 1 \in DOMAIN running /\ n + 1 # 1 /\ running'[n] = running[n + 1]
        BY <3>3
      <4>2. running'[n].entry # call.entry
        <5>1. 1 \in DOMAIN running /\ call = running[1]
          BY <3>3
        <5>2. \A x, y \in DOMAIN running : running[x].entry = running[y].entry => x = y
          BY <3>2
        <5> QED
          BY <4>1, <5>1, <5>2
      <4>3. Calling(entries, running'[n])
        BY <3>2, <4>1
      <4>4. Free(entries, running'[n].entry) => Free(entries', running'[n].entry)
        BY <3>7, <4>2
      <4> QED
        BY <3>7, <4>3, <4>4, StillCalling
    <3>9. \A m, n \in DOMAIN running' : running'[m].entry = running'[n].entry => m = n
      <4> SUFFICES ASSUME NEW m \in DOMAIN running', NEW n \in DOMAIN running',
                          running'[m].entry = running'[n].entry
                   PROVE  m = n
        OBVIOUS
      <4>1. /\ m + 1 \in DOMAIN running /\ n + 1 \in DOMAIN running
            /\ m \in Nat /\ n \in Nat
            /\ running[m + 1].entry = running[n + 1].entry
        BY <3>3
      <4>2. m + 1 = n + 1
        BY <3>2, <4>1
      <4> QED
        BY <4>1, <4>2
    <3> QED
      BY <3>3, <3>7, <3>8, <3>9 DEF IInv, Running
  <2>5. ASSUME UNCHANGED calls
        PROVE  IInv'
    BY <2>0, <2>5 DEF IInv, calls
  <2> QED
    BY <2>1, <2>2, <2>3, <2>4, <2>5 DEF CallOrReturn
<1> QED
  BY <1>1, <1>2, PTL DEF CallsSpec

\* The entries are a tree, whatever builders the callbacks call, those that
\* have returned included: every entry stands in one place at most, below an
\* older one, and one whose callback runs in none.
THEOREM EntriesFormATree == CallsSpec => []TypeOK
<1>1. IInv => TypeOK
  <2> SUFFICES ASSUME IInv PROVE TypeOK
    OBVIOUS
  <2>1. /\ AreEntries(entries) /\ InOnePlace(entries)
        /\ \A n \in DOMAIN running : Free(entries, running[n].entry)
    BY DEF IInv, Running, Calling
  <2>2. \A p, i : Places(p) = PlacesIn(entries, p) /\ At(p, i) = AtIn(entries, p, i)
    BY DEF Places, PlacesIn, At, AtIn
  <2>3. ASSUME NEW p \in DOMAIN entries
        PROVE  /\ entries[p].kind \in Kinds
               /\ entries[p].kind = "object" \/ entries[p].children = <<>>
               /\ entries[p].kind = "array" \/ entries[p].items = 0
    BY <2>1 DEF AreEntries, AnEntry
  <2>4. ASSUME NEW p \in DOMAIN entries, NEW i \in Places(p)
        PROVE  /\ At(p, i) \in p + 1..Len(entries)
               /\ \A q \in DOMAIN entries : \A j \in Places(q) :
                    At(p, i) = At(q, j) => p = q /\ i = j
               /\ \A n \in DOMAIN running : running[n].entry # At(p, i)
    BY <2>1, <2>2 DEF InOnePlace, Free
  <2> QED
    BY <2>3, <2>4 DEF TypeOK
<1> QED
  BY <1>1, IInvHolds, PTL
===============================================================================
