---------------------------- MODULE BuilderCalls ----------------------------
(***************************************************************************)
(* Calls on schema builders (schema_builder.go).                           *)
(*                                                                         *)
(* A builder call makes an entry.  A field or an item that is an object or *)
(* an array runs a callback, which may call every builder there is, the    *)
(* outer ones and those that other callbacks left behind included; the new *)
(* entry becomes part of its parent only when the callback has returned.   *)
(*                                                                         *)
(* `asked` records what each call asked for and which calls came to an end *)
(* in which order; the code does not have it.                              *)
(***************************************************************************)
EXTENDS JSONValues, SchemaVocabulary, Integers

CONSTANTS
  Calls,       \* what calls ask for: a name (for fields), a kind, options
  Malformed,   \* the texts that are not UTF-8, or no numbers where one is wanted
  MaxEntries   \* bound: how many entries the calls make

VARIABLES
  entries,  \* the entries made so far
  running,  \* the callbacks that run, the innermost first
  asked     \* what was asked for, by entry

calls == <<entries, running, asked>>

ASSUME BuilderAssumption ==
  /\ \A c \in Calls : DOMAIN c = {"name", "kind", "opts"} /\ c.kind \in Kinds
  /\ MaxEntries \in Nat

Containers == {"object", "array"}

-----------------------------------------------------------------------------
(* Options.  An option is the field it sets and the argument; `Held` is    *)
(* the caller's value, of which the entry keeps a reference.               *)

Held == [kind |-> "held"]

NewString(text)    == IF text \in Malformed THEN Void ELSE Str(text)
NewNumberTry(text) == IF text \in Malformed THEN Void ELSE Num(text)

Argument(o) ==
  CASE o.arg.kind = "string" -> NewString(o.arg.text)
    [] o.arg.kind = "number" -> NewNumberTry(o.arg.text)
    [] o.arg.kind = "array"  ->
         Array([i \in DOMAIN o.arg.items |-> NewString(o.arg.items[i].text)])
    [] OTHER -> o.arg

\* Min, Max and DefaultNumber with what is no number, a description in what is
\* no language.
IsRefused(o) ==
  \/ o.arg.kind = "number" /\ o.arg.text \in Malformed
  \/ o.key \notin SchemaFields

\* The last option for a field counts, an error is never forgotten.
ApplyOption(e, o) ==
  IF IsRefused(o) THEN [e EXCEPT !.buildErrors = TRUE]
  ELSE [e EXCEPT !.fields = (o.key :> Argument(o)) @@ @]

Options(opts) == FoldLeft(ApplyOption, [fields |-> <<>>, buildErrors |-> FALSE], opts)

newSchemaBuilderEntry(kind, name, opts) ==
  [name |-> name, kind |-> kind, children |-> <<>>, items |-> 0,
   fields |-> Options(opts).fields, buildErrors |-> Options(opts).buildErrors]

-----------------------------------------------------------------------------
MayMake == Len(entries) < MaxEntries
New     == Len(entries) + 1

NewEntry(c) == newSchemaBuilderEntry(c.kind, c.name, c.opts)
Ask(c)      == [kind |-> c.kind, name |-> c.name, opts |-> c.opts, done |-> <<>>]

Start == entries = <<>> /\ running = <<>> /\ asked = <<>>

\* NewSchemaObjectBuilder, NewSchemaArrayBuilder.
NewBuilder(c) ==
  /\ entries = <<>> /\ c.kind \in Containers
  /\ entries' = <<[NewEntry(c) EXCEPT !.name = ""]>>
  /\ asked' = <<Ask(c)>>
  /\ UNCHANGED running

\* The entry joins its parent: as its last child or, in an array, as its items.
Attached(es, b, id) ==
  IF es[b].kind = "object" THEN [es EXCEPT ![b].children = Append(@, id)]
                           ELSE [es EXCEPT ![b].items = id]

\* A call that has returned.
Returned(a, b, id) == [a EXCEPT ![b].done = Append(@, id)]

\* A call on builder b: of a field of an object or of the items of an array,
\* which have no name.
CallOn(b, c) == IF entries[b].kind = "object" THEN c ELSE [c EXCEPT !.name = ""]

\* StringField, NumberField, BooleanField, StringItems, NumberItems, BooleanItems.
AddScalar(b, c) ==
  /\ MayMake /\ entries[b].kind \in Containers /\ c.kind \notin Containers
  /\ entries' = Attached(Append(entries, NewEntry(CallOn(b, c))), b, New)
  /\ asked' = Returned(Append(asked, Ask(CallOn(b, c))), b, New)
  /\ UNCHANGED running

\* Mutant: the entry joins its parent before its callback runs.
AddContainerAtOnce(b, c) ==
  /\ MayMake /\ entries[b].kind \in Containers /\ c.kind \in Containers
  /\ entries' = Attached(Append(entries, NewEntry(CallOn(b, c))), b, New)
  /\ asked' = Append(asked, Ask(CallOn(b, c)))
  /\ running' = <<[on |-> b, entry |-> New]>> \o running

\* ObjectField, ArrayField, ObjectItems, ArrayItems, until the callback runs.
AddContainer(b, c) ==
  /\ MayMake /\ entries[b].kind \in Containers /\ c.kind \in Containers
  /\ entries' = Append(entries, NewEntry(CallOn(b, c)))
  /\ asked' = Append(asked, Ask(CallOn(b, c)))
  /\ running' = <<[on |-> b, entry |-> New]>> \o running

\* The innermost callback returns, and with it the call that ran it.
EndOfCallback ==
  /\ running # <<>>
  /\ LET call == Head(running)
     IN  /\ entries' = Attached(entries, call.on, call.entry)
         /\ asked' = Returned(asked, call.on, call.entry)
  /\ running' = Tail(running)

CallOrReturn ==
  \/ \E c \in Calls : NewBuilder(c)
  \/ \E b \in DOMAIN entries, c \in Calls : AddScalar(b, c) \/ AddContainer(b, c)
  \/ EndOfCallback

CallsSpec == Start /\ [][CallOrReturn]_calls

-----------------------------------------------------------------------------
(* Correctness.                                                            *)

\* Where entries stand below entry p: the items at 0, the children from 1.
Places(p) == DOMAIN entries[p].children \cup (IF entries[p].items = 0 THEN {} ELSE {0})
At(p, i)  == IF i = 0 THEN entries[p].items ELSE entries[p].children[i]

\* The entries are a tree, whatever builders the callbacks call: Build comes to
\* an end, and no entry stands in two places or in itself.  An entry whose
\* callback runs is not yet part of it.
TypeOK ==
  /\ \A p \in DOMAIN entries :
       /\ entries[p].kind \in Kinds
       /\ entries[p].kind = "object" \/ entries[p].children = <<>>
       /\ entries[p].kind = "array" \/ entries[p].items = 0
       /\ \A i \in Places(p) :
            /\ At(p, i) \in p + 1..Len(entries)
            /\ \A q \in DOMAIN entries : \A j \in Places(q) :
                 At(p, i) = At(q, j) => p = q /\ i = j
            /\ \A n \in DOMAIN running : running[n].entry # At(p, i)
=============================================================================
