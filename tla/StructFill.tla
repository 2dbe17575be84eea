----------------------------- MODULE StructFill -----------------------------
(***************************************************************************)
(* ToStructTry: filling a Go struct from a JSON object (object_native.go). *)
(*                                                                         *)
(* The memory maps addresses to values.  An address is an allocated cell   *)
(* and a path below it: field numbers, or an element number and then field *)
(* numbers.  A place nobody wrote holds the zero value of its type.  The   *)
(* first cells are the struct variables of the caller; the others were     *)
(* allocated by a call: the value behind a pointer, the elements of a      *)
(* slice, or a struct that is filled instead of one of the caller's.       *)
(*                                                                         *)
(* `stack` holds the activations of assignJSONToValue and its two loops,   *)
(* the innermost first.  The first value that does not fit ends the call   *)
(* and leaves the memory as it is by then.                                 *)
(***************************************************************************)
EXTENDS JSONValues, Numbers

CONSTANTS
  GoType,           \* [type name -> its kind; elem of a pointer or a slice,
                    \*  fields of a struct, range of an integer, the texts a
                    \*  TextUnmarshaler reads]
  StructType,       \* the struct type of the caller's variables
  VariableCount,    \* how many there are
  InitialMemories,  \* what they hold in the beginning
  Documents,        \* the values they are filled from
  Patched(_),       \* [memory -> what ApplyPatch can make of its structs: a
                    \*  value, no object if the patch does not apply, and
                    \*  the variable the patch was to lead to or 0]
  MaxCalls          \* bound: how often the caller calls

VARIABLES
  mem,    \* [address -> value]
  cells,  \* what each allocated cell is, in the order of allocation
  stack,  \* the activations of the call
  call,   \* the call: its status, target, source, the memory and the number
          \* of cells it found, the variable its result should look like
  calls   \* the calls begun so far

vars == <<mem, cells, stack, call, calls>>

Variables == 1..VariableCount

ASSUME StructFillAssumption ==
  /\ VariableCount \in Nat /\ MaxCalls \in Nat
  /\ Len(GoType[StructType].fields) \in Nat
  /\ DOMAIN GoType[StructType].fields = 1..Len(GoType[StructType].fields)
  /\ \A m \in InitialMemories :
       /\ DOMAIN m \subseteq [cell : Variables, path : Seq(Nat)]
       /\ \A a \in DOMAIN m : m[a].kind \notin {"pointer", "slice"}

Cell(c)    == [cell |-> c, path |-> <<>>]
Part(a, i) == [cell |-> a.cell, path |-> Append(a.path, i)]

(* Values: a scalar as in JSON, an integer, a pointer, a slice, what an    *)
(* interface holds (written as the JSON value it was made from), or the    *)
(* zero value of the place's type: nil for pointers and slices.            *)
Zero         == [kind |-> "zero"]
GoInt(n)     == [kind |-> "int", int |-> n]
Pointer(c)   == [kind |-> "pointer", cell |-> c]
Slice(c, n)  == [kind |-> "slice", cell |-> c, len |-> n]
Native(json) == [kind |-> "native", json |-> json]

Refers(value) == value.kind \in {"pointer", "slice"}

Read(m, a)         == IF a \in DOMAIN m THEN m[a] ELSE Zero
Write(m, a, value) == [x \in DOMAIN m \cup {a} |-> IF x = a THEN value ELSE m[x]]

\* A struct assignment: the fields are copied, what they refer to is shared.
CopyStruct(m, from, to) ==
  [a \in {x \in DOMAIN m : x.cell # to}
           \cup {[cell |-> to, path |-> x.path] : x \in {x \in DOMAIN m : x.cell = from}} |->
     IF a.cell = to THEN m[[cell |-> from, path |-> a.path]] ELSE m[a]]

-----------------------------------------------------------------------------
(* Activations: a value to assign to a place; the loop over the fields of  *)
(* the struct at a place; the loop over the items of an array, whose       *)
(* elements are in a cell of their own until `into` gets the slice.        *)

Assign(source, at, type) ==
  [do |-> "assign", source |-> source, at |-> at, type |-> type, next |-> 1, into |-> at]
Fields(source, at, type) == [Assign(source, at, type) EXCEPT !.do = "fields"]
Items(source, elements, type, into) ==
  [do |-> "items", source |-> source, at |-> elements, type |-> type, next |-> 1,
   into |-> into]

Top    == Head(stack)
Parent == Tail(stack)

\* jsonFieldName and the skipped fields.
\* `json:"-"` skips a field, `json:"-,omitempty"` names it "-".
Skipped(f)   == ~f.exported \/ (f.tag = "-" /\ ~f.omitempty)
FieldName(f) == IF f.tag = "" THEN f.go ELSE f.tag

\* What a document has for a field; Void where the field is to be left alone.
SourceFor(source, f) ==
  IF Skipped(f) THEN Void ELSE GetField(source.fields, FieldName(f))

-----------------------------------------------------------------------------
(* Scalars: what is stored, or that the value does not fit.                *)

NoValue       == [ok |-> FALSE, value |-> Zero]
Stored(value) == [ok |-> TRUE, value |-> value]

\* Mutant: an integer is stored without asking whether the field can hold it.
ToIntegerUnchecked(source, range) ==
  LET wide == toIntegerAt(Widest(range), source)
  IN  IF wide.ok THEN Stored(GoInt(Truncate(range, wide.value))) ELSE NoValue

\* SetInt and SetUint after OverflowInt and OverflowUint.
ToInteger(source, range) ==
  LET wide == toIntegerAt(Widest(range), source)
  IN  IF wide.ok /\ ~Overflows(range, wide.value)
        THEN Stored(GoInt(Truncate(range, wide.value))) ELSE NoValue

\* Maps, fixed arrays, channels and functions are no targets.
Converted(source, type) ==
  CASE type.kind \in {"string", "boolean"} ->
         IF source.kind = type.kind THEN Stored(source) ELSE NoValue
    [] type.kind = "int" -> ToInteger(source, type.range)
    [] type.kind = "text" ->
         IF ~IsContainer(source) /\ source.text \in type.texts
           THEN Stored(Str(source.text)) ELSE NoValue
    [] type.kind = "interface" ->
         IF source = Null THEN Stored(Zero) ELSE Stored(Native(source))
    [] OTHER -> NoValue

IsScalarType(type) == type.kind \notin {"pointer", "slice", "struct"}

\* The values an activation ends the call for.
Misfit(source, type) ==
  CASE type.kind = "pointer" -> FALSE
    [] type.kind = "slice"   -> source.kind \notin {"null", "array"}
    [] type.kind = "struct"  -> source.kind # "object"
    [] OTHER                 -> ~Converted(source, type).ok

-----------------------------------------------------------------------------
(* Calls.                                                                  *)

NoCall == [status |-> "ready", target |-> 1, source |-> Void, before |-> <<>>,
           mark |-> 0, like |-> 0]

Init ==
  /\ mem \in InitialMemories
  /\ cells = [v \in Variables |-> "struct"]
  /\ stack = <<>> /\ call = NoCall /\ calls = 0

Begin(target, source, like) ==
  /\ call' = [status |-> IF source.kind = "object" THEN "filling" ELSE "failed",
              target |-> target, source |-> source, before |-> mem,
              mark |-> Len(cells), like |-> like]
  /\ stack' = IF source.kind = "object"
                THEN <<Fields(source, Cell(target), StructType)>> ELSE <<>>
  /\ calls' = calls + 1

MayCall == call.status # "filling" /\ calls < MaxCalls

ToStructTry(v, source) == MayCall /\ Begin(v, source, 0) /\ UNCHANGED <<mem, cells>>

\* Mutant: what is filled begins as a copy of the input.
FillNewFromCopy(source, like) ==
  /\ Begin(Len(cells) + 1, source, like)
  /\ cells' = Append(cells, "struct")
  /\ \E v \in Variables : mem' = CopyStruct(mem, v, Len(cells) + 1)

\* ApplyPatchToStruct: a zero struct is filled, if the patch applies.
FillNew(source, like) ==
  /\ Begin(Len(cells) + 1, source, like)
  /\ cells' = Append(cells, "struct")
  /\ UNCHANGED mem

\* `v = w`
Copy(v, w) ==
  /\ call.status # "filling" /\ v # w
  /\ mem' = CopyStruct(mem, w, v)
  /\ call' = NoCall
  /\ UNCHANGED <<cells, stack, calls>>

\* `v, err = ApplyPatchToStruct(...)`, when there is no error.
TakeResult(v) ==
  /\ call.status = "filled" /\ call.target \notin Variables
  /\ mem' = CopyStruct(mem, call.target, v)
  /\ call' = NoCall
  /\ UNCHANGED <<cells, stack, calls>>

-----------------------------------------------------------------------------
(* The steps of a call.                                                    *)

Running(do) == call.status = "filling" /\ stack # <<>> /\ Top.do = do

\* An activation that assigns to a type of this kind.
Assigning(kind) == Running("assign") /\ GoType[Top.type].kind = kind

Store(value) == mem' = Write(mem, Top.at, value) /\ stack' = Parent

AssignNil ==
  /\ Assigning("pointer") \/ Assigning("slice")
  /\ Top.source = Null
  /\ Store(Zero)
  /\ UNCHANGED <<cells, call, calls>>

\* Mutant: a pointer always gets a new pointee.
AssignPointerAnew ==
  /\ Assigning("pointer") /\ Top.source # Null
  /\ LET new == Len(cells) + 1
     IN  /\ cells' = Append(cells, "pointee")
         /\ mem' = Write(mem, Top.at, Pointer(new))
         /\ stack' = <<Assign(Top.source, Cell(new), GoType[Top.type].elem)>> \o Parent
  /\ UNCHANGED <<call, calls>>

\* What a pointer already points to is assigned to where it is.
AssignPointer ==
  /\ Assigning("pointer") /\ Top.source # Null
  /\ LET old    == Read(mem, Top.at)
         new    == Len(cells) + 1
         Go(c)  == <<Assign(Top.source, Cell(c), GoType[Top.type].elem)>> \o Parent
     IN  IF old.kind = "pointer"
           THEN stack' = Go(old.cell) /\ UNCHANGED <<mem, cells>>
           ELSE /\ cells' = Append(cells, "pointee")
                /\ mem' = Write(mem, Top.at, Pointer(new))
                /\ stack' = Go(new)
  /\ UNCHANGED <<call, calls>>

AssignScalar ==
  /\ Running("assign")
  /\ LET type == GoType[Top.type]
     IN  /\ IsScalarType(type)
         /\ Converted(Top.source, type).ok
         /\ Store(Converted(Top.source, type).value)
  /\ UNCHANGED <<cells, call, calls>>

\* Mutant: the elements the slice has are used again, as encoding/json does.
AssignSliceInPlace ==
  /\ Assigning("slice") /\ Top.source.kind = "array"
  /\ LET old == Read(mem, Top.at)
         new == IF old = Zero THEN Len(cells) + 1 ELSE old.cell
     IN  /\ cells' = IF old = Zero THEN Append(cells, "elements") ELSE cells
         /\ stack' = <<Items(Top.source, Cell(new), GoType[Top.type].elem, Top.at)>>
                       \o Parent
  /\ UNCHANGED <<mem, call, calls>>

\* MakeSlice: the elements are built in a place of their own.
AssignSlice ==
  /\ Assigning("slice") /\ Top.source.kind = "array"
  /\ LET new == Len(cells) + 1
     IN  /\ cells' = Append(cells, "elements")
         /\ stack' = <<Items(Top.source, Cell(new), GoType[Top.type].elem, Top.at)>>
                       \o Parent
  /\ UNCHANGED <<mem, call, calls>>

NextItem ==
  /\ Running("items") /\ Top.next \in DOMAIN Top.source.items
  /\ LET loop == <<[Top EXCEPT !.next = @ + 1]>> \o Parent
     IN  stack' = <<Assign(Top.source.items[Top.next], Part(Top.at, Top.next), Top.type)>>
                    \o loop
  /\ UNCHANGED <<mem, cells, call, calls>>

\* target.Set(slice), when every item is in its element.
SetSlice ==
  /\ Running("items") /\ Top.next \notin DOMAIN Top.source.items
  /\ mem' = Write(mem, Top.into, Slice(Top.at.cell, Top.next - 1))
  /\ stack' = Parent
  /\ UNCHANGED <<cells, call, calls>>

AssignStruct ==
  /\ Assigning("struct") /\ Top.source.kind = "object"
  /\ stack' = <<Fields(Top.source, Top.at, Top.type)>> \o Parent
  /\ UNCHANGED <<mem, cells, call, calls>>

\* Mutant: a field the document does not have is set to its zero value.
NextFieldResets ==
  /\ Running("fields") /\ Top.next <= Len(GoType[Top.type].fields)
  /\ LET f      == GoType[Top.type].fields[Top.next]
         source == SourceFor(Top.source, f)
         loop   == <<[Top EXCEPT !.next = @ + 1]>> \o Parent
     IN  IF IsVoid(source)
           THEN stack' = loop /\ mem' = Write(mem, Part(Top.at, Top.next), Zero)
           ELSE /\ stack' = <<Assign(source, Part(Top.at, Top.next), f.type)>> \o loop
                /\ UNCHANGED mem
  /\ UNCHANGED <<cells, call, calls>>

NextField ==
  /\ Running("fields") /\ Top.next <= Len(GoType[Top.type].fields)
  /\ LET f      == GoType[Top.type].fields[Top.next]
         source == SourceFor(Top.source, f)
         loop   == <<[Top EXCEPT !.next = @ + 1]>> \o Parent
     IN  stack' = IF IsVoid(source) THEN loop
                  ELSE <<Assign(source, Part(Top.at, Top.next), f.type)>> \o loop
  /\ UNCHANGED <<mem, cells, call, calls>>

EndOfFields ==
  /\ Running("fields") /\ Top.next > Len(GoType[Top.type].fields)
  /\ stack' = Parent
  /\ UNCHANGED <<mem, cells, call, calls>>

\* Mutant: a value that does not fit is left out and the loop goes on.
RejectAndGoOn ==
  /\ Running("assign") /\ Misfit(Top.source, GoType[Top.type])
  /\ stack' = Parent
  /\ UNCHANGED <<mem, cells, call, calls>>

\* Mutant: the error leaves only the innermost activation.
RejectInnermost ==
  /\ Running("assign") /\ Misfit(Top.source, GoType[Top.type])
  /\ stack' = Parent
  /\ call' = [call EXCEPT !.status = "failed"]
  /\ UNCHANGED <<mem, cells, calls>>

\* The error returns at once through every activation.
Reject ==
  /\ Running("assign") /\ Misfit(Top.source, GoType[Top.type])
  /\ stack' = <<>>
  /\ call' = [call EXCEPT !.status = "failed"]
  /\ UNCHANGED <<mem, cells, calls>>

Return ==
  /\ call.status = "filling" /\ stack = <<>>
  /\ call' = [call EXCEPT !.status = "filled"]
  /\ UNCHANGED <<mem, cells, stack, calls>>

Next ==
  \/ \E v \in Variables, d \in Documents : ToStructTry(v, d)
  \/ MayCall /\ \E r \in Patched(mem) : FillNew(r.source, r.like)
  \/ \E v, w \in Variables : Copy(v, w)
  \/ \E v \in Variables : TakeResult(v)
  \/ AssignNil \/ AssignPointer \/ AssignScalar \/ AssignSlice \/ AssignStruct
  \/ NextItem \/ SetSlice \/ NextField \/ EndOfFields
  \/ Reject \/ Return

Spec == Init /\ [][Next]_vars

-----------------------------------------------------------------------------
(* Correctness.                                                            *)

CellKind == {"struct", "pointee", "elements"}

\* Memory is typed: pointers refer to pointees and slices to elements, both
\* allocated; a call that is over has no activation left.
TypeOK ==
  /\ cells \in Seq(CellKind) /\ calls \in Nat
  /\ DOMAIN mem \subseteq [cell : DOMAIN cells, path : Seq(Nat)]
  /\ \A a \in DOMAIN mem :
       /\ mem[a].kind = "pointer" =>
            mem[a].cell \in DOMAIN cells /\ cells[mem[a].cell] = "pointee"
       /\ mem[a].kind = "slice" =>
            mem[a].cell \in DOMAIN cells /\ cells[mem[a].cell] = "elements"
  /\ call.status \in {"ready", "filling", "filled", "failed"}
  /\ call.status # "filling" => stack = <<>>

\* The elements of a slice that is in use.
SliceCells(m)  == {m[a].cell : a \in {x \in DOMAIN m : m[x].kind = "slice"}}
Elements(m, c) == {<<a, m[a]>> : a \in {x \in DOMAIN m : x.cell = c}}

\* A slice is replaced, never written into: whoever holds a copy of the struct
\* goes on seeing the elements it saw.  (assignJSONToValue stores a slice only
\* when all of it is built.)
SlicesAreFrozen ==
  [][\A c \in SliceCells(mem) : Elements(mem', c) = Elements(mem, c)]_vars

\* Does a document speak of a field of the root struct?
Mentions(source, i) ==
  /\ i \in DOMAIN GoType[StructType].fields
  /\ ~IsVoid(SourceFor(source, GoType[StructType].fields[i]))

\* "missing fields leave the existing Go field value unchanged"
\* (methods-object.md): in the caller's structs a call, failed or not, changes
\* nothing but what the document mentions, in the target.
OnlyMentionedFields ==
  call.status # "ready" =>
    \A a \in DOMAIN mem \cup DOMAIN call.before :
      cells[a.cell] = "struct" /\ Read(mem, a) # Read(call.before, a) =>
        a.cell = call.target /\ a.path # <<>> /\ Mentions(call.source, a.path[1])

\* patch_typed.go: "The input value is never mutated."  A call that fills a
\* new struct changes no memory there was, and what it builds refers to no
\* memory there was; pointees and slices allocated by the other calls do not
\* either.
InputIsLeftAlone ==
  call.status # "ready" =>
    /\ call.target > call.mark =>
         \A a \in DOMAIN mem \cup DOMAIN call.before :
           a.cell <= call.mark => Read(mem, a) = Read(call.before, a)
    /\ \A a \in DOMAIN mem :
         a.cell > call.mark /\ Refers(mem[a]) => mem[a].cell > call.mark
=============================================================================
