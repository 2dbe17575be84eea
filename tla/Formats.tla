-------------------------------- MODULE Formats --------------------------------
(***************************************************************************)
(* The data of a string-format registry and of the schemas compiled with   *)
(* it: a registry's map from custom names to validators, and the answer a  *)
(* call gives its caller.  A name missing from the Go map is mapped to     *)
(* NoValidator here, which is also the nil a caller may pass to Register.  *)
(***************************************************************************)
EXTENDS Naturals, Sequences

CONSTANTS
    Custom,         \* format names an application may register
    Builtin,        \* "email", "tel", "url"
    Validators,     \* validators an application registers
    BuiltinCheck,   \* what the library itself checks a built-in format with
    NoValidator,    \* nil, and the absence of a name
    Texts           \* schema texts: the format of each string entry, in
                    \* the order the entries are compiled

ASSUME FormatsAssumption ==
    /\ Custom \cap Builtin = {}
    /\ BuiltinCheck \notin Validators
    /\ NoValidator \notin Validators \cup {BuiltinCheck}
    /\ Texts \subseteq Seq(Custom \cup Builtin)

Names == Custom \cup Builtin

Maps == [Custom -> Validators \cup {NoValidator}]
NewStringFormatRegistry == [n \in Custom |-> NoValidator]

\* What a name stands for when a schema is compiled against a map.
Resolve(formats, n) == IF n \in Builtin THEN BuiltinCheck ELSE formats[n]

Defs == Validators \cup {BuiltinCheck, NoValidator}

\* A compiled schema, as far as formats go: the validator each name it uses
\* was resolved to, NoValidator for the names it does not use.
Schemas  == [Names -> Defs]
NoSchema == [n \in Names |-> NoValidator]

Answers     == [ok : BOOLEAN, schema : Schemas]
Rejected    == [ok |-> FALSE, schema |-> NoSchema]
Accepted(s) == [ok |-> TRUE, schema |-> s]

NamesIn(text) == {text[i] : i \in 1 .. Len(text)}

\* Compiling a text against a map, all at once.
CompileWith(formats, text) ==
    IF \A n \in NamesIn(text) : Resolve(formats, n) # NoValidator
    THEN Accepted([n \in Names |-> IF n \in NamesIn(text)
                                   THEN Resolve(formats, n) ELSE NoValidator])
    ELSE Rejected

Requests ==
    [op : {"register"}, name : Names, validator : Validators \cup {NoValidator}]
    \cup [op : {"compile"}, text : Texts, registry : BOOLEAN]

NoRequest == [op |-> "none"]
=============================================================================
