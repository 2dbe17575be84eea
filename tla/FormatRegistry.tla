----------------------------- MODULE FormatRegistry -----------------------------
(***************************************************************************)
(* Goroutines that register string formats in one StringFormatRegistry and *)
(* compile schemas with it, at the grain at which they can interleave:     *)
(* the lock operations, each map access under a lock, and each schema      *)
(* entry resolved after the snapshot was taken.                            *)
(*                                                                         *)
(* The lock is Go's sync.RWMutex: a writer first takes an inner mutex,     *)
(* which turns new readers away, then waits for the readers inside; when   *)
(* it unlocks, every reader it turned away is inside.                      *)
(***************************************************************************)
EXTENDS Formats

CONSTANTS Clients, Nobody

ASSUME ClientsAssumption == Nobody \notin Clients

VARIABLES
    formats,    \* the registry's map
    writer,     \* who holds the inner mutex of the RWMutex, or Nobody
    readers,    \* who holds a read lock
    waiting,    \* readers turned away by the writer
    pc,         \* pc[c]: where the goroutine is in its call
    request,    \* request[c]: the arguments of its call, NoRequest outside
    snapshot,   \* snapshot[c]: the private copy a compilation works from
    next,       \* next[c]: the schema entry to compile next
    entries,    \* entries[c]: the formats resolved so far
    answer      \* answer[c]: what its last finished call returned

lock  == <<writer, readers, waiting>>
local == <<snapshot, next, entries>>
vars  == <<formats, writer, readers, waiting, pc, request, snapshot, next,
           entries, answer>>

Labels == {"idle", "call", "lock", "drain", "write", "unlock",
           "rlock", "wait", "copy", "compile"}

Goto(c, label) == pc' = [pc EXCEPT ![c] = label]

\* The arguments and locals of a call die with it.
Forget(c) ==
    /\ snapshot' = [snapshot EXCEPT ![c] = NewStringFormatRegistry]
    /\ next' = [next EXCEPT ![c] = 1]
    /\ entries' = [entries EXCEPT ![c] = NoSchema]
    /\ request' = [request EXCEPT ![c] = NoRequest]

Init ==
    /\ formats = NewStringFormatRegistry
    /\ writer = Nobody /\ readers = {} /\ waiting = {}
    /\ pc = [c \in Clients |-> "idle"]
    /\ request = [c \in Clients |-> NoRequest]
    /\ snapshot = [c \in Clients |-> NewStringFormatRegistry]
    /\ next = [c \in Clients |-> 1]
    /\ entries = [c \in Clients |-> NoSchema]
    /\ answer = [c \in Clients |-> Rejected]

Return(c, result) ==
    /\ answer' = [answer EXCEPT ![c] = result]
    /\ Goto(c, "idle")
    /\ Forget(c)

\* A goroutine calls Register, or CompileSchemaBytes with or without a
\* registry among its options.
Call(c, r) ==
    /\ pc[c] = "idle"
    /\ request' = [request EXCEPT ![c] = r]
    /\ Goto(c, "call")
    /\ UNCHANGED <<formats, lock, local, answer>>

-----------------------------------------------------------------------------
(***************************************************************************)
(* Register.                                                               *)
(***************************************************************************)

\* Mutant: built-in names are not refused.
CheckArgumentsAllowsBuiltin(c) ==
    LET r == request[c]
        usable == r.validator # NoValidator
    IN  /\ pc[c] = "call" /\ r.op = "register"
        /\ IF usable
           THEN Goto(c, "lock") /\ UNCHANGED <<local, request, answer>>
           ELSE Return(c, Rejected)
        /\ UNCHANGED <<formats, lock>>

\* The checks made before the lock is taken.
CheckArguments(c) ==
    LET r == request[c]
        usable == r.name \notin Builtin /\ r.validator # NoValidator
    IN  /\ pc[c] = "call" /\ r.op = "register"
        /\ IF usable
           THEN Goto(c, "lock") /\ UNCHANGED <<local, request, answer>>
           ELSE Return(c, Rejected)
        /\ UNCHANGED <<formats, lock>>

Announce(c) ==
    /\ pc[c] = "lock" /\ writer = Nobody
    /\ writer' = c
    /\ Goto(c, "drain")
    /\ UNCHANGED <<formats, readers, waiting, local, request, answer>>

\* Mutant: the writer does not wait for the readers inside.
DrainAtOnce(c) ==
    /\ pc[c] = "drain"
    /\ Goto(c, "write")
    /\ UNCHANGED <<formats, lock, local, request, answer>>

Drain(c) ==
    /\ pc[c] = "drain" /\ readers = {}
    /\ Goto(c, "write")
    /\ UNCHANGED <<formats, lock, local, request, answer>>

\* Mutant: the check for the name is not made again under the lock.
StoreOverwrites(c) ==
    /\ pc[c] = "write"
    /\ formats' = [formats EXCEPT ![request[c].name] = request[c].validator]
    /\ answer' = [answer EXCEPT ![c] = Accepted(NoSchema)]
    /\ Goto(c, "unlock")
    /\ UNCHANGED <<lock, local, request>>

\* Mutant: the duplicate case returns without the deferred unlock.
StoreWithoutDefer(c) ==
    LET n == request[c].name
        fresh == formats[n] = NoValidator
    IN  /\ pc[c] = "write"
        /\ formats' = IF fresh THEN [formats EXCEPT ![n] = request[c].validator]
                      ELSE formats
        /\ IF fresh
           THEN /\ answer' = [answer EXCEPT ![c] = Accepted(NoSchema)]
                /\ Goto(c, "unlock")
                /\ UNCHANGED <<local, request>>
           ELSE Return(c, Rejected)
        /\ UNCHANGED lock

\* The check for the name and the store, both under the lock.
Store(c) ==
    LET n == request[c].name
        fresh == formats[n] = NoValidator
    IN  /\ pc[c] = "write"
        /\ formats' = IF fresh THEN [formats EXCEPT ![n] = request[c].validator]
                      ELSE formats
        /\ answer' = [answer EXCEPT ![c] = IF fresh THEN Accepted(NoSchema)
                                           ELSE Rejected]
        /\ Goto(c, "unlock")
        /\ UNCHANGED <<lock, local, request>>

Unlock(c) ==
    /\ pc[c] = "unlock"
    /\ writer' = Nobody
    /\ readers' = readers \cup waiting
    /\ waiting' = {}
    /\ pc' = [d \in Clients |-> IF d = c THEN "idle"
                                ELSE IF d \in waiting THEN "copy" ELSE pc[d]]
    /\ Forget(c)
    /\ UNCHANGED <<formats, answer>>

-----------------------------------------------------------------------------
(***************************************************************************)
(* CompileSchemaBytes.                                                     *)
(***************************************************************************)

\* newSchemaCompileConfig: a snapshot is taken only of a registry given.
Configure(c) ==
    /\ pc[c] = "call" /\ request[c].op = "compile"
    /\ Goto(c, IF request[c].registry THEN "rlock" ELSE "compile")
    /\ UNCHANGED <<formats, lock, local, request, answer>>

RLock(c) ==
    /\ pc[c] = "rlock"
    /\ IF writer = Nobody
       THEN /\ readers' = readers \cup {c}
            /\ Goto(c, "copy")
            /\ UNCHANGED waiting
       ELSE /\ waiting' = waiting \cup {c}
            /\ Goto(c, "wait")
            /\ UNCHANGED readers
    /\ UNCHANGED <<formats, writer, local, request, answer>>

\* Names of the map the iteration of snapshot has not reached yet.
Uncopied(c) ==
    {n \in Custom : formats[n] # NoValidator /\ snapshot[c][n] = NoValidator}

Copy(c, n) ==
    /\ pc[c] = "copy" /\ n \in Uncopied(c)
    /\ snapshot' = [snapshot EXCEPT ![c] = [@ EXCEPT ![n] = formats[n]]]
    /\ UNCHANGED <<formats, lock, pc, next, entries, request, answer>>

RUnlock(c) ==
    /\ pc[c] = "copy" /\ Uncopied(c) = {}
    /\ readers' = readers \ {c}
    /\ Goto(c, "compile")
    /\ UNCHANGED <<formats, writer, waiting, local, request, answer>>

\* Mutant: formats are looked up in the registry given, not in the snapshot.
CompileEntryLive(c) ==
    LET n == request[c].text[next[c]]
        def == Resolve(IF request[c].registry THEN formats ELSE snapshot[c], n)
    IN  /\ pc[c] = "compile" /\ next[c] <= Len(request[c].text)
        /\ IF def = NoValidator
           THEN Return(c, Rejected)
           ELSE /\ entries' = [entries EXCEPT ![c] = [@ EXCEPT ![n] = def]]
                /\ next' = [next EXCEPT ![c] = @ + 1]
                /\ UNCHANGED <<answer, pc, snapshot, request>>
        /\ UNCHANGED <<formats, lock>>

\* resolveStringFormat for the next entry, in the private snapshot.
CompileEntry(c) ==
    LET n == request[c].text[next[c]]
        def == Resolve(snapshot[c], n)
    IN  /\ pc[c] = "compile" /\ next[c] <= Len(request[c].text)
        /\ IF def = NoValidator
           THEN Return(c, Rejected)
           ELSE /\ entries' = [entries EXCEPT ![c] = [@ EXCEPT ![n] = def]]
                /\ next' = [next EXCEPT ![c] = @ + 1]
                /\ UNCHANGED <<answer, pc, snapshot, request>>
        /\ UNCHANGED <<formats, lock>>

ReturnSchema(c) ==
    /\ pc[c] = "compile" /\ next[c] = Len(request[c].text) + 1
    /\ Return(c, Accepted(entries[c]))
    /\ UNCHANGED <<formats, lock>>

-----------------------------------------------------------------------------
\* What a goroutine does once it is inside a call, and needs no lock for.
Step(c) ==
    \/ CheckArguments(c) \/ Drain(c) \/ Store(c) \/ Unlock(c)
    \/ Configure(c) \/ RLock(c) \/ RUnlock(c) \/ CompileEntry(c) \/ ReturnSchema(c)
    \/ \E n \in Custom : Copy(c, n)

Next == \E c \in Clients :
    \/ \E r \in Requests : Call(c, r)
    \/ Announce(c)
    \/ Step(c)

(***************************************************************************)
(* A goroutine that can run is run in the end.  The inner mutex of the     *)
(* RWMutex is a sync.Mutex, handed to the goroutine that has waited for a  *)
(* millisecond: a goroutine that finds it free again and again gets it.    *)
(* Nobody has to call.                                                     *)
(***************************************************************************)
Spec == Init /\ [][Next]_vars
FairSpec == Spec /\ \A c \in Clients : WF_vars(Step(c)) /\ SF_vars(Announce(c))

-----------------------------------------------------------------------------
TypeOK ==
    /\ formats \in Maps
    /\ writer \in Clients \cup {Nobody}
    /\ readers \subseteq Clients
    /\ waiting \subseteq Clients
    /\ pc \in [Clients -> Labels]
    /\ request \in [Clients -> Requests \cup {NoRequest}]
    /\ snapshot \in [Clients -> Maps]
    /\ next \in [Clients -> Nat \ {0}]
    /\ entries \in [Clients -> Schemas]
    /\ answer \in [Clients -> Answers]
    /\ \A c \in Clients : pc[c] \in {"lock", "drain", "write", "unlock"} =>
           request[c].op = "register" /\ request[c].name \in Custom

\* The map is never written while anybody else reads or writes it, which a
\* Go program would pay for with "concurrent map read and map write".
MapIsGuarded ==
    \A c \in Clients : pc[c] \in {"write", "unlock"} =>
        \A d \in Clients \ {c} : pc[d] \notin {"write", "unlock", "copy"}

\* Every format a compiled schema uses is the one the registry still holds
\* under that name, so any two schemas compiled at any two times agree on
\* the formats they share.
SchemasAgree ==
    \A c \in Clients, n \in Custom : answer[c].schema[n] # NoValidator =>
        formats[n] = answer[c].schema[n]

\* A name, once registered, keeps its validator for ever.
RegisteredForGood ==
    [][\A n \in Custom : formats[n] # NoValidator => formats'[n] = formats[n]]_vars

\* Each call takes effect at one instant, as RegistrySpec describes it:
\* a Register when the name is stored, a compilation when its snapshot is
\* complete, whatever is registered while its entries are compiled.
Phase(c) ==
    IF pc[c] = "idle" THEN "idle"
    ELSE IF pc[c] \in {"unlock", "compile"} THEN "decided" ELSE "called"

Decision(c) ==
    IF pc[c] = "compile" THEN CompileWith(snapshot[c], request[c].text)
    ELSE answer[c]

Atomic == INSTANCE RegistrySpec WITH
    registry <- formats,
    request <- request,
    phase <- [c \in Clients |-> Phase(c)],
    answer <- [c \in Clients |-> Decision(c)]

ImplementsAtomicRegistry == Atomic!AtomicRegistry

\* Every call returns, however many others keep calling.
CallsReturn == \A c \in Clients : (pc[c] # "idle") ~> (pc[c] = "idle")
=============================================================================
