------------------------------ MODULE RegistrySpec ------------------------------
(***************************************************************************)
(* What a StringFormatRegistry shared by goroutines promises: every call   *)
(* behaves as if it took effect at one instant between its invocation and  *)
(* its return.  No lock, no copy and no entry-by-entry compilation is in   *)
(* sight here; FormatRegistry implements this specification.               *)
(***************************************************************************)
EXTENDS Formats

CONSTANT Clients    \* goroutines

VARIABLES
    registry,   \* the map of the shared registry
    request,    \* request[c]: the arguments of c's call, NoRequest outside
    phase,      \* phase[c]: "idle", "called", or "decided" and not returned
    answer      \* answer[c]: the answer of c's last decided call

rvars == <<registry, request, phase, answer>>

Usable(r) == r.name \in Custom /\ r.validator # NoValidator

RInit ==
    /\ registry = NewStringFormatRegistry
    /\ request = [c \in Clients |-> NoRequest]
    /\ phase = [c \in Clients |-> "idle"]
    /\ answer = [c \in Clients |-> Rejected]

Invoked(c, r) ==
    /\ phase[c] = "idle"
    /\ request' = [request EXCEPT ![c] = r]
    /\ phase' = [phase EXCEPT ![c] = "called"]
    /\ UNCHANGED <<registry, answer>>

\* Register with a built-in name or a nil validator never reaches the map.
Refused(c) ==
    /\ phase[c] = "called" /\ request[c].op = "register" /\ ~Usable(request[c])
    /\ answer' = [answer EXCEPT ![c] = Rejected]
    /\ request' = [request EXCEPT ![c] = NoRequest]
    /\ phase' = [phase EXCEPT ![c] = "idle"]
    /\ UNCHANGED registry

\* The first Register of a name wins, every later one is refused.
Registered(c) ==
    LET n == request[c].name
        fresh == registry[n] = NoValidator
    IN  /\ phase[c] = "called" /\ request[c].op = "register" /\ Usable(request[c])
        /\ registry' = IF fresh THEN [registry EXCEPT ![n] = request[c].validator]
                       ELSE registry
        /\ answer' = [answer EXCEPT ![c] = IF fresh THEN Accepted(NoSchema)
                                           ELSE Rejected]
        /\ phase' = [phase EXCEPT ![c] = "decided"]
        /\ UNCHANGED request

\* A compilation is decided by the map of one instant.
Compiled(c) ==
    /\ phase[c] = "called" /\ request[c].op = "compile"
    /\ answer' = [answer EXCEPT ![c] =
           CompileWith(IF request[c].registry THEN registry
                       ELSE NewStringFormatRegistry, request[c].text)]
    /\ phase' = [phase EXCEPT ![c] = "decided"]
    /\ UNCHANGED <<registry, request>>

Returned(c) ==
    /\ phase[c] = "decided"
    /\ request' = [request EXCEPT ![c] = NoRequest]
    /\ phase' = [phase EXCEPT ![c] = "idle"]
    /\ UNCHANGED <<registry, answer>>

RNext == \E c \in Clients :
    \/ \E r \in Requests : Invoked(c, r)
    \/ Refused(c) \/ Registered(c) \/ Compiled(c) \/ Returned(c)

AtomicRegistry == RInit /\ [][RNext]_rvars
=============================================================================
