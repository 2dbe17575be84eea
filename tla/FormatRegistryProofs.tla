-------------------------- MODULE FormatRegistryProofs --------------------------
(***************************************************************************)
(* Proofs about FormatRegistry for any set of goroutines, names,           *)
(* validators and schema texts.                                            *)
(***************************************************************************)
EXTENDS FormatRegistry, TLAPS

\* The arguments of a call in progress fit the place it has reached.
ArgumentsFit(c) ==
    /\ pc[c] = "idle" <=> request[c] = NoRequest
    /\ pc[c] \in {"lock", "drain", "write", "unlock"} =>
           /\ request[c].op = "register"
           /\ request[c].name \in Custom
           /\ request[c].validator \in Validators
    /\ c \in waiting <=> pc[c] = "wait"
    /\ pc[c] \in {"rlock", "wait", "copy"} =>
           request[c].op = "compile" /\ request[c].registry
    /\ pc[c] = "compile" => request[c].op = "compile"

TypeInv == TypeOK /\ \A c \in Clients : ArgumentsFit(c)

LEMMA EmptyMapType == NewStringFormatRegistry \in Maps /\ NoSchema \in Schemas
  BY DEF NewStringFormatRegistry, Maps, NoSchema, Schemas, Defs

LEMMA AnswerType == \A s \in Schemas : Accepted(s) \in Answers
  BY DEF Accepted, Answers

LEMMA RejectedType == Rejected \in Answers
  BY EmptyMapType DEF Rejected, Answers

LEMMA RequestType ==
  ASSUME NEW r \in Requests
  PROVE  /\ r # NoRequest
         /\ r.op \in {"register", "compile"}
         /\ r.op = "register" => r.name \in Names /\ r.validator \in Validators \cup {NoValidator}
         /\ r.op = "compile" => r.text \in Texts /\ r.registry \in BOOLEAN
  BY DEF Requests, NoRequest

LEMMA TextType ==
  ASSUME NEW t \in Texts
  PROVE  t \in Seq(Names) /\ Len(t) \in Nat /\ \A i \in 1 .. Len(t) : t[i] \in Names
  BY FormatsAssumption DEF FormatsAssumption, Names

LEMMA ResolveType ==
  ASSUME NEW m \in Maps, NEW n \in Names
  PROVE  Resolve(m, n) \in Defs
  BY DEF Maps, Names, Resolve, Defs

LEMMA TypeInvInit == Init => TypeInv
  BY EmptyMapType, RejectedType
     DEF Init, TypeInv, TypeOK, ArgumentsFit, Labels, Requests

LEMMA TypeInvStep == TypeInv /\ [Next]_vars => TypeInv'
  <1> SUFFICES ASSUME TypeInv, [Next]_vars
               PROVE  TypeInv'
    OBVIOUS
  <1> USE DEF TypeInv, TypeOK, ArgumentsFit, Labels, Goto
  <1>1. ASSUME NEW c \in Clients, NEW r \in Requests, Call(c, r)
        PROVE  TypeInv'
    BY <1>1, RequestType DEF Call, lock, local
  <1>2. ASSUME NEW c \in Clients, Announce(c)
        PROVE  TypeInv'
    BY <1>2 DEF Announce, local
  <1>3. ASSUME NEW c \in Clients, CheckArguments(c)
        PROVE  TypeInv'
    <2>1. request[c] \in Requests /\ request[c].name \in Names
      BY <1>3, RequestType DEF CheckArguments, NoRequest
    <2>2. CASE request[c].name \notin Builtin /\ request[c].validator # NoValidator
      BY <1>3, <2>1, <2>2, RequestType DEF CheckArguments, lock, local, Names
    <2>3. CASE ~(request[c].name \notin Builtin /\ request[c].validator # NoValidator)
      BY <1>3, <2>3, EmptyMapType, RejectedType DEF CheckArguments, Return, Forget, lock
    <2>4. QED
      BY <2>2, <2>3
  <1>4. ASSUME NEW c \in Clients, Drain(c)
        PROVE  TypeInv'
    BY <1>4 DEF Drain, lock, local
  <1>5. ASSUME NEW c \in Clients, Store(c)
        PROVE  TypeInv'
    <2>1. formats' \in Maps
      BY <1>5 DEF Store, Maps
    <2>2. answer' \in [Clients -> Answers]
      BY <1>5, EmptyMapType, AnswerType, RejectedType DEF Store
    <2>3. QED
      BY <1>5, <2>1, <2>2 DEF Store, lock, local
  <1>6. ASSUME NEW c \in Clients, Unlock(c)
        PROVE  TypeInv'
    BY <1>6, EmptyMapType DEF Unlock, Forget
  <1>7. ASSUME NEW c \in Clients, Configure(c)
        PROVE  TypeInv'
    BY <1>7, RequestType DEF Configure, lock, local
  <1>8. ASSUME NEW c \in Clients, RLock(c)
        PROVE  TypeInv'
    BY <1>8 DEF RLock, local
  <1>9. ASSUME NEW c \in Clients, NEW n \in Custom, Copy(c, n)
        PROVE  TypeInv'
    <2>1. snapshot' \in [Clients -> Maps]
      BY <1>9 DEF Copy, Maps
    <2>2. QED
      BY <1>9, <2>1 DEF Copy, lock
  <1>10. ASSUME NEW c \in Clients, RUnlock(c)
         PROVE  TypeInv'
    BY <1>10 DEF RUnlock, local
  <1>11. ASSUME NEW c \in Clients, CompileEntry(c)
         PROVE  TypeInv'
    <2> DEFINE n == request[c].text[next[c]]
               def == Resolve(snapshot[c], n)
    <2>1. n \in Names /\ def \in Defs
      <3>1. request[c].text \in Texts
        BY <1>11, RequestType DEF CompileEntry, NoRequest
      <3>2. next[c] \in 1 .. Len(request[c].text)
        BY <1>11, <3>1, TextType DEF CompileEntry
      <3>3. QED
        BY <3>1, <3>2, TextType, ResolveType
    <2>2. CASE def = NoValidator
      <3>1. Return(c, Rejected) /\ UNCHANGED <<formats, lock>> /\ pc[c] = "compile"
        BY <1>11, <2>2 DEF CompileEntry
      <3>2. QED
        BY <3>1, EmptyMapType, RejectedType DEF Return, Forget, lock
    <2>3. CASE def # NoValidator
      <3>1. /\ entries' = [entries EXCEPT ![c] = [@ EXCEPT ![n] = def]]
            /\ next' = [next EXCEPT ![c] = @ + 1]
            /\ UNCHANGED <<answer, pc, snapshot, request, formats, lock>>
        BY <1>11, <2>3 DEF CompileEntry
      <3>2. entries' \in [Clients -> Schemas]
        BY <2>1, <3>1 DEF Schemas
      <3>3. QED
        BY <3>1, <3>2 DEF lock
    <2>4. QED
      BY <2>2, <2>3
  <1>12. ASSUME NEW c \in Clients, ReturnSchema(c)
         PROVE  TypeInv'
    BY <1>12, EmptyMapType, AnswerType DEF ReturnSchema, Return, Forget, lock
  <1>13. CASE UNCHANGED vars
    BY <1>13 DEF vars
  <1>14. QED
    BY <1>1, <1>2, <1>3, <1>4, <1>5, <1>6, <1>7, <1>8, <1>9, <1>10, <1>11, <1>12, <1>13
       DEF Next, Step

\* Every variable has its type: TypeOK.
THEOREM TypeCorrect == Spec => []TypeOK
  <1>1. Spec => []TypeInv
    BY TypeInvInit, TypeInvStep, PTL DEF Spec
  <1>2. TypeInv => TypeOK
    BY DEF TypeInv
  <1>3. QED
    BY <1>1, <1>2, PTL

-----------------------------------------------------------------------------
(***************************************************************************)
(* The lock.  MapIsGuarded is not inductive: it must be known where the    *)
(* holders of the lock are.                                                *)
(***************************************************************************)
LockInv ==
    /\ \A c \in Clients : writer = c <=> pc[c] \in {"drain", "write", "unlock"}
    /\ \A c \in Clients : c \in readers <=> pc[c] = "copy"
    /\ \A c \in Clients : pc[c] \in {"write", "unlock"} => readers = {}

LEMMA LockInvInit == Init => LockInv
  BY ClientsAssumption DEF Init, LockInv, ClientsAssumption

LEMMA LockInvStep == TypeInv /\ LockInv /\ [Next]_vars => LockInv'
  <1> SUFFICES ASSUME TypeInv, LockInv, [Next]_vars
               PROVE  LockInv'
    OBVIOUS
  <1> USE ClientsAssumption
      DEF ClientsAssumption, TypeInv, TypeOK, ArgumentsFit, LockInv, Goto, lock
  <1>1. ASSUME NEW c \in Clients, NEW r \in Requests, Call(c, r)
        PROVE  LockInv'
    BY <1>1 DEF Call
  <1>2. ASSUME NEW c \in Clients, Announce(c)
        PROVE  LockInv'
    BY <1>2 DEF Announce
  <1>3. ASSUME NEW c \in Clients, CheckArguments(c)
        PROVE  LockInv'
    BY <1>3 DEF CheckArguments, Return
  <1>4. ASSUME NEW c \in Clients, Drain(c)
        PROVE  LockInv'
    BY <1>4 DEF Drain
  <1>5. ASSUME NEW c \in Clients, Store(c)
        PROVE  LockInv'
    BY <1>5 DEF Store
  <1>6. ASSUME NEW c \in Clients, Unlock(c)
        PROVE  LockInv'
    BY <1>6 DEF Unlock
  <1>7. ASSUME NEW c \in Clients, Configure(c)
        PROVE  LockInv'
    BY <1>7 DEF Configure
  <1>8. ASSUME NEW c \in Clients, RLock(c)
        PROVE  LockInv'
    BY <1>8 DEF RLock
  <1>9. ASSUME NEW c \in Clients, NEW n \in Custom, Copy(c, n)
        PROVE  LockInv'
    BY <1>9 DEF Copy
  <1>10. ASSUME NEW c \in Clients, RUnlock(c)
         PROVE  LockInv'
    BY <1>10 DEF RUnlock
  <1>11. ASSUME NEW c \in Clients, CompileEntry(c)
         PROVE  LockInv'
    <2>1. /\ pc[c] = "compile"
          /\ pc' = pc \/ pc' = [pc EXCEPT ![c] = "idle"]
          /\ UNCHANGED <<writer, readers, waiting>>
      BY <1>11 DEF CompileEntry, Return
    <2>2. QED
      BY <2>1
  <1>12. ASSUME NEW c \in Clients, ReturnSchema(c)
         PROVE  LockInv'
    BY <1>12 DEF ReturnSchema, Return
  <1>13. CASE UNCHANGED vars
    BY <1>13 DEF vars
  <1>14. QED
    BY <1>1, <1>2, <1>3, <1>4, <1>5, <1>6, <1>7, <1>8, <1>9, <1>10, <1>11, <1>12, <1>13
       DEF Next, Step

\* The map is never written while another goroutine reads or writes it:
\* MapIsGuarded.
THEOREM MapGuarded == Spec => []MapIsGuarded
  <1>1. Spec => [](TypeInv /\ LockInv)
    BY TypeInvInit, TypeInvStep, LockInvInit, LockInvStep, PTL DEF Spec
  <1>2. LockInv => MapIsGuarded
    BY DEF LockInv, MapIsGuarded
  <1>3. QED
    BY <1>1, <1>2, PTL

-----------------------------------------------------------------------------
(***************************************************************************)
(* What the maps hold.  A snapshot lags behind the registry but never      *)
(* contradicts it, because a name keeps its validator; the entries         *)
(* resolved so far are those of the snapshot, and an answer once given     *)
(* agrees with the registry from then on.                                  *)
(***************************************************************************)
Done(c) == {request[c].text[i] : i \in 1 .. next[c] - 1}

SnapshotInv(c) ==
    /\ \A n \in Custom : snapshot[c][n] # NoValidator => snapshot[c][n] = formats[n]
    /\ pc[c] \notin {"copy", "compile"} => snapshot[c] = NewStringFormatRegistry

EntriesInv(c) ==
    /\ pc[c] # "compile" => next[c] = 1 /\ entries[c] = NoSchema
    /\ pc[c] = "compile" =>
           /\ next[c] <= Len(request[c].text) + 1
           /\ \A n \in Done(c) : Resolve(snapshot[c], n) # NoValidator
           /\ \A n \in Names : entries[c][n] =
                  IF n \in Done(c) THEN Resolve(snapshot[c], n) ELSE NoValidator

AnswerInv(c) ==
    \A n \in Custom : answer[c].schema[n] # NoValidator =>
        formats[n] = answer[c].schema[n]

DataInv == \A c \in Clients : SnapshotInv(c) /\ EntriesInv(c) /\ AnswerInv(c)

LEMMA EmptyMaps ==
    /\ \A n \in Custom : NewStringFormatRegistry[n] = NoValidator
    /\ \A n \in Names : NoSchema[n] = NoValidator
  BY DEF NewStringFormatRegistry, NoSchema

LEMMA DataInvInit == Init => DataInv
  BY EmptyMaps DEF Init, DataInv, SnapshotInv, EntriesInv, AnswerInv, Rejected, Names

\* A name in the registry keeps its validator; formats changes in Store only.
LEMMA WriteOnce ==
  ASSUME TypeInv, [Next]_vars
  PROVE  \A n \in Custom : formats[n] # NoValidator => formats'[n] = formats[n]
  <1>1. ASSUME NEW c \in Clients, Store(c)
        PROVE  \A n \in Custom : formats[n] # NoValidator => formats'[n] = formats[n]
    BY <1>1 DEF Store, TypeInv, TypeOK, Maps
  <1>2. \/ UNCHANGED formats
        \/ \E c \in Clients : Store(c)
    BY DEF Next, Step, vars, Call, Announce, CheckArguments, Drain, Unlock, Configure,
           RLock, RUnlock, CompileEntry, ReturnSchema, Copy
  <1>3. QED
    BY <1>1, <1>2

LEMMA DataInvStep == TypeInv /\ DataInv /\ [Next]_vars => DataInv'
  <1> SUFFICES ASSUME TypeInv, DataInv, [Next]_vars
               PROVE  DataInv'
    OBVIOUS
  <1>0. \A n \in Custom : formats[n] # NoValidator => formats'[n] = formats[n]
    BY WriteOnce
  \* A goroutine whose own variables stay put keeps its part.
  <1>1. ASSUME NEW d \in Clients, SnapshotInv(d), EntriesInv(d), AnswerInv(d),
               answer'[d] = answer[d], snapshot'[d] = snapshot[d], next'[d] = next[d],
               entries'[d] = entries[d],
               \/ pc'[d] = pc[d] /\ request'[d] = request[d]
               \/ pc[d] \notin {"copy", "compile"} /\ pc'[d] # "compile"
        PROVE  (SnapshotInv(d) /\ EntriesInv(d) /\ AnswerInv(d))'
    <2>1. SnapshotInv(d)'
      BY <1>0, <1>1 DEF SnapshotInv
    <2>2. EntriesInv(d)'
      BY <1>1 DEF EntriesInv, Done
    <2>3. AnswerInv(d)'
      BY <1>0, <1>1 DEF AnswerInv
    <2>4. QED
      BY <2>1, <2>2, <2>3
  <1> USE DEF TypeInv, TypeOK, ArgumentsFit, Goto, lock, local
  \* A goroutine that returns keeps no locals.
  <1>2. ASSUME NEW c \in Clients, NEW a, Return(c, a),
               \A n \in Custom : a.schema[n] # NoValidator => formats'[n] = a.schema[n]
        PROVE  DataInv'
    <2>1. (SnapshotInv(c) /\ EntriesInv(c) /\ AnswerInv(c))'
      BY <1>2, EmptyMaps DEF Return, Forget, SnapshotInv, EntriesInv, AnswerInv
    <2>2. \A d \in Clients \ {c} : (SnapshotInv(d) /\ EntriesInv(d) /\ AnswerInv(d))'
      BY <1>1, <1>2 DEF Return, Forget, DataInv
    <2>3. QED
      BY <2>1, <2>2 DEF DataInv
  <1>3. \A n \in Custom : Rejected.schema[n] = NoValidator
                         /\ Accepted(NoSchema).schema[n] = NoValidator
    BY EmptyMaps DEF Rejected, Accepted, Names
  <1>4. ASSUME NEW c \in Clients, NEW r \in Requests, Call(c, r)
        PROVE  DataInv'
    BY <1>1, <1>4 DEF Call, DataInv
  <1>5. ASSUME NEW c \in Clients, Announce(c)
        PROVE  DataInv'
    BY <1>1, <1>5 DEF Announce, DataInv
  <1>6. ASSUME NEW c \in Clients, CheckArguments(c)
        PROVE  DataInv'
    <2>1. CASE Return(c, Rejected)
      BY <1>2, <1>3, <2>1
    <2>2. CASE Goto(c, "lock") /\ UNCHANGED <<local, request, answer>>
      BY <1>1, <1>6, <2>2 DEF CheckArguments, DataInv
    <2>3. QED
      BY <1>6, <2>1, <2>2 DEF CheckArguments
  <1>7. ASSUME NEW c \in Clients, Drain(c)
        PROVE  DataInv'
    BY <1>1, <1>7 DEF Drain, DataInv
  <1>8. ASSUME NEW c \in Clients, Store(c)
        PROVE  DataInv'
    <2>1. (SnapshotInv(c) /\ EntriesInv(c) /\ AnswerInv(c))'
      BY <1>0, <1>3, <1>8 DEF Store, DataInv, SnapshotInv, EntriesInv, AnswerInv
    <2>2. \A d \in Clients \ {c} : (SnapshotInv(d) /\ EntriesInv(d) /\ AnswerInv(d))'
      BY <1>1, <1>8 DEF Store, DataInv
    <2>3. QED
      BY <2>1, <2>2 DEF DataInv
  <1>9. ASSUME NEW c \in Clients, Unlock(c)
        PROVE  DataInv'
    <2>1. (SnapshotInv(c) /\ EntriesInv(c) /\ AnswerInv(c))'
      BY <1>9, EmptyMaps DEF Unlock, Forget, DataInv, SnapshotInv, EntriesInv, AnswerInv
    <2>2. \A d \in Clients \ {c} : (SnapshotInv(d) /\ EntriesInv(d) /\ AnswerInv(d))'
      BY <1>1, <1>9 DEF Unlock, Forget, DataInv
    <2>3. QED
      BY <2>1, <2>2 DEF DataInv
  <1>10. ASSUME NEW c \in Clients, Configure(c)
         PROVE  DataInv'
    <2>1. (SnapshotInv(c) /\ EntriesInv(c) /\ AnswerInv(c))'
      <3>1. request[c].text \in Texts
        BY <1>10, RequestType DEF Configure, NoRequest
      <3>2. Done(c)' = {}
        BY <1>10 DEF Configure, Done, DataInv, EntriesInv
      <3>3. 1 <= Len(request[c].text) + 1
        BY <3>1, TextType
      <3>4. EntriesInv(c)'
        BY <1>10, <3>2, <3>3, EmptyMaps DEF Configure, DataInv, EntriesInv
      <3>5. SnapshotInv(c)' /\ AnswerInv(c)'
        BY <1>10 DEF Configure, DataInv, SnapshotInv, AnswerInv
      <3>6. QED
        BY <3>4, <3>5
    <2>2. \A d \in Clients \ {c} : (SnapshotInv(d) /\ EntriesInv(d) /\ AnswerInv(d))'
      BY <1>1, <1>10 DEF Configure, DataInv
    <2>3. QED
      BY <2>1, <2>2 DEF DataInv
  <1>11. ASSUME NEW c \in Clients, RLock(c)
         PROVE  DataInv'
    BY <1>1, <1>11 DEF RLock, DataInv
  <1>12. ASSUME NEW c \in Clients, NEW n \in Custom, Copy(c, n)
         PROVE  DataInv'
    <2>1. (SnapshotInv(c) /\ EntriesInv(c) /\ AnswerInv(c))'
      BY <1>12 DEF Copy, Maps, DataInv, SnapshotInv, EntriesInv, AnswerInv
    <2>2. \A d \in Clients \ {c} : (SnapshotInv(d) /\ EntriesInv(d) /\ AnswerInv(d))'
      BY <1>1, <1>12 DEF Copy, DataInv
    <2>3. QED
      BY <2>1, <2>2 DEF DataInv
  <1>13. ASSUME NEW c \in Clients, RUnlock(c)
         PROVE  DataInv'
    <2>1. (SnapshotInv(c) /\ EntriesInv(c) /\ AnswerInv(c))'
      <3>1. request[c].text \in Texts
        BY <1>13, RequestType DEF RUnlock, NoRequest
      <3>2. Done(c)' = {}
        BY <1>13 DEF RUnlock, Done, DataInv, EntriesInv
      <3>3. 1 <= Len(request[c].text) + 1
        BY <3>1, TextType
      <3>4. EntriesInv(c)'
        BY <1>13, <3>2, <3>3, EmptyMaps DEF RUnlock, DataInv, EntriesInv
      <3>5. SnapshotInv(c)' /\ AnswerInv(c)'
        BY <1>13 DEF RUnlock, DataInv, SnapshotInv, AnswerInv
      <3>6. QED
        BY <3>4, <3>5
    <2>2. \A d \in Clients \ {c} : (SnapshotInv(d) /\ EntriesInv(d) /\ AnswerInv(d))'
      BY <1>1, <1>13 DEF RUnlock, DataInv
    <2>3. QED
      BY <2>1, <2>2 DEF DataInv
  <1>14. ASSUME NEW c \in Clients, CompileEntry(c)
         PROVE  DataInv'
    <2> DEFINE n == request[c].text[next[c]]
               def == Resolve(snapshot[c], n)
    <2>1. CASE def = NoValidator
      <3>1. Return(c, Rejected)
        BY <1>14, <2>1 DEF CompileEntry
      <3>2. QED
        BY <1>2, <1>3, <3>1
    <2>2. CASE def # NoValidator
      <3>1. /\ pc[c] = "compile" /\ next[c] <= Len(request[c].text)
            /\ entries' = [entries EXCEPT ![c] = [@ EXCEPT ![n] = def]]
            /\ next' = [next EXCEPT ![c] = @ + 1]
            /\ UNCHANGED <<answer, pc, snapshot, request, formats>>
        BY <1>14, <2>2 DEF CompileEntry
      <3>2. Done(c)' = Done(c) \cup {n}
        <4>1. 1 .. next'[c] - 1 = (1 .. next[c] - 1) \cup {next[c]}
          BY <3>1
        <4>2. QED
          BY <3>1, <4>1 DEF Done
      <3>3. EntriesInv(c)'
        <4>1. request[c].text \in Texts
          BY <3>1, RequestType DEF NoRequest
        <4>2. next'[c] <= Len(request[c].text) + 1
          BY <3>1, <4>1, TextType
        <4>3. \A m \in Done(c)' : Resolve(snapshot[c], m) # NoValidator
          BY <2>2, <3>1, <3>2 DEF DataInv, EntriesInv
        <4>4. \A m \in Names : entries'[c][m] =
                 IF m \in Done(c)' THEN Resolve(snapshot[c], m) ELSE NoValidator
          BY <3>1, <3>2 DEF DataInv, EntriesInv, Schemas
        <4>5. QED
          BY <3>1, <4>2, <4>3, <4>4 DEF EntriesInv
      <3>4. SnapshotInv(c)' /\ AnswerInv(c)'
        BY <3>1 DEF DataInv, SnapshotInv, AnswerInv
      <3>5. \A d \in Clients \ {c} : (SnapshotInv(d) /\ EntriesInv(d) /\ AnswerInv(d))'
        BY <1>1, <3>1 DEF DataInv
      <3>6. QED
        BY <3>3, <3>4, <3>5 DEF DataInv
    <2>3. QED
      BY <2>1, <2>2
  <1>15. ASSUME NEW c \in Clients, ReturnSchema(c)
         PROVE  DataInv'
    <2>1. Return(c, Accepted(entries[c])) /\ pc[c] = "compile" /\ UNCHANGED formats
      BY <1>15 DEF ReturnSchema
    <2>2. \A n \in Custom : entries[c][n] # NoValidator => formats[n] = entries[c][n]
      BY <2>1, FormatsAssumption
         DEF DataInv, EntriesInv, SnapshotInv, Resolve, Names, FormatsAssumption
    <2>3. QED
      BY <1>2, <2>1, <2>2 DEF Accepted
  <1>16. CASE UNCHANGED vars
    BY <1>1, <1>16 DEF vars, DataInv
  <1>17. QED
    BY <1>4, <1>5, <1>6, <1>7, <1>8, <1>9, <1>10, <1>11, <1>12, <1>13, <1>14, <1>15, <1>16
       DEF Next, Step

LEMMA Invariance == Spec => [](TypeInv /\ LockInv /\ DataInv)
  BY TypeInvInit, TypeInvStep, LockInvInit, LockInvStep, DataInvInit, DataInvStep,
     PTL DEF Spec

\* Compiled schemas agree with the registry for ever: SchemasAgree.
THEOREM CompiledSchemasAgree == Spec => []SchemasAgree
  <1>1. DataInv => SchemasAgree
    BY DEF DataInv, AnswerInv, SchemasAgree
  <1>2. QED
    BY <1>1, Invariance, PTL

\* The first registration of a name is final: RegisteredForGood.
THEOREM NamesAreWrittenOnce == Spec => RegisteredForGood
  <1>1. TypeInv /\ [Next]_vars =>
          [\A n \in Custom : formats[n] # NoValidator => formats'[n] = formats[n]]_vars
    BY WriteOnce
  <1>2. QED
    BY <1>1, Invariance, PTL DEF Spec, RegisteredForGood

-----------------------------------------------------------------------------
(***************************************************************************)
(* FormatRegistry implements RegistrySpec: a compilation is decided by the *)
(* step that completes its snapshot, and what it returns later is what the *)
(* whole text compiled against that snapshot gives.                        *)
(***************************************************************************)
Phases == [c \in Clients |-> Phase(c)]
Decisions == [c \in Clients |-> Decision(c)]

\* The data of RegistrySpec is the data of FormatRegistry.
LEMMA SameData ==
    /\ Atomic!NewStringFormatRegistry = NewStringFormatRegistry
    /\ Atomic!Rejected = Rejected
    /\ Atomic!NoRequest = NoRequest
    /\ Atomic!Requests = Requests
    /\ Atomic!Accepted(Atomic!NoSchema) = Accepted(NoSchema)
    /\ \A m, t : Atomic!CompileWith(m, t) = CompileWith(m, t)
  BY DEF Atomic!NewStringFormatRegistry, NewStringFormatRegistry, Atomic!Rejected, Rejected,
         Atomic!NoSchema, NoSchema, Atomic!Names, Names, Atomic!NoRequest, NoRequest,
         Atomic!Requests, Requests, Atomic!Accepted, Accepted, Atomic!CompileWith, CompileWith,
         Atomic!Resolve, Resolve, Atomic!NamesIn, NamesIn

LEMMA RefineInit == Init => Atomic!RInit
  BY SameData DEF Init, Atomic!RInit, Phase, Decision

\* The complete snapshot is the registry's map.
LEMMA SnapshotComplete ==
  ASSUME TypeInv, DataInv, NEW c \in Clients, Uncopied(c) = {}
  PROVE  snapshot[c] = formats
  <1>1. \A n \in Custom : snapshot[c][n] = formats[n]
    BY DEF DataInv, SnapshotInv, Uncopied
  <1>2. QED
    BY <1>1 DEF TypeInv, TypeOK, Maps

\* Entry by entry, a compilation reaches the answer of the whole text.
LEMMA CompiledWhole ==
  ASSUME TypeInv, DataInv, NEW c \in Clients, pc[c] = "compile",
         next[c] = Len(request[c].text) + 1
  PROVE  CompileWith(snapshot[c], request[c].text) = Accepted(entries[c])
  <1>1. request[c].text \in Texts
    BY RequestType DEF TypeInv, TypeOK, ArgumentsFit, NoRequest
  <1>2. NamesIn(request[c].text) = Done(c)
    BY <1>1, TextType DEF NamesIn, Done
  <1>3. \A n \in NamesIn(request[c].text) : Resolve(snapshot[c], n) # NoValidator
    BY <1>2 DEF DataInv, EntriesInv
  <1>4. entries[c] = [n \in Names |-> IF n \in NamesIn(request[c].text)
                                     THEN Resolve(snapshot[c], n) ELSE NoValidator]
    BY <1>2 DEF DataInv, EntriesInv, TypeInv, TypeOK, Schemas
  <1>5. QED
    BY <1>3, <1>4 DEF CompileWith

LEMMA CompiledNot ==
  ASSUME TypeInv, DataInv, NEW c \in Clients, pc[c] = "compile",
         next[c] <= Len(request[c].text),
         Resolve(snapshot[c], request[c].text[next[c]]) = NoValidator
  PROVE  CompileWith(snapshot[c], request[c].text) = Rejected
  <1>1. request[c].text \in Texts
    BY RequestType DEF TypeInv, TypeOK, ArgumentsFit, NoRequest
  <1>2. request[c].text[next[c]] \in NamesIn(request[c].text)
    BY <1>1, TextType DEF NamesIn, TypeInv, TypeOK
  <1>3. QED
    BY <1>2 DEF CompileWith

LEMMA RefineStep ==
  TypeInv /\ LockInv /\ DataInv /\ [Next]_vars => [Atomic!RNext]_(Atomic!rvars)
  <1> SUFFICES ASSUME TypeInv, LockInv, DataInv, [Next]_vars
               PROVE  Atomic!RNext \/ UNCHANGED <<formats, request, Phases, Decisions>>
    BY DEF Atomic!rvars, Phases, Decisions
  <1> USE DEF TypeInv, TypeOK, ArgumentsFit, Goto, lock, local, Labels
  \* A step that changes no phase and no decision.
  <1>2. ASSUME NEW c \in Clients, Phase(c)' = Phase(c), Decision(c)' = Decision(c),
               UNCHANGED <<formats, request>>,
               \A d \in Clients \ {c} : Phase(d)' = Phase(d) /\ Decision(d)' = Decision(d)
        PROVE  UNCHANGED <<formats, request, Phases, Decisions>>
    BY <1>2 DEF Phases, Decisions
  \* A step of c that leaves the other goroutines where they are.
  <1>3. ASSUME NEW d \in Clients, pc'[d] = pc[d], answer'[d] = answer[d],
               request'[d] = request[d], snapshot'[d] = snapshot[d]
        PROVE  Phase(d)' = Phase(d) /\ Decision(d)' = Decision(d)
    BY <1>3 DEF Phase, Decision
  <1>4. \A c \in Clients : Phases[c] = Phase(c) /\ Decisions[c] = Decision(c)
    BY DEF Phases, Decisions
  <1>5. ASSUME NEW c \in Clients, NEW r \in Requests, Call(c, r)
        PROVE  Atomic!RNext
    <2>1. Phase(c) = "idle" /\ Phase(c)' = "called" /\ Decision(c)' = Decision(c)
      BY <1>5 DEF Call, Phase, Decision
    <2>2. \A d \in Clients \ {c} : Phase(d)' = Phase(d) /\ Decision(d)' = Decision(d)
      BY <1>3, <1>5 DEF Call
    <2>3. Phases' = [Phases EXCEPT ![c] = "called"] /\ Decisions' = Decisions
      BY <2>1, <2>2 DEF Phases, Decisions
    <2>4. Atomic!Invoked(c, r)
      BY <1>4, <1>5, <2>1, <2>3 DEF Call, Atomic!Invoked, Phases, Decisions
    <2>5. QED
      BY <2>4, SameData DEF Atomic!RNext
  <1>6. ASSUME NEW c \in Clients, Announce(c)
        PROVE  UNCHANGED <<formats, request, Phases, Decisions>>
    <2>1. Phase(c)' = Phase(c) /\ Decision(c)' = Decision(c)
      BY <1>6 DEF Announce, Phase, Decision
    <2>2. QED
      BY <1>2, <1>3, <1>6, <2>1 DEF Announce
  <1>7. ASSUME NEW c \in Clients, CheckArguments(c)
        PROVE  Atomic!RNext \/ UNCHANGED <<formats, request, Phases, Decisions>>
    <2>1. CASE Return(c, Rejected) /\ ~(request[c].name \notin Builtin /\ request[c].validator # NoValidator)
      <3>1. Phase(c) = "called" /\ Phase(c)' = "idle" /\ Decision(c)' = Rejected
        BY <1>7, <2>1 DEF CheckArguments, Return, Forget, Phase, Decision
      <3>2. \A d \in Clients \ {c} : Phase(d)' = Phase(d) /\ Decision(d)' = Decision(d)
        BY <1>3, <2>1 DEF Return, Forget
      <3>3. ~Atomic!Usable(request[c])
        BY <2>1, FormatsAssumption DEF Atomic!Usable, FormatsAssumption
      <3>4. /\ Phases' = [Phases EXCEPT ![c] = "idle"]
            /\ Decisions' = [Decisions EXCEPT ![c] = Rejected]
        BY <3>1, <3>2 DEF Phases, Decisions
      <3>5. /\ Phases[c] = "called" /\ request[c].op = "register"
            /\ request' = [request EXCEPT ![c] = NoRequest] /\ UNCHANGED formats
        BY <1>4, <1>7, <2>1, <3>1 DEF CheckArguments, Return, Forget
      <3>6. Atomic!Refused(c)
        BY SameData, <3>3, <3>4, <3>5 DEF Atomic!Refused, Phases, Decisions
      <3>7. QED
        BY <3>6 DEF Atomic!RNext
    <2>2. CASE Goto(c, "lock") /\ UNCHANGED <<local, request, answer>>
      <3>1. Phase(c)' = Phase(c) /\ Decision(c)' = Decision(c)
        BY <1>7, <2>2 DEF CheckArguments, Phase, Decision
      <3>2. QED
        BY <1>2, <1>3, <1>7, <2>2, <3>1 DEF CheckArguments
    <2>3. QED
      BY <1>7, <2>1, <2>2 DEF CheckArguments
  <1>8. ASSUME NEW c \in Clients, Drain(c)
        PROVE  UNCHANGED <<formats, request, Phases, Decisions>>
    <2>1. Phase(c)' = Phase(c) /\ Decision(c)' = Decision(c)
      BY <1>8 DEF Drain, Phase, Decision
    <2>2. QED
      BY <1>2, <1>3, <1>8, <2>1 DEF Drain
  <1>9. ASSUME NEW c \in Clients, Store(c)
        PROVE  Atomic!RNext
    <2> DEFINE n == request[c].name
               fresh == formats[n] = NoValidator
               a == IF fresh THEN Accepted(NoSchema) ELSE Rejected
    <2>1. Phase(c) = "called" /\ Phase(c)' = "decided" /\ Decision(c)' = a
      BY <1>9 DEF Store, Phase, Decision
    <2>2. \A d \in Clients \ {c} : Phase(d)' = Phase(d) /\ Decision(d)' = Decision(d)
      BY <1>3, <1>9 DEF Store
    <2>3. Atomic!Usable(request[c])
      BY <1>9, FormatsAssumption DEF Store, Atomic!Usable, FormatsAssumption
    <2>4. /\ Phases' = [Phases EXCEPT ![c] = "decided"]
          /\ Decisions' = [Decisions EXCEPT ![c] = a]
      BY <2>1, <2>2 DEF Phases, Decisions
    <2>5. /\ Phases[c] = "called" /\ request[c].op = "register"
          /\ formats' = IF fresh THEN [formats EXCEPT ![n] = request[c].validator]
                        ELSE formats
          /\ UNCHANGED request
      BY <1>4, <1>9, <2>1 DEF Store
    <2>6. Atomic!Registered(c)
      BY SameData, <2>3, <2>4, <2>5 DEF Atomic!Registered, Phases, Decisions
    <2>7. QED
      BY <2>6 DEF Atomic!RNext
  <1>10. ASSUME NEW c \in Clients, Unlock(c)
         PROVE  Atomic!RNext
    <2>1. Phase(c) = "decided" /\ Phase(c)' = "idle" /\ Decision(c)' = Decision(c)
      BY <1>10 DEF Unlock, Forget, Phase, Decision
    <2>2. \A d \in Clients \ {c} : Phase(d)' = Phase(d) /\ Decision(d)' = Decision(d)
      BY <1>10 DEF Unlock, Forget, Phase, Decision
    <2>3. Phases' = [Phases EXCEPT ![c] = "idle"] /\ Decisions' = Decisions
      BY <2>1, <2>2 DEF Phases, Decisions
    <2>4. Atomic!Returned(c)
      BY SameData, <1>4, <1>10, <2>1, <2>3 DEF Unlock, Forget, Atomic!Returned, Phases, Decisions
    <2>5. QED
      BY <2>4 DEF Atomic!RNext
  <1>11. ASSUME NEW c \in Clients, Configure(c)
         PROVE  Atomic!RNext \/ UNCHANGED <<formats, request, Phases, Decisions>>
    <2>1. \A d \in Clients \ {c} : Phase(d)' = Phase(d) /\ Decision(d)' = Decision(d)
      BY <1>3, <1>11 DEF Configure
    <2>2. CASE request[c].registry
      <3>1. Phase(c)' = Phase(c) /\ Decision(c)' = Decision(c)
        BY <1>11, <2>2 DEF Configure, Phase, Decision
      <3>2. QED
        BY <1>2, <1>11, <2>1, <3>1 DEF Configure
    <2>3. CASE ~request[c].registry
      <3>1. snapshot[c] = NewStringFormatRegistry
        BY <1>11 DEF Configure, DataInv, SnapshotInv
      <3>2. /\ Phase(c) = "called" /\ Phase(c)' = "decided"
            /\ Decision(c)' = CompileWith(NewStringFormatRegistry, request[c].text)
        BY <1>11, <2>3, <3>1 DEF Configure, Phase, Decision
      <3>3. /\ Phases' = [Phases EXCEPT ![c] = "decided"]
            /\ Decisions' = [Decisions EXCEPT ![c] =
                  CompileWith(NewStringFormatRegistry, request[c].text)]
        BY <2>1, <3>2 DEF Phases, Decisions
      <3>4. Phases[c] = "called" /\ request[c].op = "compile" /\ UNCHANGED <<formats, request>>
        BY <1>4, <1>11, <3>2 DEF Configure
      <3>5. Atomic!Compiled(c)
        BY SameData, <2>3, <3>3, <3>4 DEF Atomic!Compiled, Phases, Decisions
      <3>6. QED
        BY <3>5 DEF Atomic!RNext
    <2>4. QED
      BY <2>2, <2>3
  <1>12. ASSUME NEW c \in Clients, RLock(c)
        PROVE  UNCHANGED <<formats, request, Phases, Decisions>>
    <2>1. Phase(c)' = Phase(c) /\ Decision(c)' = Decision(c)
      BY <1>12 DEF RLock, Phase, Decision
    <2>2. QED
      BY <1>2, <1>3, <1>12, <2>1 DEF RLock
  <1>13. ASSUME NEW c \in Clients, NEW n \in Custom, Copy(c, n)
        PROVE  UNCHANGED <<formats, request, Phases, Decisions>>
    <2>1. Phase(c)' = Phase(c) /\ Decision(c)' = Decision(c)
      BY <1>13 DEF Copy, Phase, Decision
    <2>2. QED
      BY <1>2, <1>3, <1>13, <2>1 DEF Copy
  <1>14. ASSUME NEW c \in Clients, RUnlock(c)
         PROVE  Atomic!RNext
    <2>1. snapshot[c] = formats
      BY <1>14, SnapshotComplete DEF RUnlock
    <2>2. /\ Phase(c) = "called" /\ Phase(c)' = "decided"
          /\ Decision(c)' = CompileWith(formats, request[c].text)
      BY <1>14, <2>1 DEF RUnlock, Phase, Decision
    <2>3. \A d \in Clients \ {c} : Phase(d)' = Phase(d) /\ Decision(d)' = Decision(d)
      BY <1>3, <1>14 DEF RUnlock
    <2>4. request[c].op = "compile" /\ request[c].registry
      BY <1>14 DEF RUnlock
    <2>5. /\ Phases' = [Phases EXCEPT ![c] = "decided"]
          /\ Decisions' = [Decisions EXCEPT ![c] = CompileWith(formats, request[c].text)]
      BY <2>2, <2>3 DEF Phases, Decisions
    <2>6. Phases[c] = "called" /\ UNCHANGED <<formats, request>>
      BY <1>4, <1>14, <2>2 DEF RUnlock
    <2>7. Atomic!Compiled(c)
      BY SameData, <2>4, <2>5, <2>6 DEF Atomic!Compiled, Phases, Decisions
    <2>8. QED
      BY <2>7 DEF Atomic!RNext
  \* A compilation returns what was decided.
  <1>15. ASSUME NEW c \in Clients, NEW a, pc[c] = "compile", Return(c, a),
                a = CompileWith(snapshot[c], request[c].text), UNCHANGED formats
         PROVE  Atomic!RNext
    <2>1. Phase(c) = "decided" /\ Phase(c)' = "idle" /\ Decision(c)' = Decision(c)
      BY <1>15 DEF Return, Forget, Phase, Decision
    <2>2. \A d \in Clients \ {c} : Phase(d)' = Phase(d) /\ Decision(d)' = Decision(d)
      BY <1>3, <1>15 DEF Return, Forget
    <2>3. Phases' = [Phases EXCEPT ![c] = "idle"] /\ Decisions' = Decisions
      BY <2>1, <2>2 DEF Phases, Decisions
    <2>4. Atomic!Returned(c)
      BY SameData, <1>4, <1>15, <2>1, <2>3 DEF Return, Forget, Atomic!Returned, Phases, Decisions
    <2>5. QED
      BY <2>4 DEF Atomic!RNext
  <1>16. ASSUME NEW c \in Clients, CompileEntry(c)
         PROVE  Atomic!RNext \/ UNCHANGED <<formats, request, Phases, Decisions>>
    <2> DEFINE def == Resolve(snapshot[c], request[c].text[next[c]])
    <2>1. pc[c] = "compile" /\ next[c] <= Len(request[c].text) /\ UNCHANGED formats
      BY <1>16 DEF CompileEntry
    <2>2. CASE def = NoValidator
      <3>1. Return(c, Rejected)
        BY <1>16, <2>2 DEF CompileEntry
      <3>2. QED
        BY <1>15, <2>1, <2>2, <3>1, CompiledNot
    <2>3. CASE def # NoValidator
      <3>1. UNCHANGED <<answer, pc, snapshot, request, formats>>
        BY <1>16, <2>3 DEF CompileEntry
      <3>2. QED
        BY <1>2, <1>3, <3>1
    <2>4. QED
      BY <2>2, <2>3
  <1>17. ASSUME NEW c \in Clients, ReturnSchema(c)
         PROVE  Atomic!RNext
    BY <1>15, <1>17, CompiledWhole DEF ReturnSchema
  <1>18. CASE UNCHANGED vars
    BY <1>18 DEF vars, Phases, Decisions, Phase, Decision
  <1>19. QED
    BY <1>5, <1>6, <1>7, <1>8, <1>9, <1>10, <1>11, <1>12, <1>13, <1>14, <1>16, <1>17, <1>18
       DEF Next, Step

\* Every call takes effect at one instant between its invocation and its
\* return: ImplementsAtomicRegistry.
THEOREM RegistryIsAtomic == Spec => ImplementsAtomicRegistry
  BY RefineInit, RefineStep, Invariance, PTL
     DEF Spec, ImplementsAtomicRegistry, Atomic!AtomicRegistry
=============================================================================
