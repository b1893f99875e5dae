-------------------------- MODULE ConnectionsProofs --------------------------
(***************************************************************************)
(* Proofs about Connections, for any number of organizations, events,        *)
(* connections and workers.                                                 *)
(***************************************************************************)
EXTENDS Connections, TLAPS

USE ConnectionsAssumption DEF None, Blank

\* A primary key that a worker or a binding holds, or that has a row, was used.
\* What a worker holds is what its stage needs.
KnownInv ==
    /\ \A c \in Connections : Exists(c) => entered[c] # Blank
    /\ \A w \in Workers :
          LET q == worker[w]
          IN  /\ q.at # "idle" => q.connection \in Connections /\ entered[q.connection] # Blank
              /\ q.at \in {"saving", "checking"} => q.posted \in Row
              /\ q.at = "binding" => /\ q.choice \in Binding
                                     /\ q.choice.connection = q.connection
              /\ q.at \in {"binding", "using"} => q.pair \in Events \X Capabilities
              /\ q.at = "using" => q.secret \in Secrets /\ q.kind \in Registered
    /\ \A pair \in Events \X Capabilities :
          binding[pair] # NoBinding =>
              /\ binding[pair] \in Binding
              /\ entered[binding[pair].connection] # Blank

LEMMA NoneOfThese ==
  /\ NoRow \notin Row /\ NoBinding \notin Binding
  /\ NoRow.organization = None /\ NoRow.kind = <<None, None>> /\ NoRow.secret = None
  /\ NoRow.active = FALSE /\ NoRow.verified = FALSE
  /\ Idle \in Worker /\ Idle.at = "idle"
  BY DEF NoRow, NoBinding, Row, Binding, Idle, Worker

LEMMA InitTyped == Init => TypeOK /\ KnownInv
  <1> SUFFICES ASSUME Init
               PROVE  TypeOK /\ KnownInv
    OBVIOUS
  <1>1. \A c \in Connections : FirstRow[c] \in Row \/ FirstRow[c] = NoRow
    OBVIOUS
  <1>2. \A c \in Connections : FirstRow[c] # NoRow => FirstRow[c].secret \in Secrets \cup {None}
    BY <1>1 DEF Row
  <1>3. entered \in [Connections -> Secrets \cup {None, Blank}]
    BY <1>2 DEF Init
  <1>4. TypeOK
    BY <1>3, NoneOfThese DEF Init, TypeOK
  <1>5. \A c \in Connections : Exists(c) => entered[c] # Blank
    BY <1>2 DEF Init, Exists
  <1>6. \A w \in Workers : worker[w].at = "idle"
    BY NoneOfThese DEF Init
  <1>7. \A pair \in Events \X Capabilities : binding[pair] = NoBinding
    BY DEF Init
  <1> QED
    BY <1>4, <1>5, <1>6, <1>7 DEF KnownInv

(***************************************************************************)
(* What a worker takes up.                                                  *)
(***************************************************************************)

LEMMA PostedIs ==
  ASSUME TypeOK, NEW c \in Connections, Exists(c), NEW o \in Organizations,
         NEW kind \in Registered, NEW active \in BOOLEAN, NEW secret \in Secrets \cup {Blank}
  PROVE  LET new == Posted(c, o, kind, active, secret)
         IN  /\ new \in Row
             /\ new.organization = o
             /\ new.kind = kind
             /\ new.secret = (IF secret = Blank THEN row[c].secret ELSE secret)
             /\ new.verified = row[c].verified
  <1>1. row[c] \in Row
    BY DEF TypeOK, Exists
  <1> QED
    BY <1>1 DEF Posted, Row

LEMMA SavingTyped ==
  ASSUME NEW q \in Worker, NEW c \in Connections, NEW p \in Row, NEW s \in Secrets \cup {Blank}
  PROVE  [q EXCEPT !.at = "saving", !.connection = c, !.entering = s, !.posted = p] \in Worker
  BY DEF Worker

LEMMA CheckingTyped ==
  ASSUME NEW q \in Worker, NEW c \in Connections, NEW p \in Row, NEW works \in BOOLEAN
  PROVE  [q EXCEPT !.at = "checking", !.connection = c, !.posted = p, !.works = works] \in Worker
  BY DEF Worker

LEMMA BindingTyped ==
  ASSUME NEW q \in Worker, NEW c \in Connections, NEW pair \in Events \X Capabilities,
         NEW choice \in Binding
  PROVE  [q EXCEPT !.at = "binding", !.connection = c, !.pair = pair, !.choice = choice] \in Worker
  BY DEF Worker

LEMMA UsingTyped ==
  ASSUME NEW q \in Worker, NEW c \in Connections, NEW pair \in Events \X Capabilities,
         NEW kind \in Registered, NEW t \in Secrets
  PROVE  [q EXCEPT !.at = "using", !.connection = c, !.pair = pair, !.kind = kind,
                   !.secret = t] \in Worker
  <1> DEFINE Pairs == (Events \cup {None}) \X (Capabilities \cup {None})
             SomeKinds == Registered \cup {<<None, None>>}
             SomeSecrets == Secrets \cup {None}
  <1>1. pair \in Pairs /\ kind \in SomeKinds /\ t \in SomeSecrets
    OBVIOUS
  <1>2. Worker = [at: {"idle", "saving", "checking", "binding", "using"},
                  connection: Connections \cup {None}, posted: Row \cup {NoRow},
                  entering: Secrets \cup {Blank}, pair: Pairs,
                  choice: Binding \cup {NoBinding}, secret: SomeSecrets,
                  kind: SomeKinds, works: BOOLEAN]
    BY DEF Worker
  <1> HIDE DEF Pairs, SomeKinds, SomeSecrets
  <1> QED
    BY <1>1, <1>2

LEMMA VerdictIs ==
  ASSUME NEW p \in Row, NEW loaded \in Row, NEW works \in BOOLEAN
  PROVE  LET new == Verdict(p, loaded, works)
         IN  /\ new \in Row
             /\ new.organization = p.organization /\ new.kind = p.kind
             /\ new.secret = p.secret
             /\ new.verified = (works \/ loaded.verified)
  BY DEF Verdict, Row

LEMMA StepIs ==
  ASSUME TypeOK, NEW w \in Workers, NEW q \in Worker, Step(w, q)
  PROVE  /\ worker' \in [Workers -> Worker]
         /\ worker'[w] = q
         /\ \A v \in Workers \ {w} : worker'[v] = worker[v]
  BY DEF TypeOK, Step

LEMMA UsableIs ==
  ASSUME TypeOK, KnownInv, NEW pair \in Events \X Capabilities, Usable(pair)
  PROVE  LET c == binding[pair].connection
         IN  /\ binding[pair] \in Binding
             /\ c \in Connections /\ Exists(c) /\ row[c] \in Row
             /\ row[c].secret \in Secrets /\ row[c].kind \in Registered
  <1>1. binding[pair] \in Binding /\ binding[pair] # NoBinding
    BY DEF Usable, KnownInv
  <1>2. binding[pair].connection \in Connections
    BY <1>1 DEF Binding
  <1>3. row[binding[pair].connection] # NoRow
    BY NoneOfThese DEF Usable
  <1>4. row[binding[pair].connection] \in Row
    BY <1>2, <1>3 DEF TypeOK
  <1> QED
    BY <1>1, <1>2, <1>3, <1>4 DEF Exists, Usable, HasCredentials, Row

(***************************************************************************)
(* Types, and what is held was used.                                        *)
(***************************************************************************)

\* A worker takes something up or lets it go; the tables stay.
Takes(w, q) ==
    /\ Step(w, q)
    /\ UNCHANGED <<tables, history>>
    /\ edits' \in 0 .. MaxEdits

WorkerKnown(q) ==
    /\ q.at # "idle" => q.connection \in Connections /\ entered[q.connection] # Blank
    /\ q.at \in {"saving", "checking"} => q.posted \in Row
    /\ q.at = "binding" => q.choice \in Binding /\ q.choice.connection = q.connection
    /\ q.at \in {"binding", "using"} => q.pair \in Events \X Capabilities
    /\ q.at = "using" => q.secret \in Secrets /\ q.kind \in Registered

WorkersKnown == \A w \in Workers : WorkerKnown(worker[w])

\* Workers that keep what they hold, or let it go, hold what was used.
LEMMA WorkersStayKnown ==
  ASSUME KnownInv,
         \A v \in Workers : worker'[v] = worker[v] \/ worker'[v].at = "idle",
         \A d \in Connections : entered[d] # Blank => entered'[d] # Blank
  PROVE  WorkersKnown'
  BY DEF KnownInv, WorkersKnown, WorkerKnown

LEMMA TakesTyped ==
  ASSUME TypeOK, KnownInv, NEW w \in Workers, NEW q \in Worker, WorkerKnown(q), Takes(w, q)
  PROVE  TypeOK' /\ KnownInv'
  <1>1. TypeOK'
    BY StepIs DEF Takes, TypeOK, tables, history
  <1>2. \A v \in Workers : WorkerKnown(worker'[v])
    BY StepIs DEF Takes, KnownInv, WorkerKnown
  <1> QED
    BY <1>1, <1>2 DEF Takes, tables, history, KnownInv, WorkerKnown, Exists

LEMMA EditTyped ==
  ASSUME TypeOK, Edit
  PROVE  edits' \in 0 .. MaxEdits
  BY DEF TypeOK, Edit

LEMMA TakesStay ==
  ASSUME TypeOK, KnownInv, NEW w \in Workers,
         \/ \E c \in Postable, o \in Organizations, kind \in Kinds, active \in BOOLEAN,
               secret \in Secrets \cup {Blank} : PostConnection(w, c, o, kind, active, secret)
         \/ \E c \in Postable, works \in BOOLEAN : Check(w, c, works)
         \/ \E pair \in Bindable, choice \in Binding : PostBinding(w, pair, choice)
         \/ \E pair \in Bindable : ResolveAdapter(w, pair)
         \/ Release(w)
  PROVE  TypeOK' /\ KnownInv'
  <1>1. ASSUME NEW c \in Postable, NEW o \in Organizations, NEW kind \in Kinds,
               NEW active \in BOOLEAN, NEW secret \in Secrets \cup {Blank},
               PostConnection(w, c, o, kind, active, secret)
        PROVE  TypeOK' /\ KnownInv'
    <2> DEFINE q == [Idle EXCEPT !.at = "saving", !.connection = c, !.entering = secret,
                                 !.posted = Posted(c, o, kind, active, secret)]
    <2>1. Exists(c) /\ kind \in Registered /\ c \in Connections
      BY <1>1 DEF PostConnection, KindValid
    <2>2. Posted(c, o, kind, active, secret) \in Row
      BY <2>1, PostedIs
    <2>3. q \in Worker
      BY <2>1, <2>2, NoneOfThese, SavingTyped
    <2>4. q.at = "saving" /\ q.connection = c
          /\ q.posted = Posted(c, o, kind, active, secret)
      BY DEF Idle
    <2>5. WorkerKnown(q)
      BY <2>1, <2>2, <2>4 DEF WorkerKnown, KnownInv
    <2> HIDE DEF q
    <2> QED
      BY <1>1, <2>3, <2>5, EditTyped, TakesTyped DEF PostConnection, Takes, q
  <1>2. ASSUME NEW c \in Postable, NEW works \in BOOLEAN, Check(w, c, works)
        PROVE  TypeOK' /\ KnownInv'
    <2> DEFINE q == [Idle EXCEPT !.at = "checking", !.connection = c, !.posted = row[c],
                                 !.works = works]
    <2>1. Exists(c) /\ c \in Connections /\ row[c] \in Row
      BY <1>2 DEF Check, TypeOK, Exists
    <2>2. q \in Worker
      BY <2>1, NoneOfThese, CheckingTyped
    <2>3. q.at = "checking" /\ q.connection = c /\ q.posted = row[c]
      BY DEF Idle
    <2>4. WorkerKnown(q)
      BY <2>1, <2>3 DEF WorkerKnown, KnownInv
    <2>5. edits' \in 0 .. MaxEdits
      BY <1>2 DEF Check, TypeOK
    <2> HIDE DEF q
    <2> QED
      BY <1>2, <2>2, <2>4, <2>5, TakesTyped DEF Check, Takes, q
  <1>3. ASSUME NEW pair \in Bindable, NEW choice \in Binding, PostBinding(w, pair, choice)
        PROVE  TypeOK' /\ KnownInv'
    <2> DEFINE q == [Idle EXCEPT !.at = "binding", !.connection = choice.connection,
                                 !.pair = pair, !.choice = choice]
    <2>1. /\ choice.connection \in Connections /\ Exists(choice.connection)
          /\ pair \in Events \X Capabilities
      BY <1>3 DEF PostBinding, Binding
    <2>2. q \in Worker
      BY <2>1, NoneOfThese, BindingTyped
    <2>3. /\ q.at = "binding" /\ q.connection = choice.connection /\ q.choice = choice
          /\ q.pair = pair
      BY DEF Idle
    <2>4. WorkerKnown(q)
      BY <2>1, <2>3 DEF WorkerKnown, KnownInv
    <2> HIDE DEF q
    <2> QED
      BY <1>3, <2>2, <2>4, EditTyped, TakesTyped DEF PostBinding, Takes, q
  <1>4. ASSUME NEW pair \in Bindable, ResolveAdapter(w, pair)
        PROVE  TypeOK' /\ KnownInv'
    <2> DEFINE c == binding[pair].connection
               q == [Idle EXCEPT !.at = "using", !.connection = c, !.pair = pair,
                                 !.kind = row[c].kind, !.secret = row[c].secret]
    <2>1. /\ c \in Connections /\ Exists(c) /\ row[c].secret \in Secrets
          /\ row[c].kind \in Registered /\ pair \in Events \X Capabilities
      BY <1>4, UsableIs DEF ResolveAdapter
    <2>2. q \in Worker
      BY <2>1, NoneOfThese, UsingTyped
    <2>3. /\ q.at = "using" /\ q.connection = c /\ q.pair = pair
          /\ q.kind = row[c].kind /\ q.secret = row[c].secret
      BY DEF Idle
    <2>4. WorkerKnown(q)
      BY <2>1, <2>3 DEF WorkerKnown, KnownInv
    <2>5. edits' \in 0 .. MaxEdits
      BY <1>4 DEF ResolveAdapter, TypeOK
    <2>6. Step(w, q)
      BY <1>4 DEF ResolveAdapter
    <2> HIDE DEF q
    <2> QED
      BY <1>4, <2>2, <2>4, <2>5, <2>6, TakesTyped DEF ResolveAdapter, Takes
  <1>5. CASE Release(w)
    <2>1. WorkerKnown(Idle)
      BY NoneOfThese DEF WorkerKnown
    <2>2. edits' \in 0 .. MaxEdits
      BY <1>5 DEF Release, TypeOK
    <2> QED
      BY <1>5, <2>1, <2>2, NoneOfThese, TakesTyped DEF Release, Takes
  <1> QED
    BY <1>1, <1>2, <1>3, <1>4, <1>5

LEMMA TypeStays ==
  ASSUME TypeOK, KnownInv, [Next]_vars
  PROVE  TypeOK' /\ KnownInv'
  <1>1. ASSUME NEW c \in Connections, NEW o \in Organizations, NEW kind \in Kinds,
               NEW secret \in Secrets \cup {Blank}, AddConnection(c, o, kind, secret)
        PROVE  TypeOK' /\ KnownInv'
    <2> DEFINE stored == IF secret = Blank THEN None ELSE secret
               new == [organization |-> o, kind |-> kind, secret |-> stored, active |-> TRUE,
                       verified |-> FALSE]
    <2>1. new \in Row /\ stored \in Secrets \cup {None}
      BY <1>1 DEF Row, AddConnection, KindValid
    <2>2. row' = [row EXCEPT ![c] = new] /\ entered' = [entered EXCEPT ![c] = stored]
      BY <1>1 DEF AddConnection
    <2>3. UNCHANGED <<organization, binding, worker, checked, moved, recast, overlapped, replaced>>
      BY <1>1 DEF AddConnection
    <2>4. edits' \in 0 .. MaxEdits
      BY <1>1, EditTyped DEF AddConnection
    <2> HIDE DEF new, stored
    <2>5. TypeOK'
      BY <2>1, <2>2, <2>3, <2>4 DEF TypeOK
    <2>6. \A d \in Connections : entered[d] # Blank => entered'[d] # Blank
      BY <2>1, <2>2 DEF TypeOK
    <2>7. \A d \in Connections : row'[d] # NoRow => entered'[d] # Blank
      BY <2>1, <2>2, <2>6 DEF TypeOK, KnownInv, Exists
    <2>8. \A b \in Binding : b.connection \in Connections
      BY DEF Binding
    <2> QED
      BY <2>3, <2>5, <2>6, <2>7, <2>8 DEF KnownInv, Exists
  <1>2. ASSUME NEW w \in Workers, SaveConnection(w)
        PROVE  TypeOK' /\ KnownInv'
    <2> DEFINE c == worker[w].connection
               new == worker[w].posted
    <2>1. /\ new \in Row /\ c \in Connections /\ entered[c] # Blank
          /\ worker[w].entering \in Secrets \cup {Blank}
      BY <1>2 DEF SaveConnection, KnownInv, TypeOK, Worker
    <2>2. /\ row' = [row EXCEPT ![c] = new]
          /\ entered' = [entered EXCEPT ![c] =
                IF worker[w].entering = Blank THEN @ ELSE worker[w].entering]
          /\ moved' \in {moved, moved \cup {c}}
          /\ recast' \in {recast, recast \cup {c}}
          /\ replaced' \in {replaced, replaced \cup {c}}
          /\ overlapped' = overlapped \cup Overlap(w, c)
          /\ UNCHANGED <<organization, binding, edits, checked>>
          /\ Step(w, Idle)
      BY <1>2 DEF SaveConnection
    <2>3. Overlap(w, c) \subseteq {c}
      BY DEF Overlap
    <2>4. worker' \in [Workers -> Worker]
      BY <2>2, NoneOfThese, StepIs
    <2> HIDE DEF new, c
    <2>5. TypeOK'
      BY <2>1, <2>2, <2>3, <2>4 DEF TypeOK
    <2>6. \A d \in Connections : entered[d] # Blank => entered'[d] # Blank
      BY <2>1, <2>2 DEF TypeOK
    <2>7. \A d \in Connections : row'[d] # NoRow => entered'[d] # Blank
      BY <2>1, <2>2, <2>6 DEF TypeOK, KnownInv, Exists
    <2>8. \A b \in Binding : b.connection \in Connections
      BY DEF Binding
    <2>9. \A v \in Workers : worker'[v] = worker[v] \/ worker'[v].at = "idle"
      BY <2>2, NoneOfThese, StepIs
    <2>10. WorkersKnown'
      BY <2>6, <2>9, WorkersStayKnown
    <2> QED
      BY <2>2, <2>5, <2>6, <2>7, <2>8, <2>10 DEF KnownInv, WorkersKnown, WorkerKnown, Exists
  <1>3. ASSUME NEW c \in Connections, DeleteConnection(c)
        PROVE  TypeOK' /\ KnownInv'
    <2>1. Overlap(None, c) \subseteq {c}
      BY DEF Overlap
    <2>2. edits' \in 0 .. MaxEdits
      BY <1>3, EditTyped DEF DeleteConnection
    <2>3. TypeOK'
      BY <1>3, <2>1, <2>2 DEF TypeOK, DeleteConnection
    <2> QED
      BY <1>3, <2>3 DEF KnownInv, TypeOK, DeleteConnection, Exists
  <1>4. ASSUME NEW w \in Workers, MarkVerified(w)
        PROVE  TypeOK' /\ KnownInv'
    <2> DEFINE c == worker[w].connection
               loaded == worker[w].posted
               works == worker[w].works
    <2>1. c \in Connections /\ loaded \in Row /\ works \in BOOLEAN
      BY <1>4 DEF MarkVerified, KnownInv, TypeOK, Worker
    <2>2. loaded.secret \in Secrets \cup {None}
      BY <2>1 DEF Row
    <2>3. /\ row' = IF Exists(c) THEN [row EXCEPT ![c] = Verdict(row[c], loaded, works)] ELSE row
          /\ checked' \in {checked, [checked EXCEPT ![c] = @ \cup {loaded.secret}]}
          /\ replaced' \in {replaced, replaced \ {c}}
          /\ UNCHANGED <<organization, binding, edits, entered, moved, recast, overlapped>>
          /\ Step(w, Idle)
      BY <1>4 DEF MarkVerified
    <2>4. Exists(c) => row[c] \in Row /\ Verdict(row[c], loaded, works) \in Row
      BY <2>1, VerdictIs DEF TypeOK, Exists
    <2>5. worker' \in [Workers -> Worker]
      BY <2>3, NoneOfThese, StepIs
    <2> HIDE DEF c, loaded, works
    <2>6. row' \in [Connections -> Row \cup {NoRow}]
          /\ \A d \in Connections : row'[d] # NoRow => row[d] # NoRow
      BY <2>1, <2>3, <2>4 DEF TypeOK, Exists
    <2>7. TypeOK'
      BY <2>1, <2>2, <2>3, <2>5, <2>6 DEF TypeOK
    <2>8. \A v \in Workers : worker'[v] = worker[v] \/ worker'[v].at = "idle"
      BY <2>3, NoneOfThese, StepIs
    <2>9. WorkersKnown'
      BY <2>3, <2>8, WorkersStayKnown
    <2> QED
      BY <2>3, <2>6, <2>7, <2>9 DEF KnownInv, WorkersKnown, WorkerKnown, Exists
  <1>5. ASSUME NEW w \in Workers, SaveBinding(w)
        PROVE  TypeOK' /\ KnownInv'
    <2> DEFINE q == worker[w]
    <2>1. /\ q.choice \in Binding /\ q.pair \in Events \X Capabilities
          /\ entered[q.choice.connection] # Blank
      BY <1>5 DEF SaveBinding, KnownInv
    <2>2. /\ binding' \in {binding, [binding EXCEPT ![q.pair] = q.choice]}
          /\ UNCHANGED <<organization, row, edits, history>>
          /\ Step(w, Idle)
      BY <1>5 DEF SaveBinding
    <2>3. worker' \in [Workers -> Worker]
      BY <2>2, NoneOfThese, StepIs
    <2>4. \A v \in Workers : worker'[v] = worker[v] \/ worker'[v].at = "idle"
      BY <2>2, NoneOfThese, StepIs
    <2> HIDE DEF q
    <2>5. TypeOK'
      BY <2>1, <2>2, <2>3 DEF TypeOK, history
    <2>6. WorkersKnown'
      BY <2>2, <2>4, WorkersStayKnown DEF history
    <2>7. \A pair \in Events \X Capabilities :
            binding'[pair] # NoBinding => /\ binding'[pair] \in Binding
                                          /\ entered[binding'[pair].connection] # Blank
      BY <2>1, <2>2 DEF TypeOK, KnownInv
    <2> QED
      BY <2>2, <2>5, <2>6, <2>7 DEF KnownInv, WorkersKnown, WorkerKnown, Exists, history
  <1>6. ASSUME NEW pair \in Bindable, DeleteBinding(pair)
        PROVE  TypeOK' /\ KnownInv'
    <2>1. edits' \in 0 .. MaxEdits
      BY <1>6, EditTyped DEF DeleteBinding
    <2>2. TypeOK'
      BY <1>6, <2>1 DEF DeleteBinding, TypeOK, history
    <2>3. \A p \in Events \X Capabilities :
            binding'[p] # NoBinding => binding'[p] = binding[p]
      BY <1>6 DEF DeleteBinding, TypeOK
    <2> QED
      BY <1>6, <2>2, <2>3 DEF DeleteBinding, KnownInv, Exists, history
  <1>7. ASSUME NEW e \in Events, NEW o \in Organizations, MoveEvent(e, o)
        PROVE  TypeOK' /\ KnownInv'
    <2>1. edits' \in 0 .. MaxEdits
      BY <1>7, EditTyped DEF MoveEvent
    <2> QED
      BY <1>7, <2>1 DEF MoveEvent, TypeOK, KnownInv, Exists
  <1>8. CASE UNCHANGED vars
    BY <1>8 DEF vars, tables, history, TypeOK, KnownInv, Exists
  <1> QED
    BY <1>1, <1>2, <1>3, <1>4, <1>5, <1>6, <1>7, <1>8, TakesStay DEF Next

\* The tables, the workers with their copies and the history keep their types: no
\* row names a provider without an adapter.
THEOREM TypeCorrect == Spec => []TypeOK
  BY InitTyped, TypeStays, PTL DEF Spec

LEMMA Known == Spec => [](TypeOK /\ KnownInv)
  BY InitTyped, TypeStays, PTL DEF Spec

(***************************************************************************)
(* What a step does to a worker, and to a connection that was used.         *)
(***************************************************************************)

\* What a worker holds when it takes something up.
TookUp(q) ==
    \/ /\ q.at = "saving"
       /\ \E c \in Connections, o \in Organizations, kind \in Registered, active \in BOOLEAN,
             secret \in Secrets \cup {Blank} :
            /\ Exists(c)
            /\ secret # Blank => Owner[secret] = o
            /\ q.connection = c
            /\ q.entering = secret
            /\ q.posted = Posted(c, o, kind, active, secret)
    \/ /\ q.at = "checking"
       /\ q.connection \in Connections
       /\ Exists(q.connection)
       /\ q.posted = row[q.connection]
       /\ q.works => HasCredentials(q.connection)
    \/ /\ q.at = "binding"
       /\ BindingValid(q.pair, q.choice)
    \/ /\ q.at = "using"
       /\ Usable(q.pair)
       /\ q.connection = binding[q.pair].connection
       /\ q.kind = row[q.connection].kind
       /\ q.secret = row[q.connection].secret

LEMMA WorkersMove ==
  ASSUME TypeOK, KnownInv, [Next]_vars, NEW v \in Workers
  PROVE  \/ worker'[v] = worker[v]
         \/ worker'[v].at = "idle"
         \/ \E q : worker'[v] = q /\ TookUp(q) /\ UNCHANGED <<tables, history>>
  <1> DEFINE Goal == \/ worker'[v] = worker[v]
                     \/ worker'[v].at = "idle"
                     \/ \E q : worker'[v] = q /\ TookUp(q) /\ UNCHANGED <<tables, history>>
  <1>1. ASSUME NEW w \in Workers, NEW q, Step(w, q), TookUp(q), UNCHANGED <<tables, history>>
        PROVE  Goal
    <2>1. worker'[v] = q \/ worker'[v] = worker[v]
      BY <1>1 DEF Step, TypeOK
    <2> QED
      BY <1>1, <2>1
  <1>2. ASSUME NEW w \in Workers, Step(w, Idle)
        PROVE  Goal
    BY <1>2, NoneOfThese, StepIs
  <1>3. ASSUME NEW w \in Workers, NEW c \in Postable, NEW o \in Organizations, NEW kind \in Kinds,
               NEW active \in BOOLEAN, NEW secret \in Secrets \cup {Blank},
               PostConnection(w, c, o, kind, active, secret)
        PROVE  Goal
    <2> DEFINE q == [Idle EXCEPT !.at = "saving", !.connection = c, !.entering = secret,
                                 !.posted = Posted(c, o, kind, active, secret)]
    <2>1. /\ q.at = "saving" /\ q.connection = c /\ q.entering = secret
          /\ q.posted = Posted(c, o, kind, active, secret)
      BY DEF Idle
    <2> HIDE DEF q
    <2>2. TookUp(q)
      BY <1>3, <2>1 DEF PostConnection, KindValid, TookUp
    <2> HIDE DEF Goal
    <2> QED
      BY <1>1, <1>3, <2>2 DEF PostConnection, q
  <1>4. ASSUME NEW w \in Workers, NEW c \in Postable, NEW works \in BOOLEAN, Check(w, c, works)
        PROVE  Goal
    <2> DEFINE q == [Idle EXCEPT !.at = "checking", !.connection = c, !.posted = row[c],
                                 !.works = works]
    <2>1. q.at = "checking" /\ q.connection = c /\ q.posted = row[c] /\ q.works = works
      BY DEF Idle
    <2> HIDE DEF q
    <2>2. TookUp(q)
      BY <1>4, <2>1 DEF Check, TookUp
    <2> HIDE DEF Goal
    <2> QED
      BY <1>1, <1>4, <2>2 DEF Check, q
  <1>5. ASSUME NEW w \in Workers, NEW pair \in Bindable, NEW choice \in Binding,
               PostBinding(w, pair, choice)
        PROVE  Goal
    <2> DEFINE q == [Idle EXCEPT !.at = "binding", !.connection = choice.connection,
                                 !.pair = pair, !.choice = choice]
    <2>1. q.at = "binding" /\ q.pair = pair /\ q.choice = choice
      BY DEF Idle
    <2> HIDE DEF q
    <2>2. TookUp(q)
      BY <1>5, <2>1 DEF PostBinding, TookUp
    <2> HIDE DEF Goal
    <2> QED
      BY <1>1, <1>5, <2>2 DEF PostBinding, q
  <1>6. ASSUME NEW w \in Workers, NEW pair \in Bindable, ResolveAdapter(w, pair)
        PROVE  Goal
    <2> DEFINE c == binding[pair].connection
               q == [Idle EXCEPT !.at = "using", !.connection = c, !.pair = pair,
                                 !.kind = row[c].kind, !.secret = row[c].secret]
    <2>1. /\ q.at = "using" /\ q.connection = c /\ q.pair = pair
          /\ q.kind = row[c].kind /\ q.secret = row[c].secret
      BY DEF Idle
    <2>2. Step(w, q) /\ Usable(pair) /\ UNCHANGED <<tables, history>>
      BY <1>6 DEF ResolveAdapter
    <2> HIDE DEF q
    <2>3. TookUp(q)
      BY <2>1, <2>2 DEF TookUp
    <2> HIDE DEF Goal
    <2> QED
      BY <1>1, <2>2, <2>3
  <1>7. ASSUME worker' = worker
        PROVE  Goal
    BY <1>7
  <1> HIDE DEF Goal
  <1>8. ASSUME NEW w \in Workers,
               SaveConnection(w) \/ MarkVerified(w) \/ SaveBinding(w) \/ Release(w)
        PROVE  Goal
    BY <1>2, <1>8 DEF SaveConnection, MarkVerified, SaveBinding, Release
  <1>9. ASSUME NEW c \in Connections, NEW o \in Organizations, NEW kind \in Kinds,
               NEW secret \in Secrets \cup {Blank}, AddConnection(c, o, kind, secret)
        PROVE  Goal
    BY <1>7, <1>9 DEF AddConnection
  <1>10. ASSUME NEW c \in Postable, DeleteConnection(c)
         PROVE  Goal
    BY <1>7, <1>10 DEF DeleteConnection
  <1>11. ASSUME NEW pair \in Bindable, DeleteBinding(pair)
         PROVE  Goal
    BY <1>7, <1>11 DEF DeleteBinding
  <1>12. ASSUME NEW e \in Events, NEW o \in Organizations, MoveEvent(e, o)
         PROVE  Goal
    BY <1>7, <1>12 DEF MoveEvent
  <1>13. ASSUME UNCHANGED vars
         PROVE  Goal
    BY <1>7, <1>13 DEF vars
  <1>14. Goal
    BY <1>3, <1>4, <1>5, <1>6, <1>8, <1>9, <1>10, <1>11, <1>12, <1>13 DEF Next
  <1> QED
    BY <1>14 DEF Goal

\* What a step may do to the row of a connection that was used, and to an event.
RowMoves(c) ==
    /\ Exists(c)' => \/ c \in moved'
                     \/ Exists(c) /\ row'[c].organization = row[c].organization
    /\ Exists(c)' => \/ c \in recast'
                     \/ Exists(c) /\ row'[c].kind = row[c].kind

LEMMA ChangesAreNoted ==
  ASSUME TypeOK, KnownInv, [Next]_vars
  PROVE  /\ \A c \in Connections : entered[c] # Blank => RowMoves(c)
         /\ \A e \in Events : e \in moved' \/ organization'[e] = organization[e]
         /\ moved \subseteq moved' /\ recast \subseteq recast'
  <1> DEFINE Goal == /\ \A c \in Connections : entered[c] # Blank => RowMoves(c)
                     /\ \A e \in Events : e \in moved' \/ organization'[e] = organization[e]
                     /\ moved \subseteq moved' /\ recast \subseteq recast'
  <1>1. ASSUME NEW c \in Connections, NEW o \in Organizations, NEW kind \in Kinds,
               NEW secret \in Secrets \cup {Blank}, AddConnection(c, o, kind, secret)
        PROVE  Goal
    BY <1>1 DEF AddConnection, TypeOK, RowMoves, Exists
  <1>2. ASSUME NEW w \in Workers, SaveConnection(w)
        PROVE  Goal
    <2> DEFINE c == worker[w].connection
               new == worker[w].posted
    <2>1. c \in Connections /\ new \in Row
      BY <1>2 DEF SaveConnection, KnownInv
    <2>2. /\ row' = [row EXCEPT ![c] = new]
          /\ moved' = IF row[c].organization # new.organization THEN moved \cup {c} ELSE moved
          /\ recast' = IF row[c].kind # new.kind THEN recast \cup {c} ELSE recast
          /\ organization' = organization
      BY <1>2 DEF SaveConnection
    <2>3. /\ new.organization # NoRow.organization
          /\ new.kind # NoRow.kind
      BY <2>1, NoneOfThese DEF Row, Capabilities
    <2> HIDE DEF c, new
    <2> QED
      BY <2>1, <2>2, <2>3 DEF TypeOK, RowMoves, Exists
  <1>3. ASSUME NEW c \in Connections, DeleteConnection(c)
        PROVE  Goal
    BY <1>3 DEF DeleteConnection, TypeOK, RowMoves, Exists
  <1>4. ASSUME NEW w \in Workers, MarkVerified(w)
        PROVE  Goal
    <2> DEFINE c == worker[w].connection
               loaded == worker[w].posted
               works == worker[w].works
    <2>1. c \in Connections /\ loaded \in Row /\ works \in BOOLEAN
      BY <1>4 DEF MarkVerified, KnownInv, TypeOK, Worker
    <2>2. /\ row' = IF Exists(c) THEN [row EXCEPT ![c] = Verdict(row[c], loaded, works)] ELSE row
          /\ UNCHANGED <<organization, moved, recast>>
      BY <1>4 DEF MarkVerified
    <2> HIDE DEF c, loaded, works
    <2>3. Exists(c) => /\ Verdict(row[c], loaded, works).organization = row[c].organization
                       /\ Verdict(row[c], loaded, works).kind = row[c].kind
      <3>1. Exists(c) => row[c] \in Row
        BY <2>1 DEF TypeOK, Exists
      <3> QED
        BY <2>1, <3>1 DEF Verdict, Row
    <2> QED
      BY <2>1, <2>2, <2>3 DEF TypeOK, RowMoves, Exists
  <1>5. ASSUME NEW e \in Events, NEW o \in Organizations, MoveEvent(e, o)
        PROVE  Goal
    BY <1>5 DEF MoveEvent, TypeOK, RowMoves, Exists
  <1>6. ASSUME UNCHANGED <<organization, row, moved, recast>>
        PROVE  Goal
    BY <1>6 DEF RowMoves, Exists
  <1> HIDE DEF Goal
  <1>7. ASSUME NEW w \in Workers,
               \/ \E c \in Postable, o \in Organizations, kind \in Kinds, active \in BOOLEAN,
                     secret \in Secrets \cup {Blank} : PostConnection(w, c, o, kind, active, secret)
               \/ \E c \in Postable, works \in BOOLEAN : Check(w, c, works)
               \/ \E pair \in Bindable, choice \in Binding : PostBinding(w, pair, choice)
               \/ SaveBinding(w)
               \/ \E pair \in Bindable : ResolveAdapter(w, pair)
               \/ Release(w)
        PROVE  Goal
    BY <1>6, <1>7 DEF tables, history, PostConnection, Check, PostBinding, SaveBinding, ResolveAdapter,
                Release
  <1>8. ASSUME NEW pair \in Bindable, DeleteBinding(pair)
        PROVE  Goal
    BY <1>6, <1>8 DEF DeleteBinding, history
  <1>9. ASSUME UNCHANGED vars
        PROVE  Goal
    BY <1>6, <1>9 DEF vars, tables, history
  <1>10. Goal
    BY <1>1, <1>2, <1>3, <1>4, <1>5, <1>7, <1>8, <1>9 DEF Next
  <1> QED
    BY <1>10 DEF Goal

\* What writes to the tables, besides MoveEvent.
RowWriter ==
    \/ \E c \in Connections, o \in Organizations, kind \in Kinds,
          secret \in Secrets \cup {Blank} : AddConnection(c, o, kind, secret)
    \/ \E w \in Workers : SaveConnection(w) \/ MarkVerified(w)
    \/ \E c \in Connections : DeleteConnection(c)

LEMMA RowChanges ==
  ASSUME [Next]_vars
  PROVE  RowWriter \/ UNCHANGED <<row, entered, checked, overlapped, replaced>>
  <1> DEFINE Same == UNCHANGED <<row, entered, checked, overlapped, replaced>>
  <1>1. ASSUME NEW w \in Workers,
               \/ \E c \in Postable, o \in Organizations, kind \in Kinds, active \in BOOLEAN,
                     secret \in Secrets \cup {Blank} : PostConnection(w, c, o, kind, active, secret)
               \/ \E c \in Postable, works \in BOOLEAN : Check(w, c, works)
               \/ \E pair \in Bindable, choice \in Binding : PostBinding(w, pair, choice)
               \/ SaveBinding(w)
               \/ \E pair \in Bindable : ResolveAdapter(w, pair)
               \/ Release(w)
        PROVE  Same
    BY <1>1 DEF tables, history, PostConnection, Check, PostBinding, SaveBinding, ResolveAdapter,
                Release
  <1>2. ASSUME NEW pair \in Bindable, DeleteBinding(pair)
        PROVE  Same
    BY <1>2 DEF DeleteBinding, history
  <1>3. ASSUME NEW e \in Events, NEW o \in Organizations, MoveEvent(e, o)
        PROVE  Same
    BY <1>3 DEF MoveEvent
  <1>4. ASSUME UNCHANGED vars
        PROVE  Same
    BY <1>4 DEF vars, tables, history
  <1> HIDE DEF Same
  <1>5. RowWriter \/ Same
    BY <1>1, <1>2, <1>3, <1>4 DEF Next, RowWriter
  <1> QED
    BY <1>5 DEF Same

LEMMA BindingChanges ==
  ASSUME [Next]_vars
  PROVE  \/ binding' = binding
         \/ \E w \in Workers : SaveBinding(w)
         \/ \E pair \in Bindable : DeleteBinding(pair)
  <1>1. ASSUME NEW w \in Workers,
               \/ \E c \in Postable, o \in Organizations, kind \in Kinds, active \in BOOLEAN,
                     secret \in Secrets \cup {Blank} : PostConnection(w, c, o, kind, active, secret)
               \/ \E c \in Postable, works \in BOOLEAN : Check(w, c, works)
               \/ \E pair \in Bindable, choice \in Binding : PostBinding(w, pair, choice)
               \/ SaveConnection(w) \/ MarkVerified(w)
               \/ \E pair \in Bindable : ResolveAdapter(w, pair)
               \/ Release(w)
        PROVE  binding' = binding
    BY <1>1 DEF tables, PostConnection, Check, PostBinding, SaveConnection, MarkVerified,
                ResolveAdapter, Release
  <1>2. ASSUME NEW c \in Connections, NEW o \in Organizations, NEW kind \in Kinds,
               NEW secret \in Secrets \cup {Blank}, AddConnection(c, o, kind, secret)
        PROVE  binding' = binding
    BY <1>2 DEF AddConnection
  <1>3. ASSUME NEW c \in Postable, DeleteConnection(c)
        PROVE  binding' = binding
    BY <1>3 DEF DeleteConnection
  <1>4. ASSUME NEW e \in Events, NEW o \in Organizations, MoveEvent(e, o)
        PROVE  binding' = binding
    BY <1>4 DEF MoveEvent
  <1>5. ASSUME UNCHANGED vars
        PROVE  binding' = binding
    BY <1>5 DEF vars, tables
  <1> QED
    BY <1>1, <1>2, <1>3, <1>4, <1>5 DEF Next

(***************************************************************************)
(* Whose credentials an event uses, and with which capability.              *)
(***************************************************************************)

\* c, as it is now, may be bound to the event and the capability of pair.
Fits(c, pair) ==
    Exists(c) => /\ \/ moved \cap {pair[1], c} # {}
                    \/ row[c].organization = organization[pair[1]]
                 /\ c \in recast \/ row[c].kind[1] = pair[2]

\* Its organization's own secret is what a row holds, and what a form puts there.
OwnSecrets ==
    \A c \in Connections : row[c].secret # None =>
        c \in moved \/ Owner[row[c].secret] = row[c].organization

OwnCopies ==
    \A w \in Workers :
        LET q == worker[w]
        IN  q.at = "saving" /\ q.posted.secret # None =>
                \/ q.connection \in moved
                \/ Owner[q.posted.secret] = q.posted.organization
                \/ row[q.connection].organization # q.posted.organization

FittingWorker(q) ==
    /\ q.at = "binding" => Fits(q.connection, q.pair)
    /\ q.at = "using" => /\ \/ Owner[q.secret] = organization[q.pair[1]]
                            \/ moved \cap {q.pair[1], q.connection} # {}
                         /\ q.kind[1] = q.pair[2] \/ q.connection \in recast

Fitting ==
    /\ \A w \in Workers : FittingWorker(worker[w])
    /\ \A pair \in Events \X Capabilities :
          binding[pair] # NoBinding => Fits(binding[pair].connection, pair)

LEMMA FitsStays ==
  ASSUME TypeOK, KnownInv, [Next]_vars, NEW c \in Connections,
         NEW pair \in Events \X Capabilities, entered[c] # Blank, Fits(c, pair)
  PROVE  Fits(c, pair)'
  <1>1. RowMoves(c)
    BY ChangesAreNoted
  <1>2. pair[1] \in Events
    OBVIOUS
  <1>3. pair[1] \in moved' \/ organization'[pair[1]] = organization[pair[1]]
    BY <1>2, ChangesAreNoted
  <1>4. moved \subseteq moved' /\ recast \subseteq recast'
    BY ChangesAreNoted
  <1> QED
    BY <1>1, <1>3, <1>4 DEF Fits, RowMoves

LEMMA OwnSecretsStay ==
  ASSUME TypeOK, KnownInv, OwnSecrets, OwnCopies, [Next]_vars
  PROVE  OwnSecrets'
  <1>1. ASSUME NEW c \in Connections, NEW o \in Organizations, NEW kind \in Kinds,
               NEW secret \in Secrets \cup {Blank}, AddConnection(c, o, kind, secret)
        PROVE  OwnSecrets'
    BY <1>1 DEF AddConnection, OwnSecrets, TypeOK
  <1>2. ASSUME NEW w \in Workers, SaveConnection(w)
        PROVE  OwnSecrets'
    <2> DEFINE c == worker[w].connection
               new == worker[w].posted
    <2>1. /\ c \in Connections
          /\ new.secret # None => \/ c \in moved
                                  \/ Owner[new.secret] = new.organization
                                  \/ row[c].organization # new.organization
      BY <1>2 DEF SaveConnection, KnownInv, OwnCopies
    <2>2. /\ row' = [row EXCEPT ![c] = new]
          /\ moved' = IF row[c].organization # new.organization THEN moved \cup {c} ELSE moved
      BY <1>2 DEF SaveConnection
    <2> HIDE DEF c, new
    <2> QED
      BY <2>1, <2>2 DEF OwnSecrets, TypeOK
  <1>3. ASSUME NEW c \in Connections, DeleteConnection(c)
        PROVE  OwnSecrets'
    BY <1>3, NoneOfThese DEF DeleteConnection, OwnSecrets, TypeOK
  <1>4. ASSUME NEW w \in Workers, MarkVerified(w)
        PROVE  OwnSecrets'
    <2> DEFINE c == worker[w].connection
               loaded == worker[w].posted
               works == worker[w].works
    <2>1. c \in Connections
      BY <1>4 DEF MarkVerified, KnownInv
    <2>2. /\ row' = IF Exists(c) THEN [row EXCEPT ![c] = Verdict(row[c], loaded, works)] ELSE row
          /\ moved' = moved
      BY <1>4 DEF MarkVerified
    <2> HIDE DEF c, loaded, works
    <2>3. Exists(c) => /\ Verdict(row[c], loaded, works).organization = row[c].organization
                       /\ Verdict(row[c], loaded, works).secret = row[c].secret
      <3>1. Exists(c) => row[c] \in Row
        BY <2>1 DEF TypeOK, Exists
      <3> QED
        BY <3>1 DEF Verdict, Row
    <2> QED
      BY <2>1, <2>2, <2>3 DEF OwnSecrets, TypeOK
  <1>5. ASSUME UNCHANGED row, moved \subseteq moved'
        PROVE  OwnSecrets'
    BY <1>5 DEF OwnSecrets
  <1>6. moved \subseteq moved'
    BY ChangesAreNoted
  <1> QED
    BY <1>1, <1>2, <1>3, <1>4, <1>5, <1>6, RowChanges DEF RowWriter

LEMMA OwnCopiesStay ==
  ASSUME TypeOK, KnownInv, OwnSecrets, OwnCopies, [Next]_vars
  PROVE  OwnCopies'
  <1> SUFFICES ASSUME NEW v \in Workers, worker'[v].at = "saving",
                      worker'[v].posted.secret # None
               PROVE  \/ worker'[v].connection \in moved'
                      \/ Owner[worker'[v].posted.secret] = worker'[v].posted.organization
                      \/ row'[worker'[v].connection].organization
                           # worker'[v].posted.organization
    BY DEF OwnCopies
  <1>1. CASE worker'[v] = worker[v]
    <2> DEFINE new == worker[v].posted
    <2>1. PICK c \in Connections : c = worker[v].connection
      BY <1>1 DEF KnownInv
    <2>2. /\ entered[c] # Blank /\ new \in Row
          /\ \/ c \in moved
             \/ Owner[new.secret] = new.organization
             \/ row[c].organization # new.organization
      BY <1>1, <2>1 DEF KnownInv, OwnCopies
    <2>3. RowMoves(c) /\ moved \subseteq moved'
      BY <2>2, ChangesAreNoted
    <2>4. new.organization \in Organizations
      BY <2>2 DEF Row
    <2>5. Exists(c)' \/ row'[c].organization = None
      BY NoneOfThese DEF Exists
    <2>6. \/ c \in moved'
          \/ Owner[new.secret] = new.organization
          \/ row'[c].organization # new.organization
      BY <2>2, <2>3, <2>4, <2>5 DEF RowMoves
    <2> QED
      BY <1>1, <2>1, <2>6
  <1>2. ASSUME NEW q, worker'[v] = q, TookUp(q), UNCHANGED <<tables, history>>
        PROVE  \/ q.connection \in moved'
               \/ Owner[q.posted.secret] = q.posted.organization
               \/ row'[q.connection].organization # q.posted.organization
    <2>1. PICK c \in Connections, o \in Organizations, kind \in Registered, active \in BOOLEAN,
               secret \in Secrets \cup {Blank} :
            /\ Exists(c)
            /\ secret # Blank => Owner[secret] = o
            /\ q.connection = c
            /\ q.posted = Posted(c, o, kind, active, secret)
      BY <1>2 DEF TookUp
    <2>2. /\ q.posted.organization = o
          /\ q.posted.secret = (IF secret = Blank THEN row[c].secret ELSE secret)
      BY <2>1, PostedIs
    <2> QED
      BY <1>2, <2>1, <2>2 DEF OwnSecrets, tables, history
  <1> QED
    BY <1>1, <1>2, WorkersMove

LEMMA FittingStays ==
  ASSUME TypeOK, KnownInv, OwnSecrets, Fitting, [Next]_vars
  PROVE  Fitting'
  <1>1. \A w \in Workers : FittingWorker(worker[w])'
    <2> SUFFICES ASSUME NEW v \in Workers
                 PROVE  FittingWorker(worker[v])'
      OBVIOUS
    <2>1. CASE worker'[v] = worker[v]
      <3>1. FittingWorker(worker[v])
        BY DEF Fitting
      <3>2. CASE worker[v].at = "binding"
        BY <2>1, <3>1, <3>2, FitsStays DEF FittingWorker, KnownInv
      <3>3. CASE worker[v].at = "using"
        <4>1. worker[v].pair[1] \in Events
          BY <3>3 DEF KnownInv
        <4>2. \/ worker[v].pair[1] \in moved'
              \/ organization'[worker[v].pair[1]] = organization[worker[v].pair[1]]
          BY <4>1, ChangesAreNoted
        <4>3. moved \subseteq moved' /\ recast \subseteq recast'
          BY ChangesAreNoted
        <4> QED
          BY <2>1, <3>1, <3>3, <4>2, <4>3 DEF FittingWorker
      <3> QED
        BY <2>1, <3>2, <3>3 DEF FittingWorker
    <2>2. CASE worker'[v].at = "idle"
      BY <2>2 DEF FittingWorker
    <2>3. ASSUME NEW q, worker'[v] = q, TookUp(q), UNCHANGED <<tables, history>>
          PROVE  FittingWorker(worker[v])'
      <3>1. KnownInv'
        BY TypeStays
      <3>2. CASE q.at = "binding"
        <4>1. q.choice.connection = q.connection
          BY <2>3, <3>1, <3>2 DEF KnownInv
        <4>2. Fits(q.connection, q.pair)
          BY <2>3, <3>2, <4>1 DEF TookUp, BindingValid, Fits
        <4> QED
          BY <2>3, <3>2, <4>2 DEF FittingWorker, Fits, Exists, tables, history
      <3>3. CASE q.at = "using"
        <4>1. q.pair \in Events \X Capabilities
          BY <2>3, <3>1, <3>3 DEF KnownInv
        <4>2. Usable(q.pair) /\ q.connection = binding[q.pair].connection
              /\ q.kind = row[q.connection].kind /\ q.secret = row[q.connection].secret
          BY <2>3, <3>3 DEF TookUp
        <4>3. /\ q.connection \in Connections /\ Exists(q.connection)
              /\ q.secret \in Secrets
          BY <4>1, <4>2, UsableIs
        <4>4. Fits(q.connection, q.pair)
          BY <4>1, <4>2 DEF Usable, Fitting
        <4>5. q.connection \in moved \/ Owner[q.secret] = row[q.connection].organization
          BY <4>2, <4>3 DEF OwnSecrets
        <4> QED
          BY <2>3, <3>3, <4>2, <4>3, <4>4, <4>5 DEF FittingWorker, Fits, tables, history
      <3> QED
        BY <2>3, <3>2, <3>3 DEF FittingWorker
    <2> QED
      BY <2>1, <2>2, <2>3, WorkersMove
  <1>2. ASSUME NEW pair \in Events \X Capabilities, NEW c, binding'[pair] # NoBinding,
               binding'[pair].connection = c
        PROVE  Fits(c, pair)'
    <2>1. c \in Connections /\ entered[c] # Blank /\ Fits(c, pair)
      <3>1. CASE binding'[pair] = binding[pair]
        BY <1>2, <3>1 DEF KnownInv, Fitting, Binding
      <3>2. ASSUME NEW w \in Workers, SaveBinding(w), binding'[pair] # binding[pair]
            PROVE  c \in Connections /\ entered[c] # Blank /\ Fits(c, pair)
        <4>1. worker[w].pair = pair /\ binding'[pair] = worker[w].choice
          BY <3>2 DEF SaveBinding, TypeOK
        <4> QED
          BY <1>2, <3>2, <4>1 DEF SaveBinding, KnownInv, Fitting, FittingWorker
      <3>3. ASSUME NEW p \in Bindable, DeleteBinding(p)
            PROVE  binding'[pair] = binding[pair]
        BY <1>2, <3>3 DEF DeleteBinding, TypeOK
      <3> QED
        BY <3>1, <3>2, <3>3, BindingChanges
    <2> QED
      BY <2>1, FitsStays
  <1> QED
    BY <1>1, <1>2 DEF Fitting

LEMMA InitOwn == Init => OwnSecrets /\ OwnCopies /\ Fitting
  <1> SUFFICES ASSUME Init
               PROVE  OwnSecrets /\ OwnCopies /\ Fitting
    OBVIOUS
  <1>1. OwnSecrets
    BY DEF Init, OwnSecrets
  <1>2. \A w \in Workers : worker[w].at = "idle"
    BY NoneOfThese DEF Init
  <1>3. \A pair \in Events \X Capabilities : binding[pair] = NoBinding
    BY DEF Init
  <1> QED
    BY <1>1, <1>2, <1>3 DEF OwnCopies, Fitting, FittingWorker

LEMMA Own == Spec => [](OwnSecrets /\ OwnCopies /\ Fitting)
  BY InitOwn, OwnSecretsStay, OwnCopiesStay, FittingStays, Known, PTL DEF Spec

\* What a sync or a drain holds for an event belongs to the event's organization,
\* for any number of administrators editing connections, bindings and events at
\* once, unless the event or the connection was given to another organization.
THEOREM SecretsStayHome == Spec => []CredentialsStayHome
  <1>1. Fitting => CredentialsStayHome
    BY DEF Fitting, FittingWorker, CredentialsStayHome
  <1> QED
    BY <1>1, Own, PTL

\* Whatever is bound, edited and resolved at once, an adapter has the capability it
\* was asked for, unless its connection was given another one.
THEOREM AdaptersFit == Spec => []AdapterHasTheCapability
  <1>1. Fitting => AdapterHasTheCapability
    BY DEF Fitting, FittingWorker, AdapterHasTheCapability
  <1> QED
    BY <1>1, Own, PTL

(***************************************************************************)
(* What is stored, and what was checked.                                    *)
(***************************************************************************)

\* A form will store what was entered in it, or last before it was loaded.
FormsKeepSecrets ==
    \A w \in Workers :
        LET q == worker[w]
        IN  q.at = "saving" =>
                \/ q.posted.secret = IF q.entering = Blank THEN entered[q.connection]
                                                           ELSE q.entering
                \/ q.entering = Blank /\ q.connection \in overlapped

\* The stored secret was found working, or is not the one that was checked.
Covered(c) == Exists(c) => row[c].secret \in checked[c] \/ c \in replaced

\* What a check or a form that holds c may write is covered.
CopiesAreCovered ==
    \A w \in Workers :
        LET q == worker[w]
            c == q.connection
        IN  /\ q.at = "checking" =>
                   Covered(c) \/ (row[c].secret = q.posted.secret /\ ~q.posted.verified)
            /\ q.at = "saving" /\ q.posted.verified /\ Exists(c) =>
                   \/ q.posted.secret \in checked[c]
                   \/ c \in replaced
                   \/ row[c].secret # q.posted.secret

SecretInv == SecretIsTheLastEntered /\ FormsKeepSecrets
CheckInv == VerifiedWasChecked /\ CopiesAreCovered

LEMMA SecretRowsStay ==
  ASSUME TypeOK, KnownInv, SecretInv, [Next]_vars
  PROVE  SecretIsTheLastEntered'
  <1>1. ASSUME NEW c \in Connections, NEW o \in Organizations, NEW kind \in Kinds,
               NEW secret \in Secrets \cup {Blank}, AddConnection(c, o, kind, secret)
        PROVE  SecretIsTheLastEntered'
    BY <1>1 DEF AddConnection, SecretInv, SecretIsTheLastEntered, TypeOK, Exists
  <1>2. ASSUME NEW w \in Workers, SaveConnection(w)
        PROVE  SecretIsTheLastEntered'
    <2> DEFINE c == worker[w].connection
               new == worker[w].posted
               typed == worker[w].entering
    <2>1. /\ c \in Connections
          /\ \/ new.secret = IF typed = Blank THEN entered[c] ELSE typed
             \/ typed = Blank /\ c \in overlapped
      BY <1>2 DEF SaveConnection, KnownInv, SecretInv, FormsKeepSecrets
    <2>2. /\ row' = [row EXCEPT ![c] = new]
          /\ entered' = [entered EXCEPT ![c] = IF typed = Blank THEN entered[c] ELSE typed]
          /\ overlapped \subseteq overlapped'
      BY <1>2 DEF SaveConnection
    <2> HIDE DEF c, new, typed
    <2> QED
      BY <2>1, <2>2 DEF SecretInv, SecretIsTheLastEntered, TypeOK, Exists
  <1>3. ASSUME NEW c \in Connections, DeleteConnection(c)
        PROVE  SecretIsTheLastEntered'
    BY <1>3 DEF DeleteConnection, SecretInv, SecretIsTheLastEntered, TypeOK, Exists
  <1>4. ASSUME NEW w \in Workers, MarkVerified(w)
        PROVE  SecretIsTheLastEntered'
    <2> DEFINE c == worker[w].connection
               loaded == worker[w].posted
               works == worker[w].works
    <2>1. c \in Connections
      BY <1>4 DEF MarkVerified, KnownInv
    <2>2. /\ row' = IF Exists(c) THEN [row EXCEPT ![c] = Verdict(row[c], loaded, works)] ELSE row
          /\ entered' = entered /\ overlapped' = overlapped
      BY <1>4 DEF MarkVerified
    <2> HIDE DEF c, loaded, works
    <2>3. Exists(c) => Verdict(row[c], loaded, works).secret = row[c].secret
      <3>1. Exists(c) => row[c] \in Row
        BY <2>1 DEF TypeOK, Exists
      <3> QED
        BY <3>1 DEF Verdict, Row
    <2> QED
      BY <2>1, <2>2, <2>3 DEF SecretInv, SecretIsTheLastEntered, TypeOK, Exists
  <1>5. ASSUME UNCHANGED <<row, entered, overlapped>>
        PROVE  SecretIsTheLastEntered'
    BY <1>5 DEF SecretInv, SecretIsTheLastEntered, Exists
  <1> QED
    BY <1>1, <1>2, <1>3, <1>4, <1>5, RowChanges DEF RowWriter

\* What is entered for a connection while a form holds it is noted as an overlap.
LEMMA EntriesAreNoted ==
  ASSUME TypeOK, KnownInv, [Next]_vars, NEW v \in Workers, worker[v].at = "saving",
         worker'[v] = worker[v], NEW d \in Connections, worker[v].connection = d
  PROVE  /\ d \in overlapped' \/ entered'[d] = entered[d]
         /\ overlapped \subseteq overlapped'
  <1>1. ASSUME NEW c \in Connections, NEW o \in Organizations, NEW kind \in Kinds,
               NEW secret \in Secrets \cup {Blank}, AddConnection(c, o, kind, secret)
        PROVE  entered'[d] = entered[d] /\ overlapped' = overlapped
    BY <1>1 DEF AddConnection, KnownInv, TypeOK
  <1>2. ASSUME NEW w \in Workers, SaveConnection(w)
        PROVE  (d \in overlapped' \/ entered'[d] = entered[d]) /\ overlapped \subseteq overlapped'
    <2> DEFINE c == worker[w].connection
    <2>1. w # v
      BY <1>2, NoneOfThese, StepIs DEF SaveConnection
    <2>2. d = c => d \in Overlap(w, c)
      BY <2>1 DEF Overlap
    <2>3. overlapped' = overlapped \cup Overlap(w, c)
      BY <1>2 DEF SaveConnection
    <2>4. d # c => entered'[d] = entered[d]
      BY <1>2 DEF SaveConnection, TypeOK
    <2> QED
      BY <2>2, <2>3, <2>4
  <1>3. ASSUME NEW c \in Connections, DeleteConnection(c)
        PROVE  entered' = entered /\ overlapped \subseteq overlapped'
    BY <1>3 DEF DeleteConnection
  <1>4. ASSUME NEW w \in Workers, MarkVerified(w)
        PROVE  entered' = entered /\ overlapped' = overlapped
    BY <1>4 DEF MarkVerified
  <1> QED
    BY <1>1, <1>2, <1>3, <1>4, RowChanges DEF RowWriter

LEMMA FormsStay ==
  ASSUME TypeOK, KnownInv, SecretInv, [Next]_vars
  PROVE  FormsKeepSecrets'
  <1> SUFFICES ASSUME NEW v \in Workers, worker'[v].at = "saving"
               PROVE  \/ worker'[v].posted.secret =
                            IF worker'[v].entering = Blank THEN entered'[worker'[v].connection]
                                                           ELSE worker'[v].entering
                      \/ worker'[v].entering = Blank /\ worker'[v].connection \in overlapped'
    BY DEF FormsKeepSecrets
  <1>1. CASE worker'[v] = worker[v]
    <2>1. PICK d \in Connections : d = worker[v].connection
      BY <1>1 DEF KnownInv
    <2>2. /\ d \in overlapped' \/ entered'[d] = entered[d]
          /\ overlapped \subseteq overlapped'
      BY <1>1, <2>1, EntriesAreNoted
    <2> QED
      BY <1>1, <2>1, <2>2 DEF SecretInv, FormsKeepSecrets
  <1>2. ASSUME NEW q, worker'[v] = q, TookUp(q), UNCHANGED <<tables, history>>
        PROVE  \/ q.posted.secret = IF q.entering = Blank THEN entered'[q.connection]
                                                          ELSE q.entering
               \/ q.entering = Blank /\ q.connection \in overlapped'
    <2>1. PICK c \in Connections, o \in Organizations, kind \in Registered, active \in BOOLEAN,
               secret \in Secrets \cup {Blank} :
            /\ Exists(c)
            /\ q.connection = c
            /\ q.entering = secret
            /\ q.posted = Posted(c, o, kind, active, secret)
      BY <1>2 DEF TookUp
    <2>2. q.posted.secret = (IF secret = Blank THEN row[c].secret ELSE secret)
      BY <2>1, PostedIs
    <2> QED
      BY <1>2, <2>1, <2>2 DEF SecretInv, SecretIsTheLastEntered, history
  <1> QED
    BY <1>1, <1>2, WorkersMove

LEMMA InitSecrets == Init => SecretInv /\ CheckInv
  <1> SUFFICES ASSUME Init
               PROVE  SecretInv /\ CheckInv
    OBVIOUS
  <1>1. \A w \in Workers : worker[w].at = "idle"
    BY NoneOfThese DEF Init
  <1>2. \A c \in Connections : ~row[c].verified
    BY DEF Init
  <1>3. SecretIsTheLastEntered
    BY DEF Init, SecretIsTheLastEntered, Exists
  <1> QED
    BY <1>1, <1>2, <1>3 DEF SecretInv, CheckInv, FormsKeepSecrets, CopiesAreCovered,
       VerifiedWasChecked

\* A stored secret is the last one entered for its connection, whatever checks run
\* and save meanwhile, unless two forms were saved over each other.
THEOREM EntriesLast == Spec => []SecretIsTheLastEntered
  <1>1. TypeOK /\ KnownInv /\ SecretInv /\ [Next]_vars => SecretInv'
    BY SecretRowsStay, FormsStay DEF SecretInv
  <1>2. SecretInv => SecretIsTheLastEntered
    BY DEF SecretInv
  <1> QED
    BY <1>1, <1>2, InitSecrets, Known, PTL DEF Spec

\* What the end of a check does: a success covers the row it leaves.
LEMMA CoveredByCheck ==
  ASSUME TypeOK, KnownInv, NEW w \in Workers, MarkVerified(w), NEW c \in Connections
  PROVE  /\ row'[c].secret = row[c].secret
         /\ Exists(c)' <=> Exists(c)
         /\ checked[c] \subseteq checked'[c]
         /\ \/ c \in replaced <=> c \in replaced'
            \/ row[c].secret \in checked'[c]
         /\ \/ row'[c].verified = row[c].verified
            \/ /\ c = worker[w].connection /\ worker[w].at = "checking"
               /\ row'[c].verified = (worker[w].works \/ worker[w].posted.verified)
               /\ worker[w].works =>
                    \/ worker[w].posted.secret = row[c].secret /\ row[c].secret \in checked'[c]
                    \/ worker[w].posted.secret # row[c].secret /\ replaced' = replaced
  <1> DEFINE d == worker[w].connection
             loaded == worker[w].posted
             works == worker[w].works
  <1>1. d \in Connections /\ works \in BOOLEAN /\ loaded \in Row /\ worker[w].at = "checking"
    BY DEF MarkVerified, KnownInv, TypeOK, Worker
  <1>2. /\ row' = IF Exists(d) THEN [row EXCEPT ![d] = Verdict(row[d], loaded, works)] ELSE row
        /\ checked' = IF works THEN [checked EXCEPT ![d] = @ \cup {loaded.secret}] ELSE checked
        /\ replaced' = IF works /\ loaded.secret = row[d].secret THEN replaced \ {d}
                                                                 ELSE replaced
    BY DEF MarkVerified
  <1>3. Exists(d) => /\ Verdict(row[d], loaded, works) \in Row
                     /\ Verdict(row[d], loaded, works).secret = row[d].secret
                     /\ Verdict(row[d], loaded, works).verified = (works \/ loaded.verified)
    <2> HIDE DEF d, loaded, works
    <2>1. Exists(d) => row[d] \in Row
      BY <1>1 DEF TypeOK, Exists
    <2>2. loaded.verified \in BOOLEAN
      BY <1>1 DEF Row
    <2> QED
      BY <1>1, <2>1, <2>2 DEF Verdict, Row
  <1>4. NoRow \notin Row
    BY NoneOfThese
  <1>5. CASE c = d
    <2>1. row'[c] = (IF Exists(c) THEN Verdict(row[c], loaded, works) ELSE row[c])
      BY <1>1, <1>2, <1>5 DEF TypeOK
    <2>2. checked'[c] = (IF works THEN checked[c] \cup {loaded.secret} ELSE checked[c])
      BY <1>1, <1>2, <1>5 DEF TypeOK
    <2> QED
      BY <1>1, <1>2, <1>3, <1>4, <1>5, <2>1, <2>2 DEF Exists
  <1>6. CASE c # d
    BY <1>1, <1>2, <1>6 DEF TypeOK, Exists
  <1> QED
    BY <1>5, <1>6

\* A used connection is gone, or its secret is one nobody checked, or it is the one
\* it was, and found working if it was noted as replaced.
Settled(d) ==
    \/ ~Exists(d)'
    \/ d \in replaced'
    \/ /\ Exists(d)
       /\ row'[d].secret = row[d].secret
       /\ checked[d] \subseteq checked'[d]
       /\ d \in replaced => row[d].secret \in checked'[d]

LEMMA SecretsSettle ==
  ASSUME TypeOK, KnownInv, [Next]_vars, NEW d \in Connections, entered[d] # Blank
  PROVE  Settled(d)
  <1>1. ASSUME NEW c \in Connections, NEW o \in Organizations, NEW kind \in Kinds,
               NEW secret \in Secrets \cup {Blank}, AddConnection(c, o, kind, secret)
        PROVE  Settled(d)
    BY <1>1 DEF AddConnection, Settled, TypeOK, Exists
  <1>2. ASSUME NEW w \in Workers, SaveConnection(w)
        PROVE  Settled(d)
    <2> DEFINE c == worker[w].connection
               new == worker[w].posted
    <2>1. c \in Connections
      BY <1>2 DEF SaveConnection, KnownInv
    <2>2. /\ row' = [row EXCEPT ![c] = new]
          /\ replaced' = IF Exists(c) /\ row[c].secret = new.secret THEN replaced
                         ELSE replaced \cup {c}
          /\ checked' = checked
      BY <1>2 DEF SaveConnection
    <2> HIDE DEF c, new
    <2> QED
      BY <2>1, <2>2 DEF TypeOK, Settled, Exists
  <1>3. ASSUME NEW c \in Connections, DeleteConnection(c)
        PROVE  Settled(d)
    BY <1>3 DEF DeleteConnection, TypeOK, Settled, Exists
  <1>4. ASSUME NEW w \in Workers, MarkVerified(w)
        PROVE  Settled(d)
    <2>1. /\ row'[d].secret = row[d].secret
          /\ Exists(d)' <=> Exists(d)
          /\ checked[d] \subseteq checked'[d]
          /\ \/ d \in replaced <=> d \in replaced'
             \/ row[d].secret \in checked'[d]
      BY <1>4, CoveredByCheck
    <2> QED
      BY <2>1 DEF Settled
  <1>5. ASSUME UNCHANGED <<row, checked, replaced>>
        PROVE  Settled(d)
    BY <1>5 DEF Settled, Exists
  <1> QED
    BY <1>1, <1>2, <1>3, <1>4, <1>5, RowChanges DEF RowWriter

LEMMA CopiesStay ==
  ASSUME TypeOK, KnownInv, CheckInv, [Next]_vars
  PROVE  CopiesAreCovered'
  <1> DEFINE Held(q, d) ==
        /\ q.at = "checking" =>
               Covered(d)' \/ (row'[d].secret = q.posted.secret /\ ~q.posted.verified)
        /\ q.at = "saving" /\ q.posted.verified /\ Exists(d)' =>
               \/ q.posted.secret \in checked'[d]
               \/ d \in replaced'
               \/ row'[d].secret # q.posted.secret
  <1>1. ASSUME NEW v \in Workers, worker'[v].at \in {"checking", "saving"}
        PROVE  \E d : d = worker'[v].connection /\ Held(worker'[v], d)
    <2>1. CASE worker'[v] = worker[v]
      <3>1. PICK d \in Connections : d = worker[v].connection /\ entered[d] # Blank
        BY <1>1, <2>1 DEF KnownInv
      <3>2. Settled(d)
        BY <3>1, SecretsSettle
      <3>3. /\ worker[v].at = "checking" =>
                  \/ Exists(d) => row[d].secret \in checked[d] \/ d \in replaced
                  \/ row[d].secret = worker[v].posted.secret /\ ~worker[v].posted.verified
            /\ worker[v].at = "saving" /\ worker[v].posted.verified /\ Exists(d) =>
                  \/ worker[v].posted.secret \in checked[d]
                  \/ d \in replaced
                  \/ row[d].secret # worker[v].posted.secret
        BY <3>1 DEF CheckInv, CopiesAreCovered, Covered
      <3>4. Held(worker[v], d)
        <4>1. CASE worker[v].at = "checking"
          <5>1. CASE Exists(d) => row[d].secret \in checked[d] \/ d \in replaced
            <6>1. Covered(d)'
              BY <3>2, <5>1 DEF Settled, Covered
            <6> QED
              BY <4>1, <6>1
          <5>2. CASE row[d].secret = worker[v].posted.secret /\ ~worker[v].posted.verified
            BY <3>2, <4>1, <5>2 DEF Settled, Covered, Exists
          <5> QED
            BY <3>3, <4>1, <5>1, <5>2
        <4>2. CASE worker[v].at = "saving"
          BY <3>2, <3>3, <4>2 DEF Settled, Exists
        <4> QED
          BY <1>1, <2>1, <4>1, <4>2
      <3> HIDE DEF Held
      <3> QED
        BY <2>1, <3>1, <3>4
    <2>2. ASSUME NEW q, worker'[v] = q, TookUp(q), UNCHANGED <<tables, history>>,
                 q.at = "saving"
          PROVE  \E d : d = q.connection /\ Held(q, d)
      <3>1. PICK c \in Connections, o \in Organizations, kind \in Registered,
                 active \in BOOLEAN, secret \in Secrets \cup {Blank} :
              /\ Exists(c)
              /\ q.connection = c
              /\ q.posted = Posted(c, o, kind, active, secret)
        BY <2>2 DEF TookUp
      <3>2. /\ q.posted.secret = (IF secret = Blank THEN row[c].secret ELSE secret)
            /\ q.posted.verified = row[c].verified
        BY <3>1, PostedIs
      <3>3. row[c].verified => row[c].secret \in checked[c] \/ c \in replaced
        BY DEF CheckInv, VerifiedWasChecked
      <3> QED
        BY <2>2, <3>1, <3>2, <3>3 DEF tables, history
    <2>3. ASSUME NEW q, worker'[v] = q, TookUp(q), UNCHANGED <<tables, history>>,
                 q.at = "checking"
          PROVE  \E d : d = q.connection /\ Held(q, d)
      <3>1. PICK c \in Connections : c = q.connection /\ q.posted = row[c]
        BY <2>3 DEF TookUp
      <3>2. row[c].verified => row[c].secret \in checked[c] \/ c \in replaced
        BY DEF CheckInv, VerifiedWasChecked
      <3>3. CASE row[c].verified
        <4>1. row'[c].secret \in checked'[c] \/ c \in replaced'
          BY <2>3, <3>2, <3>3 DEF tables, history
        <4>2. Covered(c)'
          BY <4>1 DEF Covered
        <4>3. Held(q, c)
          BY <2>3, <4>2
        <4> QED
          BY <3>1, <4>3
      <3>4. CASE ~row[c].verified
        <4>1. Held(q, c)
          BY <2>3, <3>1, <3>4 DEF tables
        <4> QED
          BY <3>1, <4>1
      <3> QED
        BY <3>3, <3>4
    <2> HIDE DEF Held
    <2> QED
      BY <1>1, <2>1, <2>2, <2>3, WorkersMove
  <1> QED
    BY <1>1 DEF CopiesAreCovered, Covered, Exists

LEMMA VerifiedStays ==
  ASSUME TypeOK, KnownInv, CheckInv, [Next]_vars
  PROVE  VerifiedWasChecked'
  <1>1. ASSUME NEW c \in Connections, NEW o \in Organizations, NEW kind \in Kinds,
               NEW secret \in Secrets \cup {Blank}, AddConnection(c, o, kind, secret)
        PROVE  VerifiedWasChecked'
    BY <1>1 DEF AddConnection, CheckInv, VerifiedWasChecked, TypeOK
  <1>2. ASSUME NEW w \in Workers, SaveConnection(w)
        PROVE  VerifiedWasChecked'
    <2> DEFINE c == worker[w].connection
               new == worker[w].posted
    <2>1. /\ c \in Connections
          /\ new.verified => (Exists(c) => \/ new.secret \in checked[c]
                                           \/ c \in replaced
                                           \/ row[c].secret # new.secret)
      BY <1>2 DEF SaveConnection, KnownInv, CheckInv, CopiesAreCovered
    <2>2. /\ row' = [row EXCEPT ![c] = new]
          /\ replaced' = IF Exists(c) /\ row[c].secret = new.secret THEN replaced
                         ELSE replaced \cup {c}
          /\ checked' = checked
      BY <1>2 DEF SaveConnection
    <2> HIDE DEF c, new
    <2> QED
      BY <2>1, <2>2 DEF CheckInv, VerifiedWasChecked, TypeOK
  <1>3. ASSUME NEW c \in Connections, DeleteConnection(c)
        PROVE  VerifiedWasChecked'
    BY <1>3, NoneOfThese DEF DeleteConnection, CheckInv, VerifiedWasChecked, TypeOK
  <1>4. ASSUME NEW w \in Workers, MarkVerified(w)
        PROVE  VerifiedWasChecked'
    <2> SUFFICES ASSUME NEW c \in Connections, row'[c].verified
                 PROVE  row'[c].secret \in checked'[c] \/ c \in replaced'
      BY DEF VerifiedWasChecked
    <2>1. /\ row'[c].secret = row[c].secret
          /\ checked[c] \subseteq checked'[c]
          /\ \/ c \in replaced <=> c \in replaced'
             \/ row[c].secret \in checked'[c]
      BY <1>4, CoveredByCheck
    <2>2. CASE row'[c].verified = row[c].verified
      BY <2>1, <2>2 DEF CheckInv, VerifiedWasChecked
    <2>3. ASSUME c = worker[w].connection, worker[w].at = "checking",
                 row'[c].verified = (worker[w].works \/ worker[w].posted.verified),
                 worker[w].works =>
                    \/ worker[w].posted.secret = row[c].secret /\ row[c].secret \in checked'[c]
                    \/ worker[w].posted.secret # row[c].secret /\ replaced' = replaced
          PROVE  row'[c].secret \in checked'[c] \/ c \in replaced'
      <3>1. Exists(c)' <=> Exists(c)
        BY <1>4, CoveredByCheck
      <3>2. Exists(c)'
        BY NoneOfThese DEF Exists
      <3>3. \/ row[c].secret \in checked[c] \/ c \in replaced
            \/ row[c].secret = worker[w].posted.secret /\ ~worker[w].posted.verified
        BY <2>3, <3>1, <3>2 DEF CheckInv, CopiesAreCovered, Covered
      <3> QED
        BY <2>1, <2>3, <3>3
    <2> QED
      BY <1>4, <2>2, <2>3, CoveredByCheck
  <1>5. ASSUME UNCHANGED <<row, checked, replaced>>
        PROVE  VerifiedWasChecked'
    BY <1>5 DEF CheckInv, VerifiedWasChecked
  <1> QED
    BY <1>1, <1>2, <1>3, <1>4, <1>5, RowChanges DEF RowWriter

\* A verified connection's secret was found working, whatever forms and checks hold
\* copies of it, unless it was replaced since.
THEOREM ChecksCoverSecrets == Spec => []VerifiedWasChecked
  <1>1. TypeOK /\ KnownInv /\ CheckInv /\ [Next]_vars => CheckInv'
    BY CopiesStay, VerifiedStays DEF CheckInv
  <1>2. CheckInv => VerifiedWasChecked
    BY DEF CheckInv
  <1> QED
    BY <1>1, <1>2, InitSecrets, Known, PTL DEF Spec
=============================================================================
