---------------------------- MODULE Connections ----------------------------
(***************************************************************************)
(* Provider connections and the bindings that select them:                  *)
(* src/src/integrations/models.py, registry.py, resolver.py and the forms   *)
(* and the verify action of admin.py.                                       *)
(*                                                                          *)
(* Nothing locks a row between the request that loads it and the save that  *)
(* follows, so a form, a credential check, and a sync or drain that holds   *)
(* an adapter are workers with a copy, and step one at a time.              *)
(*                                                                          *)
(* A secret stands for a whole credentials dict, encrypted or not; Owner    *)
(* says whose it is.  An administrator enters an organization's own, and    *)
(* never an empty JSON object, which would erase what is stored.  Names,    *)
(* slugs and non-secret settings of a connection have no part in this.      *)
(***************************************************************************)
EXTENDS Naturals

CONSTANTS
    Organizations,
    Events,
    HomeOf,        \* the organization of an event at first
    Connections,
    FirstRow,      \* the connections table at first
    Secrets,
    Owner,         \* the organization a secret belongs to
    Kinds,         \* the <<capability, provider>> pairs a form may post
    Registered,    \* those an adapter is registered for
    Postable,      \* bound: connections anybody edits
    Bindable,      \* bound: <<event, capability>> pairs anybody binds
    Workers,       \* bound: forms, checks and adapter users at once
    MaxEdits       \* bound: submitted forms, deletions and moves

None == "none"
Blank == "blank"

Capabilities == {kind[1] : kind \in Kinds}

Row == [organization: Organizations, kind: Registered, secret: Secrets \cup {None},
        active: BOOLEAN, verified: BOOLEAN]

\* A primary key with no row.
NoRow == [organization |-> None, kind |-> <<None, None>>, secret |-> None,
          active |-> FALSE, verified |-> FALSE]

ASSUME ConnectionsAssumption ==
    /\ None \notin Organizations \cup Events \cup Connections \cup Secrets \cup Capabilities
    /\ Blank \notin Secrets
    /\ HomeOf \in [Events -> Organizations]
    /\ Registered \subseteq Kinds
    /\ FirstRow \in [Connections -> Row \cup {NoRow}]
    /\ \A c \in Connections :
           /\ ~FirstRow[c].verified
           /\ FirstRow[c].secret # None => Owner[FirstRow[c].secret] = FirstRow[c].organization
    /\ Owner \in [Secrets -> Organizations]
    /\ Postable \subseteq Connections
    /\ Bindable \subseteq Events \X Capabilities
    /\ MaxEdits \in Nat

Binding == [connection: Connections, complete: BOOLEAN, active: BOOLEAN]

NoBinding == [connection |-> None, complete |-> FALSE, active |-> FALSE]

VARIABLES
    organization,  \* of each event
    row,           \* the ProviderConnection table
    binding,       \* of an event and a capability
    worker,        \* what runs, with its copies
    edits,         \* bound: how many edits so far
    entered,       \* history: the secret last entered for a connection; Blank
                   \* for a primary key not used yet
    checked,       \* history: secrets of a connection a check found working
    moved,         \* history: events and connections given to another organization
    recast,        \* history: connections given another capability
    overlapped,    \* history: connections saved over another form's save or delete
    replaced       \* history: connections whose secret changed since it was checked

tables == <<organization, row, binding>>
history == <<entered, checked, moved, recast, overlapped, replaced>>
vars == <<tables, worker, edits, history>>

Idle == [at |-> "idle", connection |-> None, posted |-> NoRow, entering |-> Blank,
         pair |-> <<None, None>>, choice |-> NoBinding, secret |-> None,
         kind |-> <<None, None>>, works |-> FALSE]

Init ==
    /\ organization = HomeOf
    /\ row = FirstRow
    /\ binding = [pair \in Events \X Capabilities |-> NoBinding]
    /\ worker = [w \in Workers |-> Idle]
    /\ edits = 0
    /\ entered = [c \in Connections |->
                    IF FirstRow[c] = NoRow THEN Blank ELSE FirstRow[c].secret]
    /\ checked = [c \in Connections |-> {}]
    /\ moved = {}
    /\ recast = {}
    /\ overlapped = {}
    /\ replaced = {}

Exists(c) == row[c] # NoRow

\* No required credential key is missing.
HasCredentials(c) == row[c].secret # None

Step(w, fields) == worker' = [worker EXCEPT ![w] = fields]

Edit == edits < MaxEdits /\ edits' = edits + 1

(***************************************************************************)
(* The connection form.                                                     *)
(***************************************************************************)

\* ProviderConnection.clean.
KindValid(kind) == kind \in Registered

\* History: c, when a form other than w's holds a copy of it.
Overlap(w, c) ==
    {d \in {c} : \E v \in Workers \ {w} : worker[v].at = "saving" /\ worker[v].connection = d}

\* An add: what is posted is inserted under a new primary key.
AddConnection(c, o, kind, secret) ==
    /\ entered[c] = Blank
    /\ Edit
    /\ secret # Blank => Owner[secret] = o
    /\ KindValid(kind)
    /\ LET stored == IF secret = Blank THEN None ELSE secret
       IN  /\ row' = [row EXCEPT ![c] =
                  [organization |-> o, kind |-> kind, secret |-> stored, active |-> TRUE,
                   verified |-> FALSE]]
           /\ entered' = [entered EXCEPT ![c] = stored]
    /\ UNCHANGED <<organization, binding, worker, checked, moved, recast, overlapped, replaced>>

\* The posted fields over the loaded row: blank credentials keep the stored ones.
Posted(c, o, kind, active, secret) ==
    [row[c] EXCEPT !.organization = o, !.kind = kind, !.active = active,
                   !.secret = IF secret = Blank THEN @ ELSE secret]

\* A POST loads the row, fills in the form and validates it.
PostConnection(w, c, o, kind, active, secret) ==
    /\ worker[w].at = "idle"
    /\ Exists(c)
    /\ Edit
    /\ secret # Blank => Owner[secret] = o
    /\ KindValid(kind)
    /\ Step(w, [Idle EXCEPT !.at = "saving", !.connection = c, !.entering = secret,
                    !.posted = Posted(c, o, kind, active, secret)])
    /\ UNCHANGED <<tables, history>>

\* instance.save(): every column of the copy, the row deleted meanwhile included.
SaveConnection(w) ==
    LET c == worker[w].connection  saved == worker[w].posted
    IN  /\ worker[w].at = "saving"
        /\ row' = [row EXCEPT ![c] = saved]
        /\ entered' = [entered EXCEPT ![c] =
               IF worker[w].entering = Blank THEN @ ELSE worker[w].entering]
        /\ moved' = IF row[c].organization # saved.organization THEN moved \cup {c} ELSE moved
        /\ recast' = IF row[c].kind # saved.kind THEN recast \cup {c} ELSE recast
        /\ overlapped' = overlapped \cup Overlap(w, c)
        /\ replaced' = IF Exists(c) /\ row[c].secret = saved.secret THEN replaced
                       ELSE replaced \cup {c}
        /\ Step(w, Idle)
        /\ UNCHANGED <<organization, binding, edits, checked>>

\* on_delete=PROTECT, and the foreign key behind it.
MayDelete(c) == \A pair \in DOMAIN binding : binding[pair].connection # c

DeleteConnection(c) ==
    /\ Exists(c)
    /\ Edit
    /\ MayDelete(c)
    /\ row' = [row EXCEPT ![c] = NoRow]
    /\ overlapped' = overlapped \cup Overlap(None, c)
    /\ UNCHANGED <<organization, binding, worker, entered, checked, moved, recast, replaced>>

(***************************************************************************)
(* The verify action.                                                       *)
(***************************************************************************)

\* verify_connection on the row its changelist loaded; the provider answers.
Check(w, c, works) ==
    /\ worker[w].at = "idle"
    /\ Exists(c)
    /\ works => HasCredentials(c)
    /\ Step(w, [Idle EXCEPT !.at = "checking", !.connection = c, !.posted = row[c],
                            !.works = works])
    /\ UNCHANGED <<tables, edits, history>>

\* The success stamp goes with the attempt.
Verdict_AlwaysStamps(current, loaded, works) ==
    [current EXCEPT !.verified = TRUE]

\* mark_verified without update_fields.
Verdict_SavesWholeRow(current, loaded, works) ==
    [loaded EXCEPT !.verified = works \/ @]

\* mark_verified: only its own columns, the stamp of the loaded row when it failed.
\* The message of a failure is left out.
Verdict(current, loaded, works) ==
    [current EXCEPT !.verified = works \/ loaded.verified]

\* Saving a row deleted meanwhile raises.
MarkVerified(w) ==
    LET c == worker[w].connection  loaded == worker[w].posted  works == worker[w].works
    IN  /\ worker[w].at = "checking"
        /\ row' = IF Exists(c) THEN [row EXCEPT ![c] = Verdict(@, loaded, works)] ELSE row
        /\ checked' = IF works THEN [checked EXCEPT ![c] = @ \cup {loaded.secret}] ELSE checked
        /\ replaced' = IF works /\ loaded.secret = row[c].secret THEN replaced \ {c} ELSE replaced
        /\ Step(w, Idle)
        /\ UNCHANGED <<organization, binding, edits, entered, moved, recast, overlapped>>

(***************************************************************************)
(* Bindings and events.                                                     *)
(***************************************************************************)

\* Without the two comparisons a database constraint cannot make.
BindingValid_ConfigOnly(pair, choice) == choice.complete

\* EventProviderBinding.clean.
BindingValid(pair, choice) ==
    LET c == choice.connection
    IN  /\ row[c].organization = organization[pair[1]]
        /\ row[c].kind[1] = pair[2]
        /\ choice.complete

PostBinding(w, pair, choice) ==
    /\ worker[w].at = "idle"
    /\ Edit
    /\ Exists(choice.connection)
    /\ BindingValid(pair, choice)
    /\ Step(w, [Idle EXCEPT !.at = "binding", !.connection = choice.connection,
                            !.pair = pair, !.choice = choice])
    /\ UNCHANGED <<tables, history>>

\* The foreign key refuses a connection deleted meanwhile.
SaveBinding(w) ==
    /\ worker[w].at = "binding"
    /\ binding' = IF Exists(worker[w].connection)
                  THEN [binding EXCEPT ![worker[w].pair] = worker[w].choice] ELSE binding
    /\ Step(w, Idle)
    /\ UNCHANGED <<organization, row, edits, history>>

DeleteBinding(pair) ==
    /\ binding[pair] # NoBinding
    /\ Edit
    /\ binding' = [binding EXCEPT ![pair] = NoBinding]
    /\ UNCHANGED <<organization, row, worker, history>>

\* EventAdmin, with the organization field.
MoveEvent(e, o) ==
    /\ organization[e] # o
    /\ Edit
    /\ organization' = [organization EXCEPT ![e] = o]
    /\ moved' = moved \cup {e}
    /\ UNCHANGED <<row, binding, worker, entered, checked, recast, overlapped, replaced>>

(***************************************************************************)
(* Resolution: a sync or a drain gets its adapter and keeps it.             *)
(***************************************************************************)

\* get_binding and the two checks for missing keys.
Usable(pair) ==
    LET b == binding[pair]
    IN  /\ b # NoBinding
        /\ b.active
        /\ row[b.connection].active
        /\ b.complete
        /\ HasCredentials(b.connection)

\* resolve_adapter: the adapter class is the connection's.  When the pair is not
\* usable IntegrationNotConfigured is raised and nothing happens.
ResolveAdapter(w, pair) ==
    /\ worker[w].at = "idle"
    /\ Usable(pair)
    /\ LET c == binding[pair].connection
       IN  Step(w, [Idle EXCEPT !.at = "using", !.connection = c, !.pair = pair,
                                !.kind = row[c].kind, !.secret = row[c].secret])
    /\ UNCHANGED <<tables, edits, history>>

\* The sync or the drain is over, or the process that ran a form, a check or an
\* adapter is gone.
Release(w) ==
    /\ worker[w].at # "idle"
    /\ Step(w, Idle)
    /\ UNCHANGED <<tables, edits, history>>

Next ==
    \/ \E w \in Workers :
          \/ \E c \in Postable, o \in Organizations, kind \in Kinds, active \in BOOLEAN,
                secret \in Secrets \cup {Blank} : PostConnection(w, c, o, kind, active, secret)
          \/ SaveConnection(w)
          \/ \E c \in Postable, works \in BOOLEAN : Check(w, c, works)
          \/ MarkVerified(w)
          \/ \E pair \in Bindable, choice \in Binding : PostBinding(w, pair, choice)
          \/ SaveBinding(w)
          \/ \E pair \in Bindable : ResolveAdapter(w, pair)
          \/ Release(w)
    \/ \E c \in Postable : DeleteConnection(c)
    \/ \E c \in Connections, o \in Organizations, kind \in Kinds,
          secret \in Secrets \cup {Blank} : AddConnection(c, o, kind, secret)
    \/ \E pair \in Bindable : DeleteBinding(pair)
    \/ \E e \in Events, o \in Organizations : MoveEvent(e, o)

Spec == Init /\ [][Next]_vars

(***************************************************************************)
(* Properties.                                                              *)
(***************************************************************************)

Worker == [at: {"idle", "saving", "checking", "binding", "using"},
           connection: Connections \cup {None}, posted: Row \cup {NoRow},
           entering: Secrets \cup {Blank}, pair: (Events \cup {None}) \X (Capabilities \cup {None}),
           choice: Binding \cup {NoBinding}, secret: Secrets \cup {None},
           kind: Registered \cup {<<None, None>>}, works: BOOLEAN]

\* Type correctness.  Every row's provider has an adapter for its capability.
TypeOK ==
    /\ organization \in [Events -> Organizations]
    /\ row \in [Connections -> Row \cup {NoRow}]
    /\ binding \in [Events \X Capabilities -> Binding \cup {NoBinding}]
    /\ worker \in [Workers -> Worker]
    /\ edits \in 0 .. MaxEdits
    /\ entered \in [Connections -> Secrets \cup {None, Blank}]
    /\ checked \in [Connections -> SUBSET (Secrets \cup {None})]
    /\ moved \in SUBSET (Events \cup Connections)
    /\ recast \in SUBSET Connections
    /\ overlapped \in SUBSET Connections
    /\ replaced \in SUBSET Connections

\* "Credentials are never shared across organizations": what a sync or a drain
\* holds for an event belongs to the event's organization, whatever is bound and
\* edited meanwhile, unless the event or the connection was given to another.
CredentialsStayHome ==
    \A w \in Workers : worker[w].at = "using" =>
        LET e == worker[w].pair[1]
        IN  \/ Owner[worker[w].secret] = organization[e]
            \/ moved \cap {e, worker[w].connection} # {}

\* An adapter has the capability it was asked for, unless its connection was
\* given another one after it was bound.
AdapterHasTheCapability ==
    \A w \in Workers : worker[w].at = "using" =>
        \/ worker[w].kind[1] = worker[w].pair[2]
        \/ worker[w].connection \in recast

\* "Leave blank to keep the stored credentials": the stored secret is the last
\* one entered, whatever checks run and save meanwhile, unless two forms of the
\* connection were saved over each other.
SecretIsTheLastEntered ==
    \A c \in Connections : Exists(c) =>
        row[c].secret = entered[c] \/ c \in overlapped

\* "Last time these credentials were confirmed working": a verified connection's
\* secret was found working, unless it was replaced since.
VerifiedWasChecked ==
    \A c \in Connections :
        row[c].verified => row[c].secret \in checked[c] \/ c \in replaced
=============================================================================
