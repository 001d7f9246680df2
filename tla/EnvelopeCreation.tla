-------------------------- MODULE EnvelopeCreation --------------------------
(***************************************************************************)
(* The creation of one envelope and the binding of clients to it:          *)
(* Routeweiler's constructor, start and envelopes.create (client.py) with  *)
(* BudgetStore.create_envelope_if_absent and create_envelope               *)
(* (budgets/local.py), and the key files of EnvelopeKeystore               *)
(* (budgets/keystore.py).  An envelope is a key file and a row, written    *)
(* one after the other and with awaits between; clients share the          *)
(* database, and most share the directory of the keys.                     *)
(***************************************************************************)
EXTENDS Naturals, FiniteSets

CONSTANTS
  Clients,      \* clients and other callers, of one process or of several
  Specs,        \* what each client says of the envelope: BudgetEnvelope
  Roots,        \* the directory in which each client keeps keys
  ById,         \* clients constructed with the envelope's id, and no spec
  Direct,       \* callers of client.envelopes.create, which bind nothing
  Unprovided,   \* callers of a BudgetStore that has no FMV provider, for l402
  MaxTries,     \* bound on the starts of one client
  None          \* no key file, no row, nothing bound

Keys == Clients \X (1 .. MaxTries)

Directories == {Roots[c] : c \in Clients}

SpecOf(key) == Specs[key[1]]

ASSUME ClientsAssumption ==
  /\ IsFiniteSet(Clients)
  /\ ById \cup Direct \cup Unprovided \subseteq Clients
  /\ ById \cap Direct = {}
ASSUME TriesAssumption == MaxTries \in Nat
ASSUME NoKeyAssumption == None \notin Keys \cup {Specs[c] : c \in Clients}

VARIABLES
  file,   \* the key file of the envelope in each directory
  row,    \* the row of table envelopes, named by its counter_public_key
  start,  \* the call of each client: its place, its number, what it has bound
  cut     \* history: the keys whose creation was cut off after they were written

vars == <<file, row, start, cut>>

Final == {"bound", "failed"}

Places == {"idle", "checking", "keying", "fetching", "inserting", "undoing",
           "detached", "binding"} \cup Final

KeyOf(c) == <<c, start[c].try>>

At(c, place) == start[c].pc = place

Goto(c, place) == start' = [start EXCEPT ![c].pc = place]

Ready(c) == start[c].pc \in {"idle", "failed"}

(* The next creation of c begins at place. *)
Begin(c, place) ==
  /\ start[c].try < MaxTries
  /\ start' = [start EXCEPT ![c].pc = place, ![c].try = @ + 1]

Init ==
  /\ file = [d \in Directories |-> None]
  /\ row = None
  /\ start = [c \in Clients |-> [pc |-> "idle", try |-> 0, bound |-> None]]
  /\ cut = {}

-----------------------------------------------------------------------------
(* Routeweiler.start of a client with a spec; again, perhaps, if it failed. *)
Start(c) ==
  /\ c \notin ById \cup Direct
  /\ Ready(c)
  /\ Begin(c, "checking")
  /\ UNCHANGED <<file, row, cut>>

(* envelopes.create goes to create_envelope without looking for the row. *)
CreateDirectly(c) ==
  /\ c \in Direct
  /\ Ready(c)
  /\ Begin(c, "keying")
  /\ UNCHANGED <<file, row, cut>>

(***************************************************************************)
(* A client is constructed with an id: the row's terms, or                 *)
(* EnvelopeNotFoundError.  The constructor awaits nothing.                 *)
(***************************************************************************)
Construct(c) ==
  /\ c \in ById
  /\ Ready(c)
  /\ IF row = None
     THEN Goto(c, "failed")
     ELSE start' = [start EXCEPT ![c].pc = "bound", ![c].bound = SpecOf(row)]
  /\ UNCHANGED <<file, row, cut>>

(***************************************************************************)
(* create_envelope_if_absent looks for the row under the lock, and goes on *)
(* to create_envelope after it has released it.                            *)
(***************************************************************************)
Check(c) ==
  /\ At(c, "checking")
  /\ Goto(c, IF row = None THEN "keying" ELSE "binding")
  /\ UNCHANGED <<file, row, cut>>

(* Mutation: whoever finds a key of the envelope removes it. *)
KeyExistsRemoving(c) ==
  /\ At(c, "keying")
  /\ file[Roots[c]] # None
  /\ file' = [file EXCEPT ![Roots[c]] = None]
  /\ Goto(c, "failed")
  /\ UNCHANGED <<row, cut>>

(* Mutation: the start is repeated until the key is gone. *)
KeyExistsRetrying(c) ==
  /\ At(c, "keying")
  /\ file[Roots[c]] # None
  /\ Goto(c, "checking")
  /\ UNCHANGED <<file, row, cut>>

(* keystore.create finds a key file, and raises KeystoreAlreadyExistsError. *)
KeyExists(c) ==
  /\ At(c, "keying")
  /\ file[Roots[c]] # None
  /\ Goto(c, "failed")
  /\ UNCHANGED <<file, row, cut>>

(***************************************************************************)
(* keystore.create writes a new key (O_EXCL).  A spec with l402 but        *)
(* without a provider for its rate raises ValueError only after that.      *)
(***************************************************************************)
CreateKey(c) ==
  /\ At(c, "keying")
  /\ file[Roots[c]] = None
  /\ file' = [file EXCEPT ![Roots[c]] = KeyOf(c)]
  /\ Goto(c, IF c \in Unprovided THEN "failed" ELSE "fetching")
  /\ cut' = IF c \in Unprovided THEN cut \cup {KeyOf(c)} ELSE cut
  /\ UNCHANGED row

(* The rates have come, or their failure has been logged. *)
FetchRates(c) ==
  /\ At(c, "fetching")
  /\ Goto(c, "inserting")
  /\ UNCHANGED <<file, row, cut>>

(* Where a creation goes that has inserted its row. *)
Created(c) == IF c \in Direct THEN "idle" ELSE "binding"

(* Mutation: the row is inserted or replaced. *)
InsertReplaces(c) ==
  /\ At(c, "inserting")
  /\ row' = KeyOf(c)
  /\ Goto(c, Created(c))
  /\ UNCHANGED <<file, cut>>

(* The INSERT, and the error of the one that comes second. *)
Insert(c) ==
  /\ At(c, "inserting")
  /\ row' = IF row = None THEN KeyOf(c) ELSE row
  /\ Goto(c, IF row = None THEN Created(c) ELSE "undoing")
  /\ UNCHANGED <<file, cut>>

(***************************************************************************)
(* The first INSERT is committed on its own, and then the upsert of the    *)
(* snapshot fails: the caller gets the error, and the row stays.           *)
(***************************************************************************)
SnapshotFails(c) ==
  /\ At(c, "inserting")
  /\ row = None
  /\ row' = KeyOf(c)
  /\ Goto(c, "failed")
  /\ UNCHANGED <<file, cut>>

(* Mutation: the key file stays. *)
UndoNothing(c) ==
  /\ At(c, "undoing")
  /\ Goto(c, "failed")
  /\ UNCHANGED <<file, row, cut>>

(* sqlite3.IntegrityError: the key file is deleted, whose ever it is. *)
Undo(c) ==
  /\ At(c, "undoing")
  /\ file' = [file EXCEPT ![Roots[c]] = None]
  /\ Goto(c, "failed")
  /\ UNCHANGED <<row, cut>>

(* start reads currency and rails from the row: bind_envelope of the flow. *)
Bind(c) ==
  /\ At(c, "binding")
  /\ start' = [start EXCEPT ![c].pc = "bound", ![c].bound = SpecOf(row)]
  /\ UNCHANGED <<file, row, cut>>

-----------------------------------------------------------------------------
(***************************************************************************)
(* The process ends, the database refuses with any other error, or the     *)
(* call is cancelled: nobody deletes the key.  A cancelled INSERT goes on  *)
(* in its thread, and nobody receives its outcome.                         *)
(***************************************************************************)
Cut(c) ==
  /\ start[c].pc \in {"fetching", "inserting", "undoing"}
  /\ \/ Goto(c, "failed")
     \/ At(c, "inserting") /\ Goto(c, "detached")
  /\ cut' = cut \cup {KeyOf(c)}
  /\ UNCHANGED <<file, row>>

InsertDetached(c) ==
  /\ At(c, "detached")
  /\ row' = IF row = None THEN KeyOf(c) ELSE row
  /\ Goto(c, "failed")
  /\ UNCHANGED <<file, cut>>

(* aclose of a bound client; a new one may be made in its place. *)
Close(c) ==
  /\ At(c, "bound")
  /\ start' = [start EXCEPT ![c].pc = "idle", ![c].bound = None]
  /\ UNCHANGED <<file, row, cut>>

StartStep(c) ==
  \/ Check(c) \/ KeyExists(c) \/ CreateKey(c) \/ FetchRates(c)
  \/ Insert(c) \/ SnapshotFails(c) \/ Undo(c) \/ InsertDetached(c) \/ Bind(c)

Next ==
  \E c \in Clients :
    \/ Start(c) \/ CreateDirectly(c) \/ Construct(c)
    \/ StartStep(c) \/ Cut(c) \/ Close(c)

Spec == Init /\ [][Next]_vars

(* What a creation awaits returns or raises; nobody has to begin one. *)
FairSpec == Spec /\ \A c \in Clients : WF_vars(StartStep(c))

-----------------------------------------------------------------------------
(***************************************************************************)
(* Type invariant: files, row and calls have their types, and a client has *)
(* bound an envelope exactly when its start or constructor has succeeded.  *)
(***************************************************************************)
TypeOK ==
  /\ file \in [Directories -> Keys \cup {None}]
  /\ row \in Keys \cup {None}
  /\ start \in [Clients -> [pc : Places, try : 0 .. MaxTries,
                            bound : {Specs[c] : c \in Clients} \cup {None}]]
  /\ \A c \in Clients : At(c, "bound") <=> start[c].bound # None
  /\ cut \subseteq Keys

(***************************************************************************)
(* The key that signs for an envelope is where its creator left it: no     *)
(* other start that finds the key, or loses the race to the row, deletes   *)
(* or overwrites it (create and delete of the keystore in create_envelope).*)
(***************************************************************************)
RowsHaveTheirKeys == row # None => file[Roots[row[1]]] = row

(***************************************************************************)
(* Clients with different specs of one envelope agree on it: what they     *)
(* have bound, by spec or by id, is what the first of them wrote, however  *)
(* their starts interleave ("an existing row is left untouched").          *)
(***************************************************************************)
BoundClientsAgree ==
  \A c \in Clients :
    At(c, "bound") => row # None /\ start[c].bound = SpecOf(row)

(***************************************************************************)
(* A key file without an envelope is left behind only by a creation that   *)
(* was cut off, or lacked its provider; one that loses the race to the row *)
(* removes what it wrote, so that its directory does not refuse the        *)
(* envelope for ever ("so the envelope can be retried", create_envelope).  *)
(***************************************************************************)
KeysLeftWereCutOff ==
  \A d \in Directories :
    \/ file[d] \in {None, row} \cup cut
    \/ LET creator == file[d][1]
       IN /\ KeyOf(creator) = file[d]
          /\ start[creator].pc \in {"fetching", "inserting", "undoing"}

(* Every creation comes to an end, with an envelope or without. *)
StartsEnd ==
  \A c \in Clients :
    start[c].pc \in {"checking", "keying"} ~> start[c].pc \in Final \cup {"idle"}
=============================================================================
