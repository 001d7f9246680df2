----------------------- MODULE EnvelopeCreationProofs -----------------------
(***************************************************************************)
(* Proofs about EnvelopeCreation, for any number of clients, directories   *)
(* and starts.                                                             *)
(***************************************************************************)
EXTENDS EnvelopeCreation, TLAPS

USE TriesAssumption, NoKeyAssumption, ClientsAssumption

(* The places at which the key of a start is in its directory. *)
KeyPlaces == {"fetching", "inserting", "undoing", "detached"}

(***************************************************************************)
(* What makes the properties inductive: a start that has created a key     *)
(* still finds it, and the row is not its own before it has inserted it.   *)
(***************************************************************************)
OwnKey(c) == start[c].pc \in KeyPlaces => file[Roots[c]] = KeyOf(c) /\ row # KeyOf(c)

Bindable(c) == At(c, "binding") => row # None

(* Every creation that is under way has a number; naming an id is none. *)
Numbered ==
  \A c \in Clients :
    /\ start[c].pc \notin {"idle", "failed", "bound"} => start[c].try # 0
    /\ c \in ById => start[c].pc \in {"idle", "failed", "bound"}

NumberedInv == TypeOK /\ Numbered

(* A key file lies in the directory of its creator. *)
Housed == \A d \in Directories : file[d] # None => Roots[file[d][1]] = d

CreationInv ==
  /\ NumberedInv
  /\ Housed
  /\ \A c \in Clients : OwnKey(c) /\ Bindable(c)
  /\ RowsHaveTheirKeys
  /\ BoundClientsAgree
  /\ KeysLeftWereCutOff

(* The key of a start that has begun is a key, and names its client. *)
LEMMA KeyType ==
  ASSUME TypeOK, NEW c \in Clients, start[c].try # 0
  PROVE  /\ KeyOf(c) \in Keys /\ KeyOf(c) # None
         /\ KeyOf(c)[1] = c /\ SpecOf(KeyOf(c)) = Specs[c]
         /\ Roots[c] \in Directories
<1>1. start[c].try \in 1 .. MaxTries
  BY DEF TypeOK
<1>2. QED BY <1>1 DEF KeyOf, Keys, SpecOf, Directories

LEMMA NumberedInit == Init => NumberedInv
BY DEF Init, NumberedInv, TypeOK, Numbered, At, Places, Final

(* Types and numbers survive every step. *)
LEMMA NumberedStep ==
  NumberedInv /\ (\A c \in Clients : Bindable(c)) /\ [Next]_vars => NumberedInv'
<1> SUFFICES ASSUME NumberedInv, \A c \in Clients : Bindable(c), [Next]_vars
             PROVE  NumberedInv'
  OBVIOUS
<1> USE DEF NumberedInv, TypeOK, Numbered, At, Goto, Places, Final
<1>1. CASE UNCHANGED vars
  BY <1>1 DEF vars
<1>2. ASSUME NEW c \in Clients, Start(c) \/ CreateDirectly(c)
      PROVE  NumberedInv'
  BY <1>2 DEF Start, CreateDirectly, Begin, Ready
<1>3. ASSUME NEW c \in Clients, Check(c) \/ KeyExists(c) \/ FetchRates(c)
      PROVE  NumberedInv'
  BY <1>3 DEF Check, KeyExists, FetchRates
<1>4. ASSUME NEW c \in Clients, At(c, "keying") \/ At(c, "inserting") \/ At(c, "detached")
                                 \/ At(c, "fetching") \/ At(c, "undoing")
      PROVE  KeyOf(c) \in Keys /\ Roots[c] \in Directories
  BY <1>4, KeyType
<1>5. ASSUME NEW c \in Clients, CreateKey(c)
      PROVE  NumberedInv'
  BY <1>4, <1>5 DEF CreateKey
<1>6. ASSUME NEW c \in Clients, Insert(c) \/ SnapshotFails(c) \/ InsertDetached(c)
      PROVE  NumberedInv'
  BY <1>4, <1>6 DEF Insert, SnapshotFails, InsertDetached, Created
<1>7. ASSUME NEW c \in Clients, Undo(c)
      PROVE  NumberedInv'
  BY <1>4, <1>7 DEF Undo
<1>8. ASSUME NEW c \in Clients, Bind(c)
      PROVE  NumberedInv'
  <2>1. row \in Keys
    BY <1>8 DEF Bind, Bindable
  <2>2. row[1] \in Clients
    BY <2>1 DEF Keys
  <2>3. SpecOf(row) \in {Specs[d] : d \in Clients} /\ SpecOf(row) # None
    BY <2>2 DEF SpecOf
  <2>4. QED BY <1>8, <2>3 DEF Bind
<1>9. ASSUME NEW c \in Clients, Cut(c)
      PROVE  NumberedInv'
  BY <1>4, <1>9 DEF Cut
<1>10. ASSUME NEW c \in Clients, Close(c)
      PROVE  NumberedInv'
  BY <1>10 DEF Close
<1>11. ASSUME NEW c \in Clients, Construct(c)
      PROVE  NumberedInv'
  <2>1. CASE row = None
    BY <1>11, <2>1 DEF Construct, Ready
  <2>2. CASE row # None
    <3>1. row[1] \in Clients
      BY <2>2 DEF Keys
    <3>2. SpecOf(row) \in {Specs[d] : d \in Clients} /\ SpecOf(row) # None
      BY <3>1 DEF SpecOf
    <3>3. QED BY <1>11, <2>2, <3>2 DEF Construct, Ready
  <2>3. QED BY <2>1, <2>2
<1>12. QED
  BY <1>11, <1>1, <1>2, <1>3, <1>5, <1>6, <1>7, <1>8, <1>9, <1>10 DEF Next, StartStep

(* The key in a directory belongs to a start that is under way. *)
Pending(d) ==
  \E e \in Clients : /\ file[d] = KeyOf(e) /\ file[d][1] = e
                     /\ start[e].pc \in {"fetching", "inserting", "undoing"}

(* All of the invariant but types and numbers. *)
Rest == /\ Housed
        /\ \A d \in Clients : OwnKey(d) /\ Bindable(d)
        /\ RowsHaveTheirKeys /\ BoundClientsAgree /\ KeysLeftWereCutOff

-----------------------------------------------------------------------------
(* The directory of a key in the row, and of a start that has a key.       *)
LEMMA KeysInPlace ==
  ASSUME CreationInv
  PROVE  /\ row # None => /\ row \in Keys /\ row[1] \in Clients
                          /\ Roots[row[1]] \in Directories
                          /\ file[Roots[row[1]]] = row
         /\ \A c \in Clients : start[c].pc \in KeyPlaces =>
              /\ KeyOf(c) \in Keys /\ KeyOf(c)[1] = c
              /\ Roots[c] \in Directories
              /\ file[Roots[c]] = KeyOf(c) /\ row # KeyOf(c)
<1>1. row # None => row \in Keys /\ row[1] \in Clients
  BY DEF CreationInv, NumberedInv, TypeOK, Keys
<1>2. row # None => file[Roots[row[1]]] = row
  BY DEF CreationInv, RowsHaveTheirKeys
<1>3. ASSUME NEW c \in Clients, start[c].pc \in KeyPlaces
      PROVE  /\ KeyOf(c) \in Keys /\ KeyOf(c)[1] = c
             /\ Roots[c] \in Directories
             /\ file[Roots[c]] = KeyOf(c) /\ row # KeyOf(c)
  BY <1>3, KeyType DEF CreationInv, NumberedInv, Numbered, OwnKey, KeyPlaces
<1>4. QED BY <1>1, <1>2, <1>3 DEF Directories

(* A key file is the row's, was cut off, or belongs to a start under way.  *)
LEMMA FileCases ==
  ASSUME CreationInv, NEW d \in Directories, file[d] \notin {None, row} \cup cut
  PROVE  Pending(d)
<1>1. file[d] \in Keys
  BY DEF CreationInv, NumberedInv, TypeOK
<1>2. file[d][1] \in Clients
  BY <1>1 DEF Keys
<1>3. QED BY <1>2 DEF CreationInv, KeysLeftWereCutOff, Pending

(***************************************************************************)
(* A step of c that writes neither file nor row: it does not go where it   *)
(* would need a key that it lacks, nor leave a key behind unless it is cut.*)
(***************************************************************************)
Quiet(c) ==
  /\ file' = file /\ row' = row
  /\ \A d \in Clients \ {c} : start'[d] = start[d]
  /\ start'[c].pc \in KeyPlaces =>
       start[c].pc \in KeyPlaces /\ start'[c].try = start[c].try
  /\ start'[c].pc = "binding" => row # None
  /\ start'[c].pc = "bound" => row # None /\ start'[c].bound = SpecOf(row)
  /\ cut' = cut \/ cut' = cut \cup {KeyOf(c)}
  /\ start[c].pc \in {"fetching", "inserting", "undoing"} =>
       \/ /\ start'[c].pc \in {"fetching", "inserting", "undoing"}
          /\ start'[c].try = start[c].try
       \/ KeyOf(c) \in cut'

(* Such a step keeps the places of the keys. *)
LEMMA QuietStep ==
  ASSUME CreationInv, NEW c \in Clients, Quiet(c)
  PROVE  Rest'
<1> USE DEF Quiet
<1>1. ASSUME NEW d \in Clients
      PROVE  OwnKey(d)' /\ Bindable(d)'
  BY <1>1 DEF CreationInv, OwnKey, Bindable, KeyOf, At
<1>2. RowsHaveTheirKeys'
  BY DEF CreationInv, RowsHaveTheirKeys
<1>3. BoundClientsAgree'
  BY DEF CreationInv, BoundClientsAgree, At, SpecOf
<1>4. ASSUME NEW d \in Directories, file[d] \notin {None, row} \cup cut'
      PROVE  Pending(d)'
  <2>1. file[d] \notin {None, row} \cup cut
    BY <1>4
  <2>2. PICK e \in Clients : /\ file[d] = KeyOf(e) /\ file[d][1] = e
                            /\ start[e].pc \in {"fetching", "inserting", "undoing"}
    BY <2>1, FileCases DEF Pending
  <2>3. start'[e].pc \in {"fetching", "inserting", "undoing"} /\ start'[e].try = start[e].try
    BY <1>4, <2>2
  <2>4. QED BY <2>2, <2>3 DEF KeyOf, Pending
<1>5. KeysLeftWereCutOff'
  BY <1>4 DEF KeysLeftWereCutOff, Pending
<1>6. Housed'
  BY DEF CreationInv, Housed
<1>7. QED BY <1>1, <1>2, <1>3, <1>5, <1>6 DEF Rest

(* A new key is written only where there was none. *)
LEMMA CreateKeyKeeps ==
  ASSUME CreationInv, NEW c \in Clients, CreateKey(c)
  PROVE  Rest'
<1> USE DEF At, Goto
<1>1. /\ KeyOf(c) \in Keys /\ KeyOf(c) # None /\ KeyOf(c)[1] = c
      /\ Roots[c] \in Directories
  BY KeyType DEF CreateKey, CreationInv, NumberedInv, Numbered
<1>2. /\ file[Roots[c]] = None
      /\ file' = [file EXCEPT ![Roots[c]] = KeyOf(c)]
      /\ file \in [Directories -> Keys \cup {None}]
      /\ row' = row
      /\ start \in [Clients -> [pc : Places, try : 0 .. MaxTries,
                                bound : {Specs[e] : e \in Clients} \cup {None}]]
      /\ start'[c].try = start[c].try /\ start'[c].pc \in {"failed", "fetching"}
      /\ \A d \in Clients \ {c} : start'[d] = start[d]
      /\ cut \subseteq cut'
      /\ start'[c].pc = "failed" => KeyOf(c) \in cut'
  BY DEF CreateKey, CreationInv, NumberedInv, TypeOK
<1>3. row # KeyOf(c)
  BY <1>1, <1>2, KeysInPlace
<1>4. ASSUME NEW d \in Clients
      PROVE  OwnKey(d)' /\ Bindable(d)'
  <2>1. CASE d = c
    BY <1>1, <1>2, <1>3, <2>1 DEF OwnKey, Bindable, KeyOf
  <2>2. CASE d # c
    <3>1. start[d].pc \in KeyPlaces => Roots[d] # Roots[c] /\ Roots[d] \in Directories
      BY <1>2, KeysInPlace, NoKeyAssumption
    <3>2. QED BY <1>2, <2>2, <3>1 DEF OwnKey, Bindable, KeyOf, CreationInv
  <2>3. QED BY <2>1, <2>2
<1>5. RowsHaveTheirKeys'
  <2>1. row # None => Roots[row[1]] # Roots[c] /\ Roots[row[1]] \in Directories
    BY <1>2, KeysInPlace
  <2>2. QED BY <1>2, <2>1 DEF RowsHaveTheirKeys, CreationInv
<1>6. BoundClientsAgree'
  BY <1>2 DEF CreationInv, BoundClientsAgree, SpecOf
<1>7. ASSUME NEW d \in Directories, file'[d] \notin {None, row'} \cup cut'
      PROVE  Pending(d)'
  <2>1. CASE d = Roots[c]
    <3>1. file'[d] = KeyOf(c) /\ KeyOf(c)' = KeyOf(c)
      BY <1>1, <1>2, <2>1 DEF KeyOf
    <3>2. start'[c].pc = "fetching"
      BY <1>2, <1>7, <3>1
    <3>3. QED BY <1>1, <3>1, <3>2 DEF Pending
  <2>2. CASE d # Roots[c]
    <3>1. file[d] = file'[d] /\ file[d] \notin {None, row} \cup cut
      BY <1>2, <1>7, <2>2
    <3>2. PICK e \in Clients : /\ file[d] = KeyOf(e) /\ file[d][1] = e
                              /\ start[e].pc \in {"fetching", "inserting", "undoing"}
      BY <3>1, FileCases DEF Pending
    <3>3. e # c
      BY <3>2 DEF CreateKey
    <3>4. QED BY <1>2, <3>1, <3>2, <3>3 DEF KeyOf, Pending
  <2>3. QED BY <2>1, <2>2
<1>8. KeysLeftWereCutOff'
  BY <1>7 DEF KeysLeftWereCutOff, Pending
<1>9. Housed'
  BY <1>1, <1>2 DEF CreationInv, Housed
<1>10. QED BY <1>4, <1>5, <1>6, <1>8, <1>9 DEF Rest

(* A start deletes no key but its own, which is not the row's. *)
LEMMA UndoKeeps ==
  ASSUME CreationInv, NEW c \in Clients, Undo(c)
  PROVE  Rest'
<1> USE DEF At, Goto
<1>1. /\ KeyOf(c)[1] = c /\ Roots[c] \in Directories
      /\ file[Roots[c]] = KeyOf(c) /\ row # KeyOf(c)
  BY KeysInPlace DEF Undo, KeyPlaces
<1>2. /\ file' = [file EXCEPT ![Roots[c]] = None]
      /\ file \in [Directories -> Keys \cup {None}]
      /\ row' = row /\ cut' = cut
      /\ start'[c].pc = "failed"
      /\ \A d \in Clients \ {c} : start'[d] = start[d]
  BY DEF Undo, CreationInv, NumberedInv, TypeOK
<1>3. ASSUME NEW d \in Clients
      PROVE  OwnKey(d)' /\ Bindable(d)'
  <2>1. CASE d = c
    BY <1>2, <2>1 DEF OwnKey, Bindable, KeyPlaces
  <2>2. CASE d # c
    <3>1. start[d].pc \in KeyPlaces =>
            Roots[d] # Roots[c] /\ Roots[d] \in Directories
      BY <1>1, <2>2, KeysInPlace
    <3>2. QED BY <1>2, <2>2, <3>1 DEF OwnKey, Bindable, KeyOf, CreationInv
  <2>3. QED BY <2>1, <2>2
<1>4. RowsHaveTheirKeys'
  <2>1. row # None => Roots[row[1]] # Roots[c] /\ Roots[row[1]] \in Directories
    BY <1>1, KeysInPlace
  <2>2. QED BY <1>2, <2>1 DEF RowsHaveTheirKeys, CreationInv
<1>5. BoundClientsAgree'
  BY <1>2 DEF CreationInv, BoundClientsAgree, SpecOf
<1>6. ASSUME NEW d \in Directories, file'[d] \notin {None, row'} \cup cut'
      PROVE  Pending(d)'
  <2>1. d # Roots[c] /\ file[d] = file'[d] /\ file[d] \notin {None, row} \cup cut
    BY <1>1, <1>2, <1>6
  <2>2. PICK e \in Clients : /\ file[d] = KeyOf(e) /\ file[d][1] = e
                            /\ start[e].pc \in {"fetching", "inserting", "undoing"}
    BY <2>1, FileCases DEF Pending
  <2>3. e # c
    <3>1. Roots[e] = d
      BY <2>1, <2>2 DEF CreationInv, Housed
    <3>2. QED BY <2>1, <3>1
  <2>4. QED BY <1>2, <2>1, <2>2, <2>3 DEF KeyOf, Pending
<1>7. KeysLeftWereCutOff'
  BY <1>6 DEF KeysLeftWereCutOff, Pending
<1>8. Housed'
  BY <1>1, <1>2 DEF CreationInv, Housed
<1>9. QED BY <1>3, <1>4, <1>5, <1>7, <1>8 DEF Rest

(* The first row is that of a key in its directory; nobody is bound yet.   *)
LEMMA FirstRowKeeps ==
  ASSUME CreationInv, NEW c \in Clients, row = None, row' = KeyOf(c),
         Insert(c) \/ SnapshotFails(c) \/ InsertDetached(c)
  PROVE  Rest'
<1> USE DEF At, Goto
<1>1. start[c].pc \in KeyPlaces
  BY DEF Insert, SnapshotFails, InsertDetached, KeyPlaces
<1>2. /\ KeyOf(c) \in Keys /\ KeyOf(c)[1] = c
      /\ file[Roots[c]] = KeyOf(c)
  BY <1>1, KeysInPlace
<1>3. /\ UNCHANGED <<file, cut>>
      /\ start'[c].pc \in {"binding", "failed", "idle"}
      /\ \A d \in Clients \ {c} : start'[d] = start[d]
  BY DEF Insert, SnapshotFails, InsertDetached, Created, CreationInv, NumberedInv, TypeOK
<1>4. KeyOf(c) # None
  BY <1>2, NoKeyAssumption
<1>5. ASSUME NEW d \in Clients
      PROVE  OwnKey(d)' /\ Bindable(d)'
  <2>1. CASE d = c
    BY <1>3, <1>4, <2>1 DEF OwnKey, Bindable, KeyPlaces
  <2>2. CASE d # c
    <3>1. KeyOf(d)' # row'
      BY <1>2, <2>2 DEF KeyOf
    <3>2. QED BY <1>3, <1>4, <2>2, <3>1 DEF OwnKey, Bindable, KeyOf, CreationInv
  <2>3. QED BY <2>1, <2>2
<1>6. RowsHaveTheirKeys'
  BY <1>2, <1>3 DEF RowsHaveTheirKeys
<1>7. BoundClientsAgree'
  BY <1>3 DEF BoundClientsAgree, CreationInv
<1>8. ASSUME NEW d \in Directories, file'[d] \notin {None, row'} \cup cut'
      PROVE  Pending(d)'
  <2>1. file[d] \notin {None, row} \cup cut
    BY <1>3, <1>8
  <2>2. PICK e \in Clients : /\ file[d] = KeyOf(e) /\ file[d][1] = e
                            /\ start[e].pc \in {"fetching", "inserting", "undoing"}
    BY <2>1, FileCases DEF Pending
  <2>3. e # c
    BY <1>3, <1>8, <2>2
  <2>4. QED BY <1>3, <2>2, <2>3 DEF KeyOf, Pending
<1>9. KeysLeftWereCutOff'
  BY <1>8 DEF KeysLeftWereCutOff, Pending
<1>10. Housed'
  BY <1>3 DEF CreationInv, Housed
<1>11. QED BY <1>5, <1>6, <1>7, <1>9, <1>10 DEF Rest

(* Every step keeps the invariant. *)
LEMMA CreationStep == CreationInv /\ [Next]_vars => CreationInv'
<1> SUFFICES ASSUME CreationInv, [Next]_vars
             PROVE  CreationInv'
  OBVIOUS
<1> USE DEF At, Goto
<1>1. NumberedInv'
  BY NumberedStep DEF CreationInv
<1>2. ASSUME NEW c \in Clients
      PROVE  start[c].pc \in Places /\ start \in [Clients -> [pc : Places, try : 0 .. MaxTries,
                                bound : {Specs[e] : e \in Clients} \cup {None}]]
  BY DEF CreationInv, NumberedInv, TypeOK
<1>3. CASE UNCHANGED vars
  <2>1. QED
    BY <1>1, <1>3 DEF vars, CreationInv, Housed, OwnKey, Bindable, KeyOf, SpecOf,
                      RowsHaveTheirKeys, BoundClientsAgree, KeysLeftWereCutOff
<1>4. ASSUME NEW c \in Clients,
             \/ Start(c) \/ CreateDirectly(c) \/ Construct(c)
             \/ Check(c) \/ KeyExists(c) \/ FetchRates(c) \/ Cut(c)
      PROVE  Quiet(c)
  BY <1>2, <1>4 DEF Start, CreateDirectly, Construct, Begin, Ready, Check, KeyExists,
                    FetchRates, Cut, Quiet, KeyPlaces
<1>5. ASSUME NEW c \in Clients, Insert(c) \/ InsertDetached(c), row # None
      PROVE  Quiet(c)
  BY <1>2, <1>5 DEF Insert, InsertDetached, Quiet, KeyPlaces
<1>6. ASSUME NEW c \in Clients, Bind(c) \/ Close(c)
      PROVE  Quiet(c)
  <2>1. At(c, "binding") => row # None
    BY DEF CreationInv, Bindable
  <2>2. QED BY <1>2, <1>6, <2>1 DEF Bind, Close, Quiet, KeyPlaces
<1>7. ASSUME NEW c \in Clients, Quiet(c)
      PROVE  Rest'
  BY <1>7, QuietStep
<1>8. ASSUME NEW c \in Clients, CreateKey(c) \/ Undo(c)
      PROVE  Rest'
  BY <1>8, CreateKeyKeeps, UndoKeeps
<1>9. ASSUME NEW c \in Clients, Insert(c) \/ SnapshotFails(c) \/ InsertDetached(c)
      PROVE  Rest'
  <2>1. CASE row = None
    BY <1>9, <2>1, FirstRowKeeps DEF Insert, SnapshotFails, InsertDetached
  <2>2. CASE row # None
    BY <1>5, <1>7, <1>9, <2>2 DEF SnapshotFails
  <2>3. QED BY <2>1, <2>2
<1>10. CASE Next
  BY <1>1, <1>4, <1>6, <1>7, <1>8, <1>9, <1>10 DEF Next, StartStep, Rest, CreationInv
<1>11. QED BY <1>3, <1>10

LEMMA CreationInit == Init => CreationInv
BY NumberedInit DEF Init, CreationInv, Housed, OwnKey, Bindable, KeyPlaces, At,
   RowsHaveTheirKeys, BoundClientsAgree, KeysLeftWereCutOff

LEMMA CreationInvariant == Spec => []CreationInv
BY CreationInit, CreationStep, PTL DEF Spec

-----------------------------------------------------------------------------
(* Files, rows and calls have their types, whoever creates the envelope.   *)
THEOREM CreationTypeCorrect == Spec => []TypeOK
<1>1. CreationInv => TypeOK
  BY DEF CreationInv, NumberedInv
<1>2. QED BY <1>1, CreationInvariant, PTL

(***************************************************************************)
(* However many clients create an envelope at once, in whichever           *)
(* directories, its signing key stays where its creator wrote it.          *)
(***************************************************************************)
THEOREM SigningKeysSurvive == Spec => []RowsHaveTheirKeys
<1>1. CreationInv => RowsHaveTheirKeys
  BY DEF CreationInv
<1>2. QED BY <1>1, CreationInvariant, PTL

(* All clients that have bound an envelope agree on its terms.             *)
THEOREM TermsAreShared == Spec => []BoundClientsAgree
<1>1. CreationInv => BoundClientsAgree
  BY DEF CreationInv
<1>2. QED BY <1>1, CreationInvariant, PTL

(* Only a creation that was cut off leaves a key without an envelope.      *)
THEOREM LeftKeysAreExplained == Spec => []KeysLeftWereCutOff
<1>1. CreationInv => KeysLeftWereCutOff
  BY DEF CreationInv
<1>2. QED BY <1>1, CreationInvariant, PTL
=============================================================================
