------------------------ MODULE CreationSession_proofs ------------------------
(***************************************************************************)
(* Proofs about CreationSession, for any 来源, identities, keys and bounds.   *)
(*                                                                          *)
(* The session is bounded because an upload that has stored its object        *)
(* already has its place, under the owner's row.  A confirmed 来源 stays        *)
(* because whoever is at work on a 来源, an upload, a removal, the cleanup,     *)
(* was let in while it was unconfirmed or finds it held.  A file stays because  *)
(* what the cleanup is about to collect is nobody's, unless it was overtaken.   *)
(***************************************************************************)
EXTENDS CreationSession, FiniteSetTheorems, TLAPS

\* The object an upload has stored and not yet committed.
Stored == IF upload.phase = "stored"
          THEN {<<upload.source, upload.version, upload.identity>>} ELSE {}

\* The 来源 of a first upload, before its row.
Creating == {s \in Files : /\ upload.phase = "stored" /\ upload.source = s
                           /\ row[s].status = "none"}

\* The places of the session that are taken.
Claimed == Unconfirmed \cup Creating

Room == IsFiniteSet(Claimed) /\ Cardinality(Claimed) <= MaxSources

RowSound(r) ==
    /\ r.task # None => r.status = "prepared"
    /\ r.status = "none" => r.object = 0
    /\ r.object <= r.version
RowsSound == \A s \in Sources : RowSound(row[s])

\* An upload replaces the file of an unconfirmed 来源, with its next version, or it
\* has stored the first of a 来源 that has no row; no other waits for its 来源.
UploadsSound ==
    \/ upload = NoUpload
    \/ /\ upload.source \in Files /\ upload.identity \in Identities /\ upload.version > 0
       /\ upload.phase \in {"reading", "stored"} /\ removal # upload.source
       /\ loopWaits \notin Files
       /\ \/ upload.source \in Unconfirmed /\ upload.version = row[upload.source].version + 1
          \/ /\ upload.phase = "stored" /\ upload.version = 1
             /\ row[upload.source].status = "none"

RemovalSound == removal # None => removal \in Unconfirmed

TargetSound ==
    /\ cleaner.pc = "purging" => cleaner.target \in Keys /\ task[cleaner.target] = "deleted"
    /\ cleaner.pc \in {"expiring", "expired"} =>
          cleaner.target \in Sources /\ row[cleaner.target].status # "none"

\* Nothing the cleanup is about to collect is named, or about to be.
DoomedSound == overtaken \/ cleaner.doomed \cap (Referenced \cup Stored) = {}
StoredKept == overtaken \/ Stored \subseteq objects

IInv == /\ TypeOK /\ Room /\ RowsSound /\ UploadsSound /\ RemovalSound
        /\ TargetSound /\ DoomedSound /\ StoredKept

-----------------------------------------------------------------------------
(* The places of the session. *)

LEMMA RoomShrinks ==
    ASSUME Room, Claimed' \subseteq Claimed
    PROVE  Room'
<1>1. IsFiniteSet(Claimed') /\ Cardinality(Claimed') <= Cardinality(Claimed)
  BY FS_Subset DEF Room
<1>2. Cardinality(Claimed) \in Nat /\ Cardinality(Claimed') \in Nat
  BY <1>1, FS_CardinalityType DEF Room
<1> QED
  BY <1>1, <1>2, ConstantsAssumption DEF Room

LEMMA RoomTaken ==
    ASSUME Room, HasRoom, NEW s, Claimed' \subseteq Unconfirmed \cup {s}
    PROVE  Room'
<1>1. IsFiniteSet(Unconfirmed)
  BY FS_Subset DEF Room, Claimed
<1>2. /\ IsFiniteSet(Unconfirmed \cup {s})
      /\ Cardinality(Unconfirmed \cup {s}) <= Cardinality(Unconfirmed) + 1
      /\ Cardinality(Unconfirmed) \in Nat
  BY <1>1, FS_AddElement, FS_CardinalityType
<1>3. /\ IsFiniteSet(Claimed')
      /\ Cardinality(Claimed') <= Cardinality(Unconfirmed \cup {s})
  BY <1>2, FS_Subset
<1>4. Cardinality(Claimed') \in Nat /\ Cardinality(Unconfirmed \cup {s}) \in Nat
  BY <1>2, <1>3, FS_CardinalityType
<1> QED
  BY <1>2, <1>3, <1>4, ConstantsAssumption DEF Room, HasRoom

\* Who finds the owner's row free finds every place that is taken in a row.
LEMMA FreeClaims ==
    ASSUME UploadsSound, OwnerFree
    PROVE  Claimed = Unconfirmed /\ Stored = {}
BY DEF OwnerFree, Claimed, Creating, Stored, NoUpload

LEMMA OwnerIsNoFile == Owner \notin Files
BY ConstantsAssumption DEF Sources

LEMMA NoneIsNoSource == None \notin Sources /\ None \notin Keys /\ None \notin Identities
BY ConstantsAssumption

-----------------------------------------------------------------------------
(* One row is written and everything else is left alone. *)

\* The row before and after, as its handlers leave it.
Writes(s, r) ==
    /\ row' = [row EXCEPT ![s] = r]
    /\ row[s].task = None /\ r.task = None
    /\ r.status \in {"processing", "prepared", "failure"}
    /\ r.object <= r.version
    /\ r.object # 0 => r.object = row[s].object /\ r.identity = row[s].identity

LEMMA WrittenNames ==
    ASSUME TypeOK, NEW s \in Sources, NEW r \in Rows, Writes(s, r)
    PROVE  /\ \A x \in Sources : Named(x)' = Named(x) \/ Named(x)' = {}
           /\ Referenced' \subseteq Referenced
<1>1. ASSUME NEW x \in Sources PROVE Named(x)' = Named(x) \/ Named(x)' = {}
  <2>1. CASE x = s
    BY <2>1 DEF TypeOK, Writes, Named
  <2>2. CASE x # s
    BY <2>2 DEF TypeOK, Writes, Named
  <2> QED
    BY <2>1, <2>2
<1>2. Referenced' \subseteq Referenced
  BY <1>1 DEF Referenced
<1> QED
  BY <1>1, <1>2

\* No upload and no removal is at work on it.
Alone(s) == upload.source # s /\ removal # s

LEMMA FreeIsAlone == ASSUME NEW s, SourceFree(s) PROVE Alone(s)
BY DEF SourceFree, Alone

LEMMA WrittenKeeps ==
    ASSUME IInv, NEW s \in Sources, NEW r \in Rows, Writes(s, r), Alone(s),
           s \in Unconfirmed \/ HasRoom,
           UNCHANGED <<objects, upload, loopWaits, refused, removal, task, cleaner, overtaken>>
    PROVE  IInv'
<1>1. TypeOK'
  BY DEF IInv, TypeOK, Writes
<1>2. /\ row'[s] = r /\ \A x \in Sources \ {s} : row'[x] = row[x]
      /\ Stored' = Stored
  BY DEF IInv, TypeOK, Writes, Stored
<1>3. Room'
  <2>1. Claimed' \subseteq Claimed \cup {s} /\ s \in Claimed'
    BY <1>2 DEF Writes, Claimed, Creating, Unconfirmed, Exists
  <2>2. CASE s \in Unconfirmed
    BY <2>1, <2>2, RoomShrinks DEF IInv, Claimed
  <2>3. CASE HasRoom
    BY <2>1, <2>3, RoomTaken, FreeClaims DEF IInv, HasRoom
  <2> QED
    BY <2>2, <2>3
<1>4. RowsSound'
  BY <1>2 DEF IInv, RowsSound, RowSound, Writes
<1>5. UploadsSound'
  BY <1>2 DEF IInv, UploadsSound, Alone, Unconfirmed, Exists, Sources
<1>6. RemovalSound'
  BY <1>2 DEF IInv, RemovalSound, Alone, Unconfirmed, Exists
<1>7. TargetSound'
  BY <1>2 DEF IInv, TargetSound, Writes
<1>8. DoomedSound' /\ StoredKept'
  BY <1>2, WrittenNames DEF IInv, DoomedSound, StoredKept
<1> QED
  BY <1>1, <1>3, <1>4, <1>5, <1>6, <1>7, <1>8 DEF IInv

-----------------------------------------------------------------------------
(* Pasted and URL 来源, and what all kinds have in common. *)

\* Who has the owner's row, or finds the 来源 unconfirmed, has the 来源 to itself.
LEMMA NewIsFree ==
    ASSUME IInv, NEW s \in Sources, row[s].status = "none", OwnerFree
    PROVE  Alone(s) /\ row[s].task = None
BY NoneIsNoSource
   DEF IInv, RemovalSound, RowsSound, RowSound, Alone, Unconfirmed, Exists, OwnerFree, NoUpload

LEMMA CreatedKeeps ==
    ASSUME IInv, NEW s \in Sources, NEW st \in {"processing", "prepared"},
           NEW identity \in Identities, row[s].status = "none", HasRoom,
           New(s, st, identity, 0),
           UNCHANGED <<objects, upload, loopWaits, refused, removal, task, cleaner, overtaken>>
    PROVE  /\ IInv'
           /\ \E r \in Rows : Writes(s, r)
<1> DEFINE r == [status |-> st, version |-> 1, identity |-> identity, object |-> 0,
                 task |-> None]
<1>1. r \in Rows
  BY ConstantsAssumption DEF Rows
<1>2. Alone(s) /\ row[s].task = None
  BY NewIsFree DEF HasRoom
<1>3. Writes(s, r)
  BY <1>2 DEF Writes, New
<1>4. IInv'
  BY <1>1, <1>2, <1>3, WrittenKeeps
<1> QED
  BY <1>1, <1>3, <1>4

LEMMA ReplacedKeeps ==
    ASSUME IInv, NEW s \in Unconfirmed, NEW st \in {"processing", "prepared"},
           NEW identity \in Identities, row[s].version < MaxVersion, Alone(s),
           Replaced(s, st, identity, 0),
           UNCHANGED <<objects, upload, loopWaits, refused, removal, task, cleaner, overtaken>>
    PROVE  /\ IInv'
           /\ \E r \in Rows : Writes(s, r)
<1> DEFINE r == [status |-> st, version |-> row[s].version + 1, identity |-> identity,
                 object |-> 0, task |-> row[s].task]
<1>1. s \in Sources /\ row[s] \in Rows /\ row[s].task = None
  BY DEF IInv, TypeOK, Unconfirmed
<1>2. r \in Rows
  BY <1>1, ConstantsAssumption DEF Rows
<1>3. row' = [row EXCEPT ![s] = r]
  <2>1. /\ row' \in [Sources -> Rows] /\ row'[s] = r
        /\ \A x \in Sources \ {s} : row'[x] = row[x]
    BY <1>1, <1>2 DEF Replaced, IInv, TypeOK, Rows
  <2> QED
    BY <1>1, <2>1 DEF IInv, TypeOK
<1>4. Writes(s, r)
  BY <1>1, <1>3, ConstantsAssumption DEF Writes, Rows
<1>5. IInv'
  BY <1>1, <1>2, <1>4, WrittenKeeps
<1> QED
  BY <1>2, <1>4, <1>5

\* A handler that leaves the input of its 来源 as it is.
LEMMA MovedKeeps ==
    ASSUME IInv, NEW s \in Sources, Exists(s), row[s].task = None, Alone(s),
           NEW r \in Rows, row' = [row EXCEPT ![s] = r],
           r.status \in {"processing", "prepared", "failure"}, r.task = None,
           r.object = row[s].object, r.identity = row[s].identity,
           r.version >= row[s].version,
           UNCHANGED <<objects, upload, loopWaits, refused, removal, task, cleaner, overtaken>>
    PROVE  IInv' /\ Writes(s, r)
<1>1. row[s] \in Rows /\ RowSound(row[s])
  BY DEF IInv, TypeOK, RowsSound
<1>2. Writes(s, r)
  BY <1>1 DEF Writes, RowSound, Rows
<1>3. IInv'
  BY <1>2, WrittenKeeps DEF Unconfirmed
<1> QED
  BY <1>2, <1>3

\* Every handler of this part writes the row of one 来源, unconfirmed or new.
LEMMA AddingKeeps ==
    ASSUME IInv, Adding
    PROVE  /\ IInv'
           /\ \E s \in Sources, r \in Rows : Writes(s, r)
           /\ UNCHANGED <<objects, removal, task, cleaner, overtaken>>
<1>1. ASSUME NEW s \in Pasted, NEW i \in Identities, CreatePasted(s, i)
      PROVE  IInv' /\ \E r \in Rows : Writes(s, r)
  BY <1>1, CreatedKeeps DEF CreatePasted, Sources
<1>2. ASSUME NEW s \in Pasted, NEW i \in Identities, EditPasted(s, i)
      PROVE  IInv' /\ \E r \in Rows : Writes(s, r)
  BY <1>2, ReplacedKeeps, FreeIsAlone DEF EditPasted
<1>3. ASSUME NEW s \in Urls, NEW i \in Identities, CreateUrl(s, i)
      PROVE  IInv' /\ \E r \in Rows : Writes(s, r)
  BY <1>3, CreatedKeeps DEF CreateUrl, Sources
<1>4. ASSUME NEW s \in Urls, NEW i \in Identities, ReplaceUrl(s, i)
      PROVE  IInv' /\ \E r \in Rows : Writes(s, r)
  BY <1>4, ReplacedKeeps, FreeIsAlone DEF ReplaceUrl
<1>5. ASSUME NEW s \in Urls \cup Files, Retry(s)
      PROVE  IInv' /\ \E r \in Rows : Writes(s, r)
  <2> DEFINE r == [row[s] EXCEPT !.status = "processing"]
  <2>1. s \in Sources /\ Exists(s) /\ row[s].task = None /\ row[s] \in Rows
    BY <1>5 DEF Retry, Unconfirmed, IInv, TypeOK
  <2>2. r \in Rows /\ r.version >= row[s].version /\ row' = [row EXCEPT ![s] = r]
    BY <1>5, <2>1, ConstantsAssumption DEF Rows, Retry, IInv, TypeOK
  <2>3. /\ r.status = "processing" /\ r.task = row[s].task
        /\ r.object = row[s].object /\ r.identity = row[s].identity
    BY <2>1 DEF Rows
  <2> QED
    BY <1>5, <2>1, <2>2, <2>3, MovedKeeps, FreeIsAlone DEF Retry
<1>6. ASSUME NEW s \in Urls \cup Files, EditContent(s)
      PROVE  IInv' /\ \E r \in Rows : Writes(s, r)
  <2> DEFINE r == [row[s] EXCEPT !.version = @ + 1]
  <2>1. /\ s \in Sources /\ Exists(s) /\ row[s].task = None /\ row[s] \in Rows
        /\ row[s].status = "prepared"
    BY <1>6 DEF EditContent, Unconfirmed, IInv, TypeOK
  <2>2. r \in Rows /\ r.version >= row[s].version /\ row' = [row EXCEPT ![s] = r]
    BY <1>6, <2>1, ConstantsAssumption DEF Rows, EditContent, IInv, TypeOK
  <2>3. /\ r.status = "prepared" /\ r.task = row[s].task
        /\ r.object = row[s].object /\ r.identity = row[s].identity
    BY <2>1 DEF Rows
  <2> QED
    BY <1>6, <2>1, <2>2, <2>3, MovedKeeps, FreeIsAlone DEF EditContent
<1>7. ASSUME NEW s \in Urls \cup Files, CaptureEnds(s)
      PROVE  IInv' /\ \E r \in Rows : Writes(s, r)
  <2>1. PICK outcome \in {"prepared", "failure"} : row' = [row EXCEPT ![s].status = outcome]
    BY <1>7 DEF CaptureEnds
  <2> DEFINE r == [row[s] EXCEPT !.status = outcome]
  <2>2. s \in Sources /\ Exists(s) /\ row[s].task = None /\ row[s] \in Rows
    BY <1>7 DEF CaptureEnds, Exists, Sources, IInv, TypeOK, RowsSound, RowSound
  <2>3. r \in Rows /\ r.version >= row[s].version /\ row' = [row EXCEPT ![s] = r]
    BY <2>1, <2>2, ConstantsAssumption DEF Rows, IInv, TypeOK
  <2>4. /\ r.status \in {"prepared", "failure"} /\ r.task = row[s].task
        /\ r.object = row[s].object /\ r.identity = row[s].identity
    BY <2>2 DEF Rows
  <2> QED
    BY <1>7, <2>2, <2>3, <2>4, MovedKeeps, FreeIsAlone DEF CaptureEnds
<1>8. UNCHANGED <<objects, removal, task, cleaner, overtaken>>
  BY DEF Adding, CreatePasted, EditPasted, CreateUrl, ReplaceUrl, Retry, EditContent, CaptureEnds
<1> QED
  BY <1>1, <1>2, <1>3, <1>4, <1>5, <1>6, <1>7, <1>8 DEF Adding, Sources

-----------------------------------------------------------------------------
(* Uploads. *)

\* What names an object while no row is written.
LEMMA SameRowsSameNames ==
    ASSUME UNCHANGED row
    PROVE  /\ \A x \in Sources : Named(x)' = Named(x)
           /\ Referenced' = Referenced /\ Unconfirmed' = Unconfirmed
BY DEF Referenced, Named, Unconfirmed, Exists

\* An upload at work knows its 来源 and its object.
LEMMA UploadTyped ==
    ASSUME IInv, upload # NoUpload
    PROVE  /\ upload.source \in Files /\ upload.source \in Sources
           /\ upload.version \in 1 .. MaxVersion /\ upload.identity \in Identities
           /\ removal # upload.source
           /\ <<upload.source, upload.version, upload.identity>> \in Objects
<1>1. /\ upload.source \in Files /\ upload.source \in Sources
      /\ upload.version \in 1 .. MaxVersion /\ upload.identity \in Identities
      /\ removal # upload.source
  BY ConstantsAssumption DEF IInv, TypeOK, UploadsSound, Sources
<1> QED
  BY <1>1 DEF Objects

\* The bucket takes an object: none that the cleanup has doomed, unless it was overtaken.
LEMMA PutKeeps ==
    ASSUME IInv, NEW o \in Objects, Put(o)
    PROVE  /\ objects' \subseteq Objects /\ overtaken' \in BOOLEAN
           /\ overtaken' \/ (~ overtaken /\ o \notin cleaner.doomed)
           /\ o \in objects' /\ objects \subseteq objects'
<1>1. objects \subseteq Objects /\ overtaken \in BOOLEAN
  BY DEF IInv, TypeOK
<1>2. overtaken' = (overtaken \/ o \in cleaner.doomed) /\ objects' = objects \cup {o}
  BY DEF Put
<1>3. overtaken' \in BOOLEAN /\ (overtaken' \/ (~ overtaken /\ o \notin cleaner.doomed))
  BY <1>1, <1>2, Zenon
<1> QED
  BY <1>1, <1>2, <1>3

LEMMA CreateFileStoresKeeps ==
    ASSUME IInv, NEW s \in Files, NEW i \in Identities, CreateFileStores(s, i)
    PROVE  IInv'
<1>1. s \in Sources /\ row[s].status = "none" /\ OwnerFree /\ HasRoom
  BY DEF CreateFileStores, HasRoom, Sources
<1>2. Alone(s) /\ loopWaits \notin Files
  BY <1>1, NewIsFree DEF OwnerFree
<1>3. <<s, 1, i>> \in Objects /\ 1 \in 0 .. MaxVersion
  BY ConstantsAssumption DEF Objects
<1>4. /\ objects' \subseteq Objects /\ overtaken' \in BOOLEAN
      /\ overtaken' \/ (~ overtaken /\ <<s, 1, i>> \notin cleaner.doomed)
      /\ <<s, 1, i>> \in objects'
  BY <1>3, PutKeeps DEF CreateFileStores
<1>5. /\ upload'.source = s /\ upload'.version = 1 /\ upload'.identity = i
      /\ upload'.phase = "stored" /\ UNCHANGED <<row, loopWaits, refused, removal, task, cleaner>>
  BY DEF CreateFileStores
<1>6. Referenced' = Referenced /\ Unconfirmed' = Unconfirmed
  BY <1>5, SameRowsSameNames
<1>7. TypeOK'
  BY <1>3, <1>4, <1>5 DEF IInv, TypeOK, CreateFileStores
<1>8. Room'
  <2>1. Claimed' \subseteq Unconfirmed \cup {s}
    BY <1>5, <1>6 DEF Claimed, Creating
  <2> QED
    BY <1>1, <2>1, RoomTaken DEF IInv
<1>9. UploadsSound'
  BY <1>1, <1>2, <1>5 DEF UploadsSound, Alone
<1>10. Stored' = {<<s, 1, i>>}
  BY <1>5 DEF Stored
<1>11. DoomedSound' /\ StoredKept'
  BY <1>4, <1>5, <1>6, <1>10 DEF IInv, DoomedSound, StoredKept
<1>12. RowsSound' /\ RemovalSound' /\ TargetSound'
  BY <1>5, <1>6 DEF IInv, RowsSound, RemovalSound, TargetSound
<1> QED
  BY <1>7, <1>8, <1>9, <1>11, <1>12 DEF IInv

\* The row of an upload that commits: it names the object that was stored.
CommitsUpload(r) ==
    /\ r \in Rows
    /\ row' = [row EXCEPT ![upload.source] = r]
    /\ r.status = "processing" /\ r.task = None /\ r.version = upload.version
    /\ r.object = upload.version /\ r.identity = upload.identity

LEMMA CreateFileCommitsRow ==
    ASSUME IInv, CreateFileCommits
    PROVE  /\ \E r : CommitsUpload(r)
           /\ row[upload.source].task = None
<1>1. upload # NoUpload
  BY DEF CreateFileCommits, NoUpload
<1>2. row[upload.source].status = "none" /\ upload.source \in Sources
  BY <1>1, UploadTyped DEF CreateFileCommits
<1>3. upload.version = 1
  BY <1>1, <1>2 DEF IInv, UploadsSound, Unconfirmed, Exists
<1>4. row[upload.source].task = None
  BY <1>2 DEF IInv, RowsSound, RowSound
<1> DEFINE r == [status |-> "processing", version |-> 1, identity |-> upload.identity,
                 object |-> 1, task |-> None]
<1>5. r \in Rows
  BY <1>1, UploadTyped, ConstantsAssumption DEF Rows
<1>6. CommitsUpload(r)
  BY <1>3, <1>5 DEF CommitsUpload, CreateFileCommits, New
<1> QED
  BY <1>4, <1>6

LEMMA ReplaceFileCommitsRow ==
    ASSUME IInv, ReplaceFileCommits
    PROVE  /\ \E r : CommitsUpload(r)
           /\ row[upload.source].task = None
<1>1. upload # NoUpload
  BY DEF ReplaceFileCommits, NoUpload
<1>2. Exists(upload.source) /\ upload.source \in Sources
  BY <1>1, UploadTyped DEF ReplaceFileCommits
<1>3. upload.source \in Unconfirmed /\ upload.version = row[upload.source].version + 1
  BY <1>1, <1>2 DEF IInv, UploadsSound, Exists
<1>4. row[upload.source].task = None /\ row[upload.source] \in Rows
  BY <1>2, <1>3 DEF Unconfirmed, IInv, TypeOK
<1> DEFINE r == [status |-> "processing", version |-> row[upload.source].version + 1,
                 identity |-> upload.identity, object |-> upload.version,
                 task |-> row[upload.source].task]
<1>5. r \in Rows
  BY <1>1, <1>3, <1>4, UploadTyped, ConstantsAssumption DEF Rows
<1>6. /\ row' \in [Sources -> Rows] /\ row'[upload.source] = r
      /\ \A x \in Sources \ {upload.source} : row'[x] = row[x]
  BY <1>2, <1>4, <1>5 DEF ReplaceFileCommits, Replaced, IInv, TypeOK, Rows
<1>7. row' = [row EXCEPT ![upload.source] = r]
  BY <1>2, <1>6 DEF IInv, TypeOK
<1>8. CommitsUpload(r)
  BY <1>3, <1>4, <1>5, <1>7 DEF CommitsUpload
<1> QED
  BY <1>4, <1>8

LEMMA UploadCommitsKeeps ==
    ASSUME IInv, upload.phase = "stored", NEW r, CommitsUpload(r),
           row[upload.source].task = None, upload' = NoUpload,
           UNCHANGED <<objects, loopWaits, refused, removal, task, cleaner, overtaken>>
    PROVE  /\ IInv'
           /\ \A x \in Sources : Named(x)' = Named(x) \/ Named(x)' = Stored
<1>1. upload # NoUpload
  BY DEF NoUpload
<1>s. PICK s \in Sources : s = upload.source
  BY <1>1, UploadTyped
<1>2. s \in Sources /\ s \in Files /\ removal # s /\ upload.version \in 1 .. MaxVersion
  BY <1>1, <1>s, UploadTyped
<1>3. /\ row'[s] = r /\ \A x \in Sources \ {s} : row'[x] = row[x]
      /\ r \in Rows /\ row' \in [Sources -> Rows]
  BY <1>2, <1>s DEF CommitsUpload, IInv, TypeOK
<1>4. Stored' = {} /\ Stored = {<<s, upload.version, upload.identity>>}
  BY <1>s DEF Stored, NoUpload
<1>5. TypeOK'
  BY <1>3, ConstantsAssumption DEF IInv, TypeOK, NoUpload
<1>6. s \in Claimed
  BY <1>1, <1>2, <1>s DEF IInv, UploadsSound, Claimed, Creating
<1>7. Claimed' \subseteq Claimed
  BY <1>3, <1>6, <1>s DEF Claimed, Creating, Unconfirmed, Exists, NoUpload
<1>8. Room'
  BY <1>7, RoomShrinks DEF IInv
<1>9. RowsSound'
  <2>1. RowSound(r)
    BY <1>2, <1>s DEF RowSound, CommitsUpload
  <2> QED
    BY <1>2, <1>3, <2>1 DEF IInv, RowsSound
<1>10. UploadsSound'
  BY DEF UploadsSound
<1>11. RemovalSound'
  BY <1>2, <1>3 DEF IInv, RemovalSound, Unconfirmed, Exists
<1>12. TargetSound'
  BY <1>3 DEF IInv, TargetSound, CommitsUpload
<1>n. \A x \in Sources : Named(x)' = Named(x) \/ Named(x)' = Stored
  <2>1. Named(s)' = Stored
    BY <1>2, <1>3, <1>4, <1>s DEF Named, CommitsUpload
  <2>2. \A x \in Sources : x # s => Named(x)' = Named(x)
    BY <1>3 DEF Named
  <2> QED
    BY <2>1, <2>2
<1>13. Referenced' \subseteq Referenced \cup Stored
  BY <1>n DEF Referenced
<1>14. DoomedSound' /\ StoredKept'
  BY <1>4, <1>13 DEF IInv, DoomedSound, StoredKept
<1> QED
  BY <1>5, <1>8, <1>9, <1>10, <1>11, <1>12, <1>14, <1>n DEF IInv

\* An upload that has found its 来源, alone, and the owner's row free.
LEMMA ReadsKeeps ==
    ASSUME IInv, NEW s \in Files, NEW i \in Identities, Reads(s, i), upload = NoUpload,
           SourceFree(s), loopWaits' = None,
           UNCHANGED <<row, objects, refused, removal, task, cleaner, overtaken>>
    PROVE  IInv'
<1>1. /\ s \in Sources /\ s \in Unconfirmed
      /\ row[s].version \in 0 .. MaxVersion /\ row[s].version < MaxVersion
  BY DEF Reads, Replaceable, Sources, IInv, TypeOK, Rows
<1>2. row[s].version + 1 \in 1 .. MaxVersion
  BY <1>1, ConstantsAssumption
<1>3. /\ upload'.source = s /\ upload'.version = row[s].version + 1 /\ upload'.identity = i
      /\ upload'.phase = "reading" /\ UNCHANGED <<row, objects, removal, task, cleaner, overtaken>>
  BY DEF Reads
<1>4. Referenced' = Referenced /\ Unconfirmed' = Unconfirmed /\ Stored' = {}
  BY <1>3, SameRowsSameNames DEF Stored
<1>5. TypeOK'
  BY <1>2, <1>3 DEF IInv, TypeOK, Reads
<1>6. Room'
  <2>1. Claimed' \subseteq Claimed
    BY <1>3, <1>4 DEF Claimed, Creating
  <2> QED
    BY <2>1, RoomShrinks DEF IInv
<1>7. UploadsSound'
  BY <1>1, <1>2, <1>3, <1>4, NoneIsNoSource DEF UploadsSound, SourceFree, Sources
<1>8. RowsSound' /\ RemovalSound' /\ TargetSound' /\ DoomedSound' /\ StoredKept'
  BY <1>3, <1>4 DEF IInv, RowsSound, RemovalSound, TargetSound, DoomedSound, StoredKept
<1> QED
  BY <1>5, <1>6, <1>7, <1>8 DEF IInv

LEMMA ReplaceFileReadsKeeps ==
    ASSUME IInv, NEW s \in Files, NEW i \in Identities, ReplaceFileReads(s, i)
    PROVE  IInv'
BY ReadsKeeps DEF ReplaceFileReads, OwnerFree, IInv, TypeOK

\* What is waited for and who is refused is nothing that the invariant speaks of.
LEMMA WaitingKeeps ==
    ASSUME IInv, loopWaits' \in Files \cup {Owner, None},
           loopWaits' \in Files => upload = NoUpload,
           refused' \subseteq SUBSET (Sources \cup {Owner}),
           UNCHANGED <<row, objects, upload, removal, task, cleaner, overtaken>>
    PROVE  IInv'
<1>1. /\ Referenced' = Referenced /\ Unconfirmed' = Unconfirmed
      /\ Stored' = Stored /\ Creating' = Creating
  BY SameRowsSameNames DEF Stored, Creating
<1>2. TypeOK'
  BY DEF IInv, TypeOK
<1> QED
  BY <1>1, <1>2 DEF IInv, Room, Claimed, RowsSound, UploadsSound, RemovalSound, TargetSound,
     DoomedSound, StoredKept

\* While the event loop waits for a 来源, no upload has got further.
LEMMA ReplaceFileGoesOnKeeps ==
    ASSUME IInv, ReplaceFileGoesOn
    PROVE  IInv'
<1>1. CASE UNCHANGED upload
  BY <1>1, WaitingKeeps, NoneIsNoSource DEF ReplaceFileGoesOn, IInv, TypeOK, Sources
<1>2. ASSUME NEW s \in Files, s = loopWaits, NEW i \in Identities, Reads(s, i)
      PROVE  IInv'
  BY <1>2, ReadsKeeps DEF ReplaceFileGoesOn, IInv, UploadsSound
<1> QED
  BY <1>1, <1>2 DEF ReplaceFileGoesOn

LEMMA RefusingKeeps ==
    ASSUME IInv, Refusing
    PROVE  IInv' /\ row' = row /\ objects' = objects
<1>1. ASSUME NEW rows \in Lockable, Refuse(rows) PROVE IInv'
  <2>1. rows \subseteq Sources \cup {Owner}
    BY <1>1 DEF Lockable, Unconfirmed
  <2>2. refused' \subseteq SUBSET (Sources \cup {Owner}) /\ loopWaits' \in Files \cup {Owner, None}
        /\ (loopWaits' \in Files => upload = NoUpload)
    BY <1>1, <2>1 DEF Refuse, IInv, TypeOK, UploadsSound
  <2> QED
    BY <1>1, <2>2, WaitingKeeps DEF Refuse
<1>2. ASSUME NEW r \in Sources \cup {Owner}, RefusedExits(r) PROVE IInv'
  <2>1. refused' \subseteq SUBSET (Sources \cup {Owner}) /\ loopWaits' \in Files \cup {Owner, None}
        /\ (loopWaits' \in Files => upload = NoUpload)
    BY <1>2 DEF RefusedExits, IInv, TypeOK, UploadsSound
  <2> QED
    BY <1>2, <2>1, WaitingKeeps DEF RefusedExits
<1>3. row' = row /\ objects' = objects
  BY DEF Refusing, Refuse, RefusedExits
<1> QED
  BY <1>1, <1>2, <1>3 DEF Refusing

LEMMA ReplaceFileStoresKeeps ==
    ASSUME IInv, ReplaceFileStores
    PROVE  IInv' /\ row' = row /\ objects \subseteq objects'
<1>1. upload # NoUpload /\ UNCHANGED <<row, loopWaits, refused, removal, task, cleaner>>
  BY DEF ReplaceFileStores, NoUpload
<1>s. PICK s \in Files : s = upload.source
  BY <1>1, UploadTyped
<1>o. PICK o \in Objects : o = <<upload.source, upload.version, upload.identity>>
  BY <1>1, UploadTyped
<1>2. Referenced' = Referenced /\ Unconfirmed' = Unconfirmed
  BY <1>1, SameRowsSameNames
<1>3. /\ upload.phase = "reading" /\ s \in Unconfirmed /\ removal # s
      /\ upload.version = row[s].version + 1 /\ upload.version > 0 /\ upload.identity \in Identities
      /\ loopWaits \notin Files
  BY <1>1, <1>s DEF ReplaceFileStores, IInv, UploadsSound
<1>4. RowsSound' /\ RemovalSound' /\ TargetSound'
  BY <1>1, <1>2 DEF IInv, RowsSound, RemovalSound, TargetSound
<1>5. CASE upload' = NoUpload /\ UNCHANGED <<objects, overtaken>>
  <2>1. Stored' = {} /\ Creating' = {}
    BY <1>5 DEF Stored, Creating, NoUpload
  <2>2. TypeOK'
    BY <1>1, <1>5, ConstantsAssumption DEF IInv, TypeOK, NoUpload
  <2>3. Room'
    BY <1>2, <2>1, RoomShrinks DEF IInv, Claimed
  <2>4. UploadsSound' /\ DoomedSound' /\ StoredKept'
    BY <1>1, <1>2, <1>5, <2>1 DEF IInv, UploadsSound, DoomedSound, StoredKept
  <2> QED
    BY <1>1, <1>4, <1>5, <2>2, <2>3, <2>4 DEF IInv
<1>6. CASE Put(o) /\ upload' = [upload EXCEPT !.phase = "stored"]
  <2>1. /\ objects' \subseteq Objects /\ overtaken' \in BOOLEAN
        /\ overtaken' \/ (~ overtaken /\ o \notin cleaner.doomed)
        /\ o \in objects' /\ objects \subseteq objects'
    BY <1>6, PutKeeps
  <2>2. TypeOK'
    BY <1>1, <1>6, <2>1 DEF IInv, TypeOK
  <2>3. /\ upload'.source = s /\ upload'.version = upload.version
        /\ upload'.identity = upload.identity /\ upload'.phase = "stored"
    BY <1>6, <1>s DEF IInv, TypeOK
  <2>4. Stored' = {o}
    BY <2>3, <1>o, <1>s DEF Stored
  <2>5. Creating' = {}
    BY <1>1, <1>3, <2>3 DEF Creating, Unconfirmed, Exists
  <2>6. Room'
    BY <1>2, <2>5, RoomShrinks DEF IInv, Claimed
  <2>7. UploadsSound'
    BY <1>1, <1>2, <1>3, <2>3 DEF UploadsSound
  <2>8. DoomedSound' /\ StoredKept'
    BY <1>1, <1>2, <2>1, <2>4 DEF IInv, DoomedSound, StoredKept
  <2> QED
    BY <1>1, <1>4, <2>1, <2>2, <2>6, <2>7, <2>8 DEF IInv
<1> QED
  BY <1>5, <1>6, <1>o DEF ReplaceFileStores

-----------------------------------------------------------------------------
(* Rows that go. *)

Goes(gone) == row' = [s \in Sources |-> IF s \in gone THEN Removed ELSE row[s]]

LEMMA GoneRows ==
    ASSUME IInv, NEW gone \in SUBSET Sources, Goes(gone)
    PROVE  /\ row' \in [Sources -> Rows] /\ RowsSound'
           /\ \A s \in gone : row'[s] = Removed
           /\ \A s \in Sources \ gone : row'[s] = row[s]
           /\ Unconfirmed' = Unconfirmed \ gone
           /\ \A s \in Sources : row[s].status # "none" => row'[s].status # "none"
           /\ \A s \in Sources : Named(s)' = Named(s) \/ Named(s)' = {}
           /\ Referenced' \subseteq Referenced
<1>1. /\ Removed \in Rows /\ RowSound(Removed) /\ Removed.status = "removed"
      /\ Removed.object = 0
  BY ConstantsAssumption DEF Removed, NoRow, Rows, RowSound
<1>2. /\ row' \in [Sources -> Rows]
      /\ \A s \in gone : row'[s] = Removed
      /\ \A s \in Sources \ gone : row'[s] = row[s]
  BY <1>1 DEF IInv, TypeOK, Goes
<1>3. RowsSound'
  BY <1>1, <1>2 DEF IInv, RowsSound
<1>4. Unconfirmed' = Unconfirmed \ gone
  BY <1>1, <1>2 DEF Unconfirmed, Exists
<1>5. \A s \in Sources : row[s].status # "none" => row'[s].status # "none"
  BY <1>1, <1>2
<1>6. \A s \in Sources : Named(s)' = Named(s) \/ Named(s)' = {}
  BY <1>1, <1>2 DEF Named
<1>7. Referenced' \subseteq Referenced
  BY <1>6 DEF Referenced
<1> QED
  BY <1>2, <1>3, <1>4, <1>5, <1>6, <1>7

\* One row goes.
LEMMA OneGoes ==
    ASSUME IInv, NEW s \in Sources, row' = [row EXCEPT ![s] = Removed]
    PROVE  Goes({s})
BY DEF Goes, IInv, TypeOK

LEMMA NoneGoes ==
    ASSUME IInv, row' = row
    PROVE  Goes({})
BY DEF Goes, IInv, TypeOK

LEMMA CreateFileCollidesKeeps ==
    ASSUME IInv, CreateFileCollides
    PROVE  /\ IInv'
           /\ \E gone \in SUBSET Sources : Goes(gone) /\ \A s \in gone : row[s].task = None
           /\ \A x \in Sources : Named(x) \cap objects \subseteq objects'
<1>1. upload # NoUpload
  BY DEF CreateFileCollides, NoUpload
<1>s. PICK s \in Sources : s = upload.source
  BY <1>1, UploadTyped
<1>2. /\ row[s].status = "none" /\ row' = [row EXCEPT ![s] = Removed]
      /\ objects' = objects \ Stored /\ upload' = NoUpload
      /\ Stored = {<<s, upload.version, upload.identity>>}
      /\ UNCHANGED <<loopWaits, refused, removal, task, cleaner, overtaken>>
  BY <1>s DEF CreateFileCollides, Stored
<1>3. Goes({s}) /\ row[s].task = None
  BY <1>2, OneGoes DEF IInv, RowsSound, RowSound
<1>4. /\ row' \in [Sources -> Rows] /\ RowsSound' /\ Unconfirmed' = Unconfirmed \ {s}
      /\ \A x \in Sources : row[x].status # "none" => row'[x].status # "none"
      /\ Referenced' \subseteq Referenced
  BY <1>3, GoneRows
<1>5. Stored' = {} /\ Creating' = {}
  BY <1>2 DEF Stored, Creating, NoUpload
<1>6. TypeOK'
  BY <1>2, <1>4, ConstantsAssumption DEF IInv, TypeOK, NoUpload
<1>7. Room'
  <2>1. Claimed' \subseteq Claimed
    BY <1>4, <1>5 DEF Claimed
  <2> QED
    BY <2>1, RoomShrinks DEF IInv
<1>8. UploadsSound' /\ TargetSound'
  BY <1>2, <1>4 DEF IInv, UploadsSound, TargetSound
<1>9. RemovalSound'
  BY <1>2, <1>4 DEF IInv, RemovalSound, Unconfirmed, Exists
<1>10. DoomedSound' /\ StoredKept'
  BY <1>2, <1>4, <1>5 DEF IInv, DoomedSound, StoredKept
<1>11. row[s].object = 0
  BY <1>2 DEF IInv, RowsSound, RowSound
<1>12. \A x \in Sources : Named(x) \cap objects \subseteq objects'
  BY <1>2, <1>11 DEF Named
<1> QED
  BY <1>3, <1>4, <1>6, <1>7, <1>8, <1>9, <1>10, <1>12 DEF IInv

LEMMA ApiGoneKeeps ==
    ASSUME IInv, ApiGone
    PROVE  /\ IInv'
           /\ \E gone \in SUBSET Sources : Goes(gone) /\ \A s \in gone : row[s].task = None
<1>1. PICK gone \in SUBSET Sources : Goes(gone) /\ \A s \in gone : row[s].task = None
  <2>1. CASE upload # NoUpload /\ ~ Exists(upload.source)
    <3>1. upload.source \in Sources
      BY <2>1, UploadTyped
    <3>2. row[upload.source].task = None
      BY <2>1, <3>1 DEF IInv, RowsSound, RowSound, Exists
    <3>3. Goes({upload.source})
      BY <2>1, <3>1, OneGoes DEF ApiGone
    <3> QED
      BY <3>1, <3>2, <3>3
  <2>2. CASE ~ (upload # NoUpload /\ ~ Exists(upload.source))
    BY <2>2, NoneGoes DEF ApiGone
  <2> QED
    BY <2>1, <2>2
<1>2. /\ upload' = NoUpload /\ removal' = None /\ loopWaits' = None /\ refused' = {}
      /\ UNCHANGED <<objects, task, cleaner, overtaken>>
  BY DEF ApiGone
<1>3. Stored' = {} /\ Creating' = {}
  BY <1>2 DEF Stored, Creating, NoUpload
<1>4. TypeOK'
  <2>1. row' \in [Sources -> Rows]
    BY <1>1, GoneRows
  <2>2. upload' \in [source : Files \cup {None}, version : 0 .. MaxVersion,
                     identity : Identities \cup {None}, phase : {"none", "reading", "stored"}]
    BY <1>2, ConstantsAssumption DEF NoUpload
  <2>3. /\ loopWaits' \in Files \cup {Owner, None} /\ removal' \in Sources \cup {None}
        /\ refused' \subseteq SUBSET (Sources \cup {Owner})
    BY <1>2
  <2> QED
    BY <1>2, <2>1, <2>2, <2>3 DEF IInv, TypeOK
<1>5. Room'
  <2>1. Claimed' \subseteq Claimed
    BY <1>1, <1>3, GoneRows DEF Claimed
  <2> QED
    BY <2>1, RoomShrinks DEF IInv
<1>6. UploadsSound' /\ RemovalSound'
  BY <1>2 DEF UploadsSound, RemovalSound
<1>7. TargetSound'
  BY <1>1, <1>2, GoneRows DEF IInv, TargetSound
<1>8. DoomedSound' /\ StoredKept' /\ RowsSound'
  BY <1>1, <1>2, <1>3, GoneRows DEF IInv, DoomedSound, StoredKept
<1> QED
  BY <1>1, <1>4, <1>5, <1>6, <1>7, <1>8 DEF IInv

\* Every step of an upload, and the death of the API in the middle of it.
LEMMA UploadingKeeps ==
    ASSUME IInv, Uploading
    PROVE  IInv'
<1>1. ASSUME NEW s \in Files, NEW i \in Identities, CreateFileStores(s, i) PROVE IInv'
  BY <1>1, CreateFileStoresKeeps
<1>2. ASSUME NEW s \in Files, NEW i \in Identities, ReplaceFileReads(s, i) PROVE IInv'
  BY <1>2, ReplaceFileReadsKeeps
<1>3. CASE CreateFileCommits
  <2>1. upload.phase = "stored" /\ upload' = NoUpload
        /\ UNCHANGED <<objects, loopWaits, refused, removal, task, cleaner, overtaken>>
    BY <1>3 DEF CreateFileCommits
  <2> QED
    BY <1>3, <2>1, CreateFileCommitsRow, UploadCommitsKeeps
<1>4. CASE ReplaceFileStores
  BY <1>4, ReplaceFileStoresKeeps
<1>5. CASE ReplaceFileCommits
  <2>1. upload.phase = "stored" /\ upload' = NoUpload
        /\ UNCHANGED <<objects, loopWaits, refused, removal, task, cleaner, overtaken>>
    BY <1>5 DEF ReplaceFileCommits
  <2> QED
    BY <1>5, <2>1, ReplaceFileCommitsRow, UploadCommitsKeeps
<1>6. CASE UploadArrives
  BY <1>6, WaitingKeeps, OwnerIsNoFile DEF UploadArrives, IInv, TypeOK
<1>7. CASE ApiDies
  BY <1>7, ApiGoneKeeps DEF ApiDies
<1>8. CASE HungApiRestarts
  BY <1>8, ApiGoneKeeps DEF HungApiRestarts
<1>9. ASSUME NEW s \in Files, ReplaceFileWaits(s) PROVE IInv'
  BY <1>9, WaitingKeeps DEF ReplaceFileWaits, OwnerFree, IInv, TypeOK
<1>10. CASE CreateFileCollides
  BY <1>10, CreateFileCollidesKeeps
<1>11. CASE ReplaceFileGoesOn
  BY <1>11, ReplaceFileGoesOnKeeps
<1> QED
  BY <1>1, <1>2, <1>3, <1>4, <1>5, <1>6, <1>7, <1>8, <1>9, <1>10, <1>11 DEF Uploading

-----------------------------------------------------------------------------
(* Deletion of a 来源, confirmation, deletion of the task. *)

\* What one 来源 names is not what an upload of another has stored, nor what that names.
LEMMA NamesApart ==
    ASSUME NEW s
    PROVE  /\ \A x : x # s => Named(x) \cap Named(s) = {}
           /\ upload.source # s => Stored \cap Named(s) = {}
BY DEF Named, Stored

LEMMA DeleteForgetsKeeps ==
    ASSUME IInv, NEW s \in Sources, DeleteForgets(s)
    PROVE  IInv'
<1>1. /\ s \in Unconfirmed /\ upload.source # s /\ removal' = s /\ objects' = objects \ Named(s)
      /\ UNCHANGED <<row, upload, loopWaits, refused, task, cleaner, overtaken>>
  BY DEF DeleteForgets, SourceFree
<1>2. /\ Referenced' = Referenced /\ Unconfirmed' = Unconfirmed
      /\ Stored' = Stored /\ Creating' = Creating
  BY <1>1, SameRowsSameNames DEF Stored, Creating
<1>3. TypeOK'
  BY <1>1 DEF IInv, TypeOK
<1>4. UploadsSound'
  BY <1>1, <1>2 DEF IInv, UploadsSound
<1>5. StoredKept'
  BY <1>1, <1>2, NamesApart DEF IInv, StoredKept
<1> QED
  BY <1>1, <1>2, <1>3, <1>4, <1>5 DEF IInv, Room, Claimed, RowsSound, RemovalSound, TargetSound,
     DoomedSound

LEMMA DeleteCommitsKeeps ==
    ASSUME IInv, DeleteCommits
    PROVE  /\ IInv'
           /\ \E gone \in SUBSET Sources : Goes(gone) /\ \A s \in gone : row[s].task = None
<1>s. PICK s \in Sources : s = removal /\ s \in Unconfirmed
  BY DEF DeleteCommits, IInv, RemovalSound, Unconfirmed
<1>1. /\ row' = [row EXCEPT ![s] = Removed] /\ removal' = None
      /\ UNCHANGED <<objects, upload, loopWaits, refused, task, cleaner, overtaken>>
  BY <1>s DEF DeleteCommits
<1>2. Goes({s}) /\ row[s].task = None
  BY <1>1, <1>s, OneGoes DEF Unconfirmed
<1>3. /\ row' \in [Sources -> Rows] /\ RowsSound' /\ Unconfirmed' = Unconfirmed \ {s}
      /\ \A x \in Sources \ {s} : row'[x] = row[x]
      /\ \A x \in Sources : row[x].status # "none" => row'[x].status # "none"
      /\ Referenced' \subseteq Referenced
  BY <1>2, GoneRows
<1>4. Stored' = Stored /\ Creating' \subseteq Creating
  <2>1. s \notin Creating'
    BY <1>s, <1>3 DEF Creating, Unconfirmed, Exists
  <2> QED
    BY <1>1, <1>3, <2>1 DEF Stored, Creating, Sources
<1>5. TypeOK'
  BY <1>1, <1>3 DEF IInv, TypeOK
<1>6. Room'
  <2>1. Claimed' \subseteq Claimed
    BY <1>3, <1>4 DEF Claimed
  <2> QED
    BY <2>1, RoomShrinks DEF IInv
<1>7. UploadsSound'
  <2>1. CASE upload = NoUpload
    BY <1>1, <2>1 DEF UploadsSound
  <2>2. CASE upload # NoUpload
    <3>1. upload.source \in Sources \ {s}
      BY <1>s, <2>2, UploadTyped
    <3>2. upload.source # None
      BY <3>1, NoneIsNoSource
    <3> QED
      BY <1>1, <1>3, <3>1, <3>2, <2>2 DEF IInv, UploadsSound
  <2> QED
    BY <2>1, <2>2
<1>8. RemovalSound' /\ TargetSound'
  BY <1>1, <1>3 DEF IInv, RemovalSound, TargetSound
<1>9. DoomedSound' /\ StoredKept'
  BY <1>1, <1>3, <1>4 DEF IInv, DoomedSound, StoredKept
<1> QED
  BY <1>2, <1>3, <1>5, <1>6, <1>7, <1>8, <1>9 DEF IInv

LEMMA ConfirmKeeps ==
    ASSUME IInv, NEW k \in Keys, Confirm(k)
    PROVE  /\ IInv'
           /\ \A s \in Sources : row[s].task # None => row'[s] = row[s]
           /\ \A s \in Sources : Named(s)' = Named(s)
<1>1. PICK sources \in SUBSET Sources :
        /\ Confirmable(sources)
        /\ row' = [s \in Sources |-> IF s \in sources THEN [row[s] EXCEPT !.task = k] ELSE row[s]]
  BY DEF Confirm
<1>2. /\ sources = Unconfirmed
      /\ \A s \in sources : row[s].status = "prepared" /\ removal # s
  BY <1>1 DEF Confirmable, SourceFree
<1>3. /\ upload = NoUpload /\ task[k] \in {"none", "purged"} /\ task' = [task EXCEPT ![k] = "live"]
      /\ UNCHANGED <<objects, upload, loopWaits, refused, removal, cleaner, overtaken>>
  BY DEF Confirm, OwnerFree, KeyUnused
<1>4. removal = None
  BY <1>2 DEF IInv, RemovalSound
<1>5. \A s \in sources : /\ row'[s] \in Rows /\ row'[s].task = k /\ row'[s].status = "prepared"
                         /\ row'[s].object = row[s].object /\ row'[s].identity = row[s].identity
                         /\ row'[s].version = row[s].version
  <2> TAKE s \in sources
  <2>1. row[s] \in Rows /\ row'[s] = [row[s] EXCEPT !.task = k]
    BY <1>1 DEF IInv, TypeOK
  <2> QED
    BY <1>2, <2>1 DEF Rows
<1>6. \A s \in Sources \ sources : row'[s] = row[s]
  BY <1>1
<1>7. row' \in [Sources -> Rows]
  <2>1. \A s \in Sources : row'[s] \in Rows
    BY <1>5, <1>6 DEF IInv, TypeOK
  <2> QED
    BY <1>1, <2>1
<1>8. \A s \in Sources : Named(s)' = Named(s)
  BY <1>5, <1>6 DEF Named
<1>9. Referenced' = Referenced
  BY <1>8 DEF Referenced
<1>10. Unconfirmed' = {}
  BY <1>2, <1>5, <1>6, NoneIsNoSource DEF Unconfirmed, Exists
<1>11. Stored = {} /\ Stored' = {} /\ Creating' = {}
  BY <1>3 DEF Stored, Creating, NoUpload
<1>12. TypeOK'
  BY <1>3, <1>7 DEF IInv, TypeOK
<1>13. Room'
  BY <1>10, <1>11, RoomShrinks DEF IInv, Claimed
<1>14. RowsSound'
  <2>1. \A s \in Sources : RowSound(row'[s])
    BY <1>5, <1>6 DEF IInv, RowsSound, RowSound
  <2> QED
    BY <2>1 DEF RowsSound
<1>15. UploadsSound' /\ RemovalSound'
  BY <1>3, <1>4 DEF UploadsSound, RemovalSound
<1>16. TargetSound'
  <2>1. cleaner.pc = "purging" => cleaner.target # k
    BY <1>3 DEF IInv, TargetSound
  <2>2. \A s \in Sources : row[s].status # "none" => row'[s].status # "none"
    BY <1>5, <1>6
  <2> QED
    BY <1>3, <2>1, <2>2 DEF IInv, TypeOK, TargetSound
<1>17. DoomedSound' /\ StoredKept'
  BY <1>3, <1>9, <1>11 DEF IInv, DoomedSound, StoredKept
<1>18. \A s \in Sources : row[s].task # None => row'[s] = row[s]
  BY <1>2, <1>6 DEF Unconfirmed
<1> QED
  BY <1>8, <1>12, <1>13, <1>14, <1>15, <1>16, <1>17, <1>18 DEF IInv

LEMMA DeleteTaskKeeps ==
    ASSUME IInv, NEW k \in Keys, DeleteTask(k)
    PROVE  IInv'
<1>1. /\ task[k] = "live" /\ task' = [task EXCEPT ![k] = "deleted"]
      /\ UNCHANGED <<row, objects, upload, loopWaits, refused, removal, cleaner, overtaken>>
  BY DEF DeleteTask
<1>2. /\ Referenced' = Referenced /\ Unconfirmed' = Unconfirmed
      /\ Stored' = Stored /\ Creating' = Creating
  BY <1>1, SameRowsSameNames DEF Stored, Creating
<1>3. TypeOK' /\ TargetSound'
  BY <1>1 DEF IInv, TypeOK, TargetSound
<1> QED
  BY <1>1, <1>2, <1>3 DEF IInv, Room, Claimed, RowsSound, UploadsSound, RemovalSound, DoomedSound,
     StoredKept

\* Every step of a removal, of a confirmation and of the deletion of a task.
LEMMA ConfirmingKeeps ==
    ASSUME IInv, Confirming
    PROVE  IInv'
<1>1. ASSUME NEW s \in Sources, DeleteForgets(s) PROVE IInv'
  BY <1>1, DeleteForgetsKeeps
<1>2. CASE DeleteCommits
  BY <1>2, DeleteCommitsKeeps
<1>3. ASSUME NEW k \in Keys, Confirm(k) PROVE IInv'
  BY <1>3, ConfirmKeeps
<1>4. ASSUME NEW k \in Keys, DeleteTask(k) PROVE IInv'
  BY <1>4, DeleteTaskKeeps
<1> QED
  BY <1>1, <1>2, <1>3, <1>4 DEF Confirming

-----------------------------------------------------------------------------
(* The cleanup. *)

\* The steps of the cleanup that write no row leave everything but the cleanup itself
\* and the objects as it was.
LEMMA CleanerAlone ==
    ASSUME IInv, UNCHANGED <<row, upload, loopWaits, refused, removal, task>>,
           objects' \subseteq objects, overtaken' \in BOOLEAN, overtaken => overtaken',
           TypeOK', TargetSound', DoomedSound', StoredKept'
    PROVE  IInv'
<1>1. /\ Referenced' = Referenced /\ Unconfirmed' = Unconfirmed /\ Creating' = Creating
  BY SameRowsSameNames DEF Creating
<1> QED
  BY <1>1 DEF IInv, Room, Claimed, RowsSound, UploadsSound, RemovalSound

\* A cleanup that has read nothing.
LEMMA IdleCleaner ==
    /\ NoCleanup \in [pc : {"idle", "expiring", "expired", "purging", "collecting"},
                      target : Sources \cup Keys \cup {None}, seen : Rows, doomed : SUBSET Objects]
    /\ NoCleanup.pc = "idle" /\ NoCleanup.doomed = {} /\ NoCleanup.target = None
BY ConstantsAssumption DEF NoCleanup, NoRow, Rows

LEMMA ExpireJudgesKeeps ==
    ASSUME IInv, NEW s \in Sources, ExpireJudges(s)
    PROVE  IInv'
<1>1. /\ s \in Unconfirmed /\ row[s] \in Rows
      /\ cleaner' = [NoCleanup EXCEPT !.pc = "expiring", !.target = s, !.seen = row[s]]
      /\ UNCHANGED <<row, objects, upload, loopWaits, refused, removal, task, overtaken>>
  BY DEF ExpireJudges, IInv, TypeOK
<1>2. /\ cleaner' \in [pc : {"idle", "expiring", "expired", "purging", "collecting"},
                    target : Sources \cup Keys \cup {None}, seen : Rows, doomed : SUBSET Objects]
      /\ cleaner'.pc = "expiring" /\ cleaner'.target = s /\ cleaner'.doomed = {}
  BY <1>1, IdleCleaner DEF IInv
<1>3. TypeOK'
  BY <1>1, <1>2 DEF IInv, TypeOK
<1>4. TargetSound'
  BY <1>1, <1>2 DEF TargetSound, Unconfirmed, Exists
<1>5. Stored' = Stored /\ DoomedSound' /\ StoredKept'
  BY <1>1, <1>2 DEF IInv, Stored, DoomedSound, StoredKept
<1> QED
  BY <1>1, <1>3, <1>4, <1>5, CleanerAlone DEF IInv, TypeOK

\* What an expiry has judged is not what an upload of the same 来源 stores.
LEMMA ForgottenIsNotStored ==
    ASSUME IInv, cleaner.pc = "expiring", row[cleaner.target] = cleaner.seen,
           cleaner.seen.object # 0
    PROVE  <<cleaner.target, cleaner.seen.object, cleaner.seen.identity>> \notin Stored
<1>1. SUFFICES ASSUME upload.phase = "stored", upload.source = cleaner.target,
                      upload.version = cleaner.seen.object
               PROVE  FALSE
  BY DEF Stored
<1>2. upload # NoUpload /\ cleaner.target \in Sources /\ row[upload.source].status # "none"
  BY <1>1 DEF NoUpload, IInv, TargetSound
<1>3. upload.version = row[upload.source].version + 1
  BY <1>2 DEF IInv, UploadsSound
<1>4. /\ row[upload.source].object <= row[upload.source].version
      /\ row[upload.source].object \in Nat /\ row[upload.source].version \in Nat
  BY <1>1, <1>2 DEF IInv, RowsSound, RowSound, TypeOK, Rows
<1>5. upload.version = row[upload.source].object
  BY <1>1
<1> QED
  BY <1>3, <1>4, <1>5

LEMMA ExpireForgetsKeeps ==
    ASSUME IInv, ExpireForgets
    PROVE  /\ IInv' /\ cleaner'.target = cleaner.target /\ cleaner.target \in Sources
           /\ UNCHANGED <<row, upload, loopWaits, refused, removal, task>>
           /\ \A o \in objects : o[1] # cleaner.target => o \in objects'
<1> DEFINE gone == IF cleaner.seen.object = 0 THEN {}
                   ELSE {<<cleaner.target, cleaner.seen.object, cleaner.seen.identity>>}
<1>1. /\ cleaner.pc = "expiring" /\ objects' = objects \ gone
      /\ overtaken' = (overtaken \/ row[cleaner.target] # cleaner.seen)
      /\ cleaner' = [cleaner EXCEPT !.pc = "expired"]
      /\ UNCHANGED <<row, upload, loopWaits, refused, removal, task>>
  BY DEF ExpireForgets
<1>g. gone = {} \/ gone = {<<cleaner.target, cleaner.seen.object, cleaner.seen.identity>>}
  OBVIOUS
<1>2. /\ cleaner' \in [pc : {"idle", "expiring", "expired", "purging", "collecting"},
                    target : Sources \cup Keys \cup {None}, seen : Rows, doomed : SUBSET Objects]
      /\ cleaner'.pc = "expired" /\ cleaner'.target = cleaner.target
      /\ cleaner'.doomed = cleaner.doomed
  BY <1>1 DEF IInv, TypeOK
<1>3. cleaner.target \in Sources /\ row[cleaner.target].status # "none"
  BY <1>1 DEF IInv, TargetSound
<1>4. overtaken' \in BOOLEAN /\ (overtaken => overtaken')
      /\ (overtaken' \/ row[cleaner.target] = cleaner.seen)
  <2>1. overtaken \in BOOLEAN
    BY DEF IInv, TypeOK
  <2> QED
    BY <1>1, <2>1, Zenon
<1>5. TypeOK'
  BY <1>1, <1>2, <1>4 DEF IInv, TypeOK
<1>6. TargetSound'
  BY <1>1, <1>2, <1>3 DEF TargetSound
<1>7. DoomedSound'
  <2>1. Stored' = Stored /\ Referenced' = Referenced
    BY <1>1, SameRowsSameNames DEF Stored
  <2> QED
    BY <1>2, <1>4, <2>1 DEF IInv, DoomedSound
<1>8. StoredKept'
  <2>1. CASE overtaken'
    BY <2>1 DEF StoredKept
  <2>2. CASE ~ overtaken'
    <3>1. Stored' = Stored /\ Stored \subseteq objects
      BY <1>1, <1>4, <2>2 DEF Stored, IInv, StoredKept
    <3>2. gone \cap Stored = {}
      BY <1>1, <1>4, <2>2, ForgottenIsNotStored
    <3> QED
      BY <1>1, <3>1, <3>2 DEF StoredKept
  <2> QED
    BY <2>1, <2>2
<1>9. \A o \in objects : o[1] # cleaner.target => o \in objects'
  BY <1>1, <1>g
<1>10. IInv'
  BY <1>1, <1>4, <1>5, <1>6, <1>7, <1>8, CleanerAlone
<1> QED
  BY <1>1, <1>2, <1>3, <1>9, <1>10

LEMMA ExpireCommitsKeeps ==
    ASSUME IInv, ExpireCommits
    PROVE  /\ IInv' /\ objects' = objects
           /\ \E gone \in SUBSET Sources : Goes(gone) /\ \A s \in gone : row[s].task = None
<1>s. PICK s \in Sources : s = cleaner.target
  BY DEF ExpireCommits, IInv, TargetSound
<1>1. /\ upload.source # s /\ removal # s
      /\ row' = IF Exists(s) /\ ~ Held(s) THEN [row EXCEPT ![s] = Removed] ELSE row
      /\ overtaken' = (overtaken \/ row[s] # cleaner.seen)
      /\ cleaner' = NoCleanup /\ UNCHANGED <<objects, upload, loopWaits, refused, removal, task>>
  BY <1>s DEF ExpireCommits, SourceFree
<1>2. PICK gone \in SUBSET {s} : Goes(gone) /\ \A x \in gone : row[x].task = None
  <2>1. CASE Exists(s) /\ ~ Held(s)
    <3>1. Goes({s}) /\ row[s].task = None
      BY <1>1, <2>1, OneGoes DEF Held
    <3> QED
      BY <3>1
  <2>2. CASE ~ (Exists(s) /\ ~ Held(s))
    BY <1>1, <2>2, NoneGoes
  <2> QED
    BY <2>1, <2>2
<1>3. /\ row' \in [Sources -> Rows] /\ RowsSound' /\ Unconfirmed' = Unconfirmed \ gone
      /\ \A x \in Sources \ gone : row'[x] = row[x]
      /\ \A x \in Sources : row[x].status # "none" => row'[x].status # "none"
      /\ Referenced' \subseteq Referenced
  BY <1>2, GoneRows
<1>4. overtaken' \in BOOLEAN /\ (overtaken => overtaken')
  <2>1. overtaken \in BOOLEAN
    BY DEF IInv, TypeOK
  <2> QED
    BY <1>1, <2>1, Zenon
<1>5. Stored' = Stored /\ Creating' \subseteq Creating
  BY <1>1, <1>2, <1>3 DEF Stored, Creating, Sources
<1>6. TypeOK'
  BY <1>1, <1>3, <1>4, IdleCleaner DEF IInv, TypeOK
<1>7. Room'
  <2>1. Claimed' \subseteq Claimed
    BY <1>3, <1>5 DEF Claimed
  <2> QED
    BY <2>1, RoomShrinks DEF IInv
<1>8. UploadsSound'
  <2>1. CASE upload = NoUpload
    BY <1>1, <2>1 DEF UploadsSound
  <2>2. CASE upload # NoUpload
    <3>1. upload.source \in Sources \ gone
      BY <1>1, <1>2, <2>2, UploadTyped
    <3> QED
      BY <1>1, <1>3, <3>1, <2>2 DEF IInv, UploadsSound
  <2> QED
    BY <2>1, <2>2
<1>9. RemovalSound' /\ TargetSound'
  BY <1>1, <1>2, <1>3, IdleCleaner DEF IInv, RemovalSound, TargetSound
<1>10. DoomedSound' /\ StoredKept'
  BY <1>1, <1>4, <1>5, IdleCleaner DEF IInv, DoomedSound, StoredKept
<1> QED
  BY <1>1, <1>2, <1>3, <1>6, <1>7, <1>8, <1>9, <1>10 DEF IInv

\* A deleted task's objects are not those of an upload: that one's 来源 is unconfirmed.
LEMMA PurgeForgetsKeeps ==
    ASSUME IInv, NEW k \in Keys, PurgeForgets(k)
    PROVE  /\ IInv' /\ row' = row /\ cleaner'.target = k
           /\ \A s \in Sources : row[s].task # k => Named(s) \cap objects \subseteq objects'
<1> DEFINE its == {s \in Sources : row[s].task = k}
<1>1. /\ task[k] = "deleted" /\ objects' = objects \ UNION {Named(s) : s \in its}
      /\ cleaner' = [NoCleanup EXCEPT !.pc = "purging", !.target = k]
      /\ UNCHANGED <<row, upload, loopWaits, refused, removal, task, overtaken>>
  BY DEF PurgeForgets
<1>2. /\ cleaner' \in [pc : {"idle", "expiring", "expired", "purging", "collecting"},
                    target : Sources \cup Keys \cup {None}, seen : Rows, doomed : SUBSET Objects]
      /\ cleaner'.pc = "purging" /\ cleaner'.target = k /\ cleaner'.doomed = {}
  BY <1>1, IdleCleaner DEF IInv
<1>3. TypeOK' /\ TargetSound'
  BY <1>1, <1>2 DEF IInv, TypeOK, TargetSound
<1>4. Stored' = Stored /\ DoomedSound'
  BY <1>1, <1>2 DEF Stored, DoomedSound
<1>5. upload.source \notin its
  <2>1. CASE upload = NoUpload
    BY <2>1, NoneIsNoSource DEF NoUpload
  <2>2. CASE upload # NoUpload
    BY <2>2, NoneIsNoSource DEF IInv, UploadsSound, Unconfirmed, RowsSound, RowSound
  <2> QED
    BY <2>1, <2>2
<1>6. \A s \in its : Stored \cap Named(s) = {}
  BY <1>5, NamesApart
<1>7. StoredKept'
  BY <1>1, <1>4, <1>6 DEF IInv, StoredKept
<1>8. ASSUME NEW s \in Sources, row[s].task # k
      PROVE  Named(s) \cap objects \subseteq objects'
  <2>1. \A x \in its : Named(s) \cap Named(x) = {}
    BY <1>8, NamesApart
  <2> QED
    BY <1>1, <2>1
<1>9. IInv'
  BY <1>1, <1>3, <1>4, <1>7, CleanerAlone DEF IInv, TypeOK
<1> QED
  BY <1>1, <1>2, <1>8, <1>9

LEMMA PurgeCommitsKeeps ==
    ASSUME IInv, PurgeCommits
    PROVE  /\ IInv' /\ objects' = objects
           /\ \E gone \in SUBSET Sources :
                /\ Goes(gone)
                /\ \A s \in gone : task[row[s].task] = "deleted" /\ task'[row[s].task] = "purged"
<1>k. PICK k \in Keys : k = cleaner.target /\ task[k] = "deleted"
  BY DEF PurgeCommits, IInv, TargetSound
<1> DEFINE gone == {s \in Sources : row[s].task = k}
<1>1. /\ Goes(gone) /\ task' = [task EXCEPT ![k] = "purged"]
      /\ cleaner' = NoCleanup /\ UNCHANGED <<objects, upload, loopWaits, refused, removal, overtaken>>
  BY <1>k DEF PurgeCommits, Goes
<1>g. gone \in SUBSET Sources /\ gone \cap Unconfirmed = {}
  BY NoneIsNoSource DEF Unconfirmed
<1>2. /\ row' \in [Sources -> Rows] /\ RowsSound' /\ Unconfirmed' = Unconfirmed \ gone
      /\ \A x \in Sources \ gone : row'[x] = row[x]
      /\ \A x \in Sources : row[x].status # "none" => row'[x].status # "none"
      /\ \A x \in gone : row'[x] = Removed
      /\ Referenced' \subseteq Referenced
  BY <1>1, <1>g, GoneRows
<1>3. Stored' = Stored /\ Creating' \subseteq Creating
  <2>1. \A x \in Sources : row'[x].status = "none" => row[x].status = "none"
    BY <1>2 DEF Removed, NoRow
  <2> QED
    BY <1>1, <2>1 DEF Stored, Creating, Sources
<1>4. TypeOK'
  BY <1>1, <1>2, IdleCleaner DEF IInv, TypeOK
<1>5. Room'
  <2>1. Claimed' \subseteq Claimed
    BY <1>2, <1>3 DEF Claimed
  <2> QED
    BY <2>1, RoomShrinks DEF IInv
<1>6. UploadsSound'
  <2>1. CASE upload = NoUpload
    BY <1>1, <2>1 DEF UploadsSound
  <2>2. CASE upload # NoUpload
    <3>1. upload.source \in Sources \ gone
      BY <2>2, UploadTyped, NoneIsNoSource DEF IInv, UploadsSound, Unconfirmed, RowsSound, RowSound
    <3> QED
      BY <1>1, <1>2, <3>1, <2>2 DEF IInv, UploadsSound
  <2> QED
    BY <2>1, <2>2
<1>7. RemovalSound' /\ TargetSound'
  BY <1>1, <1>2, <1>g, IdleCleaner DEF IInv, RemovalSound, TargetSound
<1>8. DoomedSound' /\ StoredKept'
  BY <1>1, <1>2, <1>3, IdleCleaner DEF IInv, DoomedSound, StoredKept
<1>9. \A s \in gone : task[row[s].task] = "deleted" /\ task'[row[s].task] = "purged"
  BY <1>1, <1>k DEF IInv, TypeOK
<1>10. IInv'
  BY <1>2, <1>4, <1>5, <1>6, <1>7, <1>8 DEF IInv
<1> QED
  BY <1>1, <1>9, <1>10, <1>g

LEMMA CollectReadsKeeps == IInv /\ CollectReads => IInv'
<1> SUFFICES ASSUME IInv, CollectReads PROVE IInv'
  OBVIOUS
<1>1. /\ cleaner' = [NoCleanup EXCEPT !.pc = "collecting", !.doomed = Orphans]
      /\ UNCHANGED <<row, objects, upload, loopWaits, refused, removal, task, overtaken>>
  BY DEF CollectReads
<1>2. Orphans \subseteq Objects /\ Orphans \cap (Referenced \cup Stored) = {}
  BY DEF Orphans, Young, Stored, NoUpload, IInv, TypeOK
<1>3. /\ cleaner' \in [pc : {"idle", "expiring", "expired", "purging", "collecting"},
                    target : Sources \cup Keys \cup {None}, seen : Rows, doomed : SUBSET Objects]
      /\ cleaner'.pc = "collecting" /\ cleaner'.doomed = Orphans
  BY <1>1, <1>2, IdleCleaner DEF IInv
<1>4. TypeOK' /\ TargetSound'
  BY <1>1, <1>3 DEF IInv, TypeOK, TargetSound
<1>5. Stored' = Stored /\ Referenced' = Referenced
  BY <1>1, SameRowsSameNames DEF Stored
<1>6. DoomedSound' /\ StoredKept'
  BY <1>1, <1>2, <1>3, <1>5 DEF IInv, DoomedSound, StoredKept
<1> QED
  BY <1>1, <1>4, <1>6, CleanerAlone DEF IInv, TypeOK

\* The cleanup ends or dies: it has nothing any more.
LEMMA CleanerEnds ==
    ASSUME IInv, cleaner' = NoCleanup, objects' \in {objects, objects \ cleaner.doomed},
           UNCHANGED <<row, upload, loopWaits, refused, removal, task, overtaken>>
    PROVE  IInv'
<1>1. TypeOK' /\ TargetSound'
  BY IdleCleaner DEF IInv, TypeOK, TargetSound
<1>2. Stored' = Stored /\ DoomedSound'
  BY IdleCleaner DEF IInv, Stored, DoomedSound
<1>3. StoredKept'
  BY <1>2 DEF IInv, DoomedSound, StoredKept
<1> QED
  BY <1>1, <1>2, <1>3, CleanerAlone DEF IInv, TypeOK

LEMMA CleaningKeeps ==
    ASSUME IInv, Cleaning
    PROVE  IInv'
<1>1. ASSUME NEW s \in Sources, ExpireJudges(s) PROVE IInv'
  BY <1>1, ExpireJudgesKeeps
<1>2. ASSUME NEW k \in Keys, PurgeForgets(k) PROVE IInv'
  BY <1>2, PurgeForgetsKeeps
<1>3. CASE ExpireForgets
  BY <1>3, ExpireForgetsKeeps
<1>4. CASE ExpireCommits
  BY <1>4, ExpireCommitsKeeps
<1>5. CASE PurgeCommits
  BY <1>5, PurgeCommitsKeeps
<1>6. CASE CollectReads
  BY <1>6, CollectReadsKeeps
<1>7. CASE CollectDeletes
  BY <1>7, CleanerEnds DEF CollectDeletes
<1>8. CASE CleanupDies
  BY <1>8, CleanerEnds DEF CleanupDies
<1> QED
  BY <1>1, <1>2, <1>3, <1>4, <1>5, <1>6, <1>7, <1>8 DEF Cleaning

-----------------------------------------------------------------------------
(* The invariant, and the two properties of every state. *)

LEMMA Initially == Init => IInv
<1> SUFFICES ASSUME Init PROVE IInv
  OBVIOUS
<1>1. NoRow \in Rows /\ NoRow.status = "none" /\ NoRow.task = None /\ NoRow.object = 0
      /\ NoRow.version = 0
  BY ConstantsAssumption DEF NoRow, Rows
<1>2. \A s \in Sources : row[s] = NoRow
  BY DEF Init
<1>3. TypeOK
  <2>1. row \in [Sources -> Rows] /\ task \in [Keys -> {"none", "live", "deleted", "purged"}]
    BY <1>1 DEF Init
  <2>2. upload \in [source : Files \cup {None}, version : 0 .. MaxVersion,
                    identity : Identities \cup {None}, phase : {"none", "reading", "stored"}]
    BY ConstantsAssumption DEF Init, NoUpload
  <2> QED
    BY <2>1, <2>2, IdleCleaner DEF Init, TypeOK
<1>4. Unconfirmed = {} /\ Creating = {} /\ Stored = {} /\ Referenced = {}
  BY <1>1, <1>2 DEF Init, Unconfirmed, Exists, Creating, Stored, Referenced, Named, NoUpload
<1>5. Room
  <2>1. Claimed = {}
    BY <1>4 DEF Claimed
  <2> QED
    BY <2>1, FS_EmptySet, ConstantsAssumption DEF Room
<1>6. RowsSound
  BY <1>1, <1>2 DEF RowsSound, RowSound
<1>7. UploadsSound /\ RemovalSound /\ TargetSound /\ DoomedSound /\ StoredKept
  BY <1>4 DEF Init, UploadsSound, RemovalSound, TargetSound, DoomedSound, StoredKept, NoCleanup
<1> QED
  BY <1>3, <1>5, <1>6, <1>7 DEF IInv

LEMMA Stutters == IInv /\ UNCHANGED vars => IInv'
BY SameRowsSameNames
   DEF vars, IInv, TypeOK, Room, Claimed, Creating, RowsSound, UploadsSound, RemovalSound,
       TargetSound, DoomedSound, StoredKept, Stored

LEMMA Inductive == IInv /\ [Next]_vars => IInv'
BY AddingKeeps, RefusingKeeps, UploadingKeeps, ConfirmingKeeps, CleaningKeeps, Stutters DEF Next

LEMMA Invariant == Spec => []IInv
BY Initially, Inductive, PTL DEF Spec

\* Every variable keeps its type, and every version its bound.
THEOREM TypeCorrect == Spec => []TypeOK
<1>1. IInv => TypeOK
  BY DEF IInv
<1> QED
  BY <1>1, Invariant, PTL

\* However requests overlap, a session never retains more 来源 than it may
\* (sessions.py, ensure_session_capacity).
THEOREM Bounded == Spec => []SessionBounded
<1>1. IInv => SessionBounded
  <2> SUFFICES ASSUME IInv PROVE SessionBounded
    OBVIOUS
  <2>1. /\ IsFiniteSet(Unconfirmed) /\ Cardinality(Unconfirmed) <= Cardinality(Claimed)
    BY FS_Subset DEF IInv, Room, Claimed
  <2>2. Cardinality(Unconfirmed) \in Nat /\ Cardinality(Claimed) \in Nat
    BY <2>1, FS_CardinalityType DEF IInv, Room
  <2> QED
    BY <2>1, <2>2, ConstantsAssumption DEF IInv, Room, SessionBounded
<1> QED
  BY <1>1, Invariant, PTL

-----------------------------------------------------------------------------
(* What a step may do to a confirmed 来源. *)

ConfirmedStep ==
    \A s \in Sources : row[s].task # None =>
        \/ row'[s] = row[s]
        \/ task[row[s].task] = "deleted" /\ task'[row[s].task] = "purged"

\* Rows go, and the confirmed ones among them with their task.
LEMMA GoneConfirmed ==
    ASSUME IInv, NEW gone \in SUBSET Sources, Goes(gone),
           \A s \in gone : \/ row[s].task = None
                           \/ task[row[s].task] = "deleted" /\ task'[row[s].task] = "purged"
    PROVE  ConfirmedStep
BY GoneRows DEF ConfirmedStep

LEMMA ConfirmedStepKept == IInv /\ [Next]_vars => ConfirmedStep
<1> SUFFICES ASSUME IInv, [Next]_vars PROVE ConfirmedStep
  OBVIOUS
<1>1. CASE Adding
  <2>1. PICK s \in Sources, r \in Rows : Writes(s, r)
    BY <1>1, AddingKeeps
  <2> QED
    BY <2>1 DEF Writes, ConfirmedStep, IInv, TypeOK
<1>2. CASE Uploading
  <2>1. ASSUME row' = row PROVE ConfirmedStep
    BY <2>1 DEF ConfirmedStep
  <2>2. CASE CreateFileCommits
    BY <2>2, CreateFileCommitsRow DEF CommitsUpload, ConfirmedStep, IInv, TypeOK
  <2>3. CASE ReplaceFileCommits
    BY <2>3, ReplaceFileCommitsRow DEF CommitsUpload, ConfirmedStep, IInv, TypeOK
  <2>4. CASE ApiDies \/ HungApiRestarts
    BY <2>4, ApiGoneKeeps, GoneConfirmed DEF ApiDies, HungApiRestarts
  <2>5. CASE CreateFileCollides
    BY <2>5, CreateFileCollidesKeeps, GoneConfirmed
  <2> QED
    BY <1>2, <2>1, <2>2, <2>3, <2>4, <2>5
    DEF Uploading, CreateFileStores, ReplaceFileReads, ReplaceFileWaits, ReplaceFileGoesOn,
        ReplaceFileStores, UploadArrives
<1>3. CASE Confirming
  <2>1. ASSUME row' = row PROVE ConfirmedStep
    BY <2>1 DEF ConfirmedStep
  <2>2. CASE DeleteCommits
    BY <2>2, DeleteCommitsKeeps, GoneConfirmed
  <2>3. ASSUME NEW k \in Keys, Confirm(k) PROVE ConfirmedStep
    BY <2>3, ConfirmKeeps DEF ConfirmedStep
  <2> QED
    BY <1>3, <2>1, <2>2, <2>3 DEF Confirming, DeleteForgets, DeleteTask
<1>4. CASE Cleaning
  <2>1. ASSUME row' = row PROVE ConfirmedStep
    BY <2>1 DEF ConfirmedStep
  <2>2. CASE ExpireCommits
    BY <2>2, ExpireCommitsKeeps, GoneConfirmed
  <2>3. CASE PurgeCommits
    BY <2>3, PurgeCommitsKeeps, GoneConfirmed
  <2> QED
    BY <1>4, <2>1, <2>2, <2>3
    DEF Cleaning, ExpireJudges, PurgeForgets, ExpireForgets, CollectReads, CollectDeletes, CleanupDies
<1>5. CASE Refusing
  BY <1>5, RefusingKeeps DEF ConfirmedStep
<1>6. CASE UNCHANGED vars
  BY <1>6 DEF vars, ConfirmedStep
<1> QED
  BY <1>1, <1>2, <1>3, <1>4, <1>5, <1>6 DEF Next

\* A 来源 that went into a 立言任务 stays its own and stays there until the task is
\* purged, whatever the cleanup had judged before (cleanup.py, only unconfirmed ones).
THEOREM ConfirmedStays == Spec => ConfirmedKept
<1>1. IInv /\ [Next]_vars => [ConfirmedStep]_vars
  BY ConfirmedStepKept
<1> QED
  BY <1>1, Invariant, PTL DEF Spec, ConfirmedKept, ConfirmedStep

-----------------------------------------------------------------------------
(* What a step may do to a file. *)

FileStep ==
    overtaken' \/ \A s \in Files :
        \/ Named(s)' = Named(s) /\ (Named(s) \subseteq objects => Named(s) \subseteq objects')
        \/ Named(s)' # Named(s) /\ Named(s)' \subseteq objects'
        \/ removal' = s \/ cleaner'.target \in {s, row[s].task} \ {None}

\* Nothing that is named is taken from the bucket, and nothing comes to be named.
LEMMA FilesLeftAlone ==
    ASSUME \A s \in Files : Named(s)' = Named(s) \/ Named(s)' = {},
           \A s \in Files : Named(s) \cap objects \subseteq objects'
    PROVE  FileStep
BY DEF FileStep

LEMMA AddingFiles == IInv /\ Adding => FileStep
<1> SUFFICES ASSUME IInv, Adding PROVE FileStep
  OBVIOUS
<1>1. PICK s \in Sources, r \in Rows : Writes(s, r)
  BY AddingKeeps
<1>2. \A x \in Sources : Named(x)' = Named(x) \/ Named(x)' = {}
  BY <1>1, WrittenNames DEF IInv
<1>3. objects' = objects
  BY AddingKeeps
<1> QED
  BY <1>2, <1>3, FilesLeftAlone DEF Sources

LEMMA RefusingFiles == IInv /\ Refusing => FileStep
BY RefusingKeeps, SameRowsSameNames, FilesLeftAlone DEF Sources

LEMMA UploadingFiles == IInv /\ Uploading => FileStep
<1> SUFFICES ASSUME IInv, Uploading PROVE FileStep
  OBVIOUS
<1>1. ASSUME row' = row, objects \subseteq objects' PROVE FileStep
  BY <1>1, SameRowsSameNames, FilesLeftAlone DEF Sources
<1>2. ASSUME NEW r, CommitsUpload(r), row[upload.source].task = None, upload.phase = "stored",
             upload' = NoUpload, UNCHANGED <<objects, loopWaits, refused, removal, task, cleaner, overtaken>>
      PROVE  FileStep
  <2>1. \A x \in Sources : Named(x)' = Named(x) \/ Named(x)' = Stored
    BY <1>2, UploadCommitsKeeps
  <2>2. overtaken' \/ Stored \subseteq objects'
    BY <1>2 DEF IInv, StoredKept
  <2> QED
    BY <1>2, <2>1, <2>2 DEF FileStep, Sources
<1>3. CASE CreateFileCommits
  BY <1>2, <1>3, CreateFileCommitsRow DEF CreateFileCommits
<1>4. CASE ReplaceFileCommits
  BY <1>2, <1>4, ReplaceFileCommitsRow DEF ReplaceFileCommits
<1>5. CASE ReplaceFileStores
  BY <1>1, <1>5, ReplaceFileStoresKeeps
<1>6. CASE ApiDies \/ HungApiRestarts
  <2>1. ApiGone
    BY <1>6 DEF ApiDies, HungApiRestarts
  <2>2. \A s \in Sources : Named(s)' = Named(s) \/ Named(s)' = {}
    BY <2>1, ApiGoneKeeps, GoneRows
  <2>3. objects' = objects
    BY <2>1 DEF ApiGone
  <2> QED
    BY <2>2, <2>3, FilesLeftAlone DEF Sources
<1>7. ASSUME NEW s \in Files, NEW i \in Identities, CreateFileStores(s, i) PROVE FileStep
  BY <1>1, <1>7 DEF CreateFileStores, Put
<1>8. ASSUME NEW s \in Files, NEW i \in Identities, ReplaceFileReads(s, i) PROVE FileStep
  BY <1>1, <1>8 DEF ReplaceFileReads
<1>9. CASE UploadArrives \/ ReplaceFileGoesOn \/ \E s \in Files : ReplaceFileWaits(s)
  BY <1>1, <1>9 DEF UploadArrives, ReplaceFileGoesOn, ReplaceFileWaits
<1>10. CASE CreateFileCollides
  <2>1. \A s \in Sources : Named(s)' = Named(s) \/ Named(s)' = {}
    BY <1>10, CreateFileCollidesKeeps, GoneRows
  <2>2. \A s \in Sources : Named(s) \cap objects \subseteq objects'
    BY <1>10, CreateFileCollidesKeeps
  <2> QED
    BY <2>1, <2>2, FilesLeftAlone DEF Sources
<1> QED
  BY <1>3, <1>4, <1>5, <1>6, <1>7, <1>8, <1>9, <1>10 DEF Uploading

LEMMA ConfirmingFiles == IInv /\ Confirming => FileStep
<1> SUFFICES ASSUME IInv, Confirming PROVE FileStep
  OBVIOUS
<1>1. ASSUME NEW s \in Sources, DeleteForgets(s) PROVE FileStep
  <2>1. removal' = s /\ objects' = objects \ Named(s) /\ row' = row
    BY <1>1 DEF DeleteForgets
  <2>2. \A x \in Sources : Named(x)' = Named(x)
    BY <2>1, SameRowsSameNames
  <2>3. \A x \in Sources \ {s} : Named(x) \subseteq objects => Named(x) \subseteq objects'
    BY <2>1, NamesApart
  <2> QED
    BY <2>1, <2>2, <2>3 DEF FileStep, Sources
<1>2. CASE DeleteCommits
  <2>1. \A s \in Sources : Named(s)' = Named(s) \/ Named(s)' = {}
    BY <1>2, DeleteCommitsKeeps, GoneRows
  <2>2. objects' = objects
    BY <1>2 DEF DeleteCommits
  <2> QED
    BY <2>1, <2>2, FilesLeftAlone DEF Sources
<1>3. ASSUME NEW k \in Keys, Confirm(k) PROVE FileStep
  <2>1. \A s \in Sources : Named(s)' = Named(s)
    BY <1>3, ConfirmKeeps
  <2>2. objects' = objects
    BY <1>3 DEF Confirm
  <2> QED
    BY <2>1, <2>2, FilesLeftAlone DEF Sources
<1>4. ASSUME NEW k \in Keys, DeleteTask(k) PROVE FileStep
  <2>1. row' = row /\ objects' = objects
    BY <1>4 DEF DeleteTask
  <2> QED
    BY <2>1, SameRowsSameNames, FilesLeftAlone DEF Sources
<1> QED
  BY <1>1, <1>2, <1>3, <1>4 DEF Confirming

LEMMA CleaningFiles == IInv /\ Cleaning => FileStep
<1> SUFFICES ASSUME IInv, Cleaning PROVE FileStep
  OBVIOUS
<1>1. ASSUME row' = row, objects' = objects PROVE FileStep
  BY <1>1, SameRowsSameNames, FilesLeftAlone DEF Sources
<1>2. CASE ExpireForgets
  <2>1. /\ cleaner'.target = cleaner.target /\ cleaner.target \in Sources /\ row' = row
        /\ \A o \in objects : o[1] # cleaner.target => o \in objects'
    BY <1>2, ExpireForgetsKeeps
  <2>2. \A x \in Sources : Named(x)' = Named(x)
    BY <2>1, SameRowsSameNames
  <2>3. \A x \in Sources : x # cleaner.target => (Named(x) \subseteq objects => Named(x) \subseteq objects')
    BY <2>1 DEF Named
  <2>4. cleaner.target # None
    BY <2>1, NoneIsNoSource
  <2> QED
    BY <2>1, <2>2, <2>3, <2>4 DEF FileStep, Sources
<1>3. CASE ExpireCommits
  <2>1. \A s \in Sources : Named(s)' = Named(s) \/ Named(s)' = {}
    BY <1>3, ExpireCommitsKeeps, GoneRows
  <2> QED
    BY <1>3, <2>1, ExpireCommitsKeeps, FilesLeftAlone DEF Sources
<1>4. ASSUME NEW k \in Keys, PurgeForgets(k) PROVE FileStep
  <2>1. /\ row' = row /\ cleaner'.target = k /\ k # None
        /\ \A s \in Sources : row[s].task # k => Named(s) \cap objects \subseteq objects'
    BY <1>4, PurgeForgetsKeeps, NoneIsNoSource
  <2>2. \A x \in Sources : Named(x)' = Named(x)
    BY <2>1, SameRowsSameNames
  <2> QED
    BY <2>1, <2>2 DEF FileStep, Sources
<1>5. CASE PurgeCommits
  <2>1. \A s \in Sources : Named(s)' = Named(s) \/ Named(s)' = {}
    BY <1>5, PurgeCommitsKeeps, GoneRows
  <2> QED
    BY <1>5, <2>1, PurgeCommitsKeeps, FilesLeftAlone DEF Sources
<1>6. CASE CollectDeletes
  <2>1. /\ objects' = objects \ cleaner.doomed /\ overtaken' = overtaken /\ row' = row
    BY <1>6 DEF CollectDeletes
  <2>2. \A x \in Sources : Named(x)' = Named(x)
    BY <2>1, SameRowsSameNames
  <2>3. overtaken \/ \A x \in Sources : Named(x) \cap cleaner.doomed = {}
    BY DEF IInv, DoomedSound, Referenced
  <2>4. CASE overtaken
    BY <2>1, <2>4 DEF FileStep
  <2>5. CASE \A x \in Sources : Named(x) \cap cleaner.doomed = {}
    BY <2>1, <2>2, <2>5, FilesLeftAlone DEF Sources
  <2> QED
    BY <2>3, <2>4, <2>5
<1>7. ASSUME NEW s \in Sources, ExpireJudges(s) PROVE FileStep
  BY <1>1, <1>7 DEF ExpireJudges
<1>8. CASE CollectReads
  BY <1>1, <1>8 DEF CollectReads
<1>9. CASE CleanupDies
  BY <1>1, <1>9 DEF CleanupDies
<1> QED
  BY <1>2, <1>3, <1>4, <1>5, <1>6, <1>7, <1>8, <1>9 DEF Cleaning

LEMMA FileStepKept == IInv /\ [Next]_vars => [FileStep]_vars
BY AddingFiles, RefusingFiles, UploadingFiles, ConfirmingFiles, CleaningFiles DEF Next

\* A row comes to name a file that is in the bucket, and the file leaves it only
\* because the 来源 is going (cleanup.py, _collect_orphaned_objects).
THEOREM FilesStay == Spec => FileKept
<1>1. FileKept <=> [][FileStep]_vars
  BY DEF FileKept, FileStep
<1> QED
  BY <1>1, FileStepKept, Invariant, PTL DEF Spec
=============================================================================
