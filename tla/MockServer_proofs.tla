-------------------------- MODULE MockServer_proofs --------------------------
(***************************************************************************)
(* The development server, for any records, any number of requests and of  *)
(* faults: what it answered is what its files hold, and a request shows in *)
(* the lists of the companies it is about only.                            *)
(***************************************************************************)
EXTENDS MockServer, TLAPS

(* One handler runs at a time, between the end of its body and its answer.  *)
OneRunning ==
  \A m, n \in 1..MaxRequests : phase[m] = "running" /\ phase[n] = "running" => m = n

(* The list a running handler has read is still the one in its file.        *)
CopyIsCurrent ==
  \A n \in 1..MaxRequests : phase[n] = "running" => copy[n] = Read(req[n].file)

MockInv == MockTypeOK /\ OneRunning /\ CopyIsCurrent /\ AnswersAreOnDisk

(* What an action leaves alone when it only moves requests along.           *)
FilesRest == UNCHANGED <<disk, told, hurt, mockFaults>>

-----------------------------------------------------------------------------
(* What a handler stores is a record.                                       *)
LEMMA EntriesAreRecords ==
  ASSUME NEW b \in Body
  PROVE  /\ NewEntry(b) \in Record
         /\ \A old \in Record : Merge(old, b) \in Record
<1>1. \A v \in Values \cup {Absent}, w \in Values : Or(v, w) \in Values
  BY DEF Or
<1>2. b.name \in Values \cup {Absent} /\ b.scope \in Values \cup {Absent}
  BY DEF Body
<1>3. NewEntry(b) \in Record
  BY <1>1, <1>2, MockAssumption DEF NewEntry, Record
<1>4. ASSUME NEW old \in Record PROVE Merge(old, b) \in Record
  <2>1. old.name \in Values /\ old.scope \in Values
    BY DEF Record
  <2> QED
    BY <1>1, <1>2, <2>1 DEF Merge, Record
<1> QED
  BY <1>3, <1>4

(* A table stays one when an entry is set or removed.                       *)
LEMMA TablesStayTables ==
  ASSUME NEW t \in Table, NEW i \in Ids, NEW r \in Record \cup {None}
  PROVE  [t EXCEPT ![i] = r] \in Table
BY DEF Table

(* The files of a first run are tables.                                     *)
LEMMA StartsAreTables == \A f \in Files : Starts(f) \subseteq Table
<1>1. Empty \in Table
  BY DEF Empty, Table
<1>2. [name |-> Default, scope |-> Default] \in Record
  BY MockAssumption DEF Record
<1>3. [i \in Ids |-> [name |-> Default, scope |-> Default]] \in Table
  BY <1>2 DEF Table
<1>4. FirstUser \in Record
  BY EntriesAreRecords DEF FirstUser, Body
<1>5. [Empty EXCEPT ![Bgp] = FirstUser] \in Table
  BY <1>1, <1>4, TablesStayTables, MockAssumption
<1> QED
  BY <1>1, <1>3, <1>5 DEF Starts

(* The requests enumerated are requests.                                    *)
LEMMA MockRequestsAreRequests == MockRequests \subseteq Request
BY MockAssumption DEF MockRequests, Request, Body, Ops

(* Before the first request nothing is running and nothing was answered.    *)
LEMMA MockStarts == MockInit => MockInv
<1> SUFFICES ASSUME MockInit PROVE MockInv
  OBVIOUS
<1>1. disk \in [Files -> Table]
  BY StartsAreTables DEF MockInit
<1>2. Empty \in Table
  BY DEF Empty, Table
<1>3. MockTypeOK
  BY <1>1, <1>2, MockAssumption DEF MockInit, MockTypeOK
<1> QED
  BY <1>3 DEF MockInit, MockInv, OneRunning, CopyIsCurrent, AnswersAreOnDisk

-----------------------------------------------------------------------------
(* A request that arrives waits.                                            *)
LEMMA AcceptKeepsInv ==
  ASSUME MockInv, NEW n \in 1..MaxRequests, NEW r \in MockRequests, Accept(n, r)
  PROVE  MockInv'
<1> USE DEF MockInv, Accept
<1>1. r \in Request /\ r # None
  BY MockRequestsAreRequests, MockAssumption
<1>2. MockTypeOK'
  BY <1>1 DEF MockTypeOK
<1>3. \A m \in 1..MaxRequests : phase'[m] = "running" => phase[m] = "running" /\ req'[m] = req[m]
  BY DEF MockTypeOK
<1>4. OneRunning' /\ CopyIsCurrent' /\ AnswersAreOnDisk'
  BY <1>3 DEF OneRunning, CopyIsCurrent, AnswersAreOnDisk, Read
<1> QED
  BY <1>2, <1>4

(* A handler goes on, alone, and reads its file.                            *)
LEMMA BodyEndsKeepsInv ==
  ASSUME MockInv, NEW n \in 1..MaxRequests, BodyEnds(n)
  PROVE  MockInv'
<1> USE DEF MockInv, BodyEnds
<1>1. req[n] \in Request /\ req[n].file \in Files
  BY DEF MockTypeOK, Request
<1>2. Read(req[n].file) \in Table
  BY <1>1 DEF MockTypeOK, Read, Empty, Table
<1>3. MockTypeOK'
  BY <1>2 DEF MockTypeOK
<1>4. \A m \in 1..MaxRequests : phase'[m] = "running" => m = n
  BY DEF MockTypeOK, EventLoopFree
<1>5. copy'[n] = Read(req[n].file)
  BY DEF MockTypeOK
<1>6. OneRunning' /\ CopyIsCurrent' /\ AnswersAreOnDisk'
  BY <1>4, <1>5 DEF OneRunning, CopyIsCurrent, AnswersAreOnDisk, Read
<1> QED
  BY <1>3, <1>6

(* When a handler has ended, no handler is running.                         *)
LEMMA OverEndsRunning ==
  ASSUME MockTypeOK, OneRunning, NEW n \in 1..MaxRequests, phase[n] = "running", Over(n)
  PROVE  /\ \A m \in 1..MaxRequests : phase'[m] # "running"
         /\ req' \in [1..MaxRequests -> Request \cup {None}]
         /\ phase' \in [1..MaxRequests -> {"unused", "waiting", "running", "over"}]
         /\ \A m \in 1..MaxRequests : phase'[m] \in {"waiting", "running"} <=> req'[m] # None
         /\ copy' \in [1..MaxRequests -> Table]
<1>1. Empty \in Table
  BY DEF Empty, Table
<1> QED
  BY <1>1 DEF Over, MockTypeOK, OneRunning

(* Storing a list keeps the invariant, if on an unhurt file it is what the  *)
(* answer says.                                                             *)
LEMMA StoreKeepsInv ==
  ASSUME MockInv, NEW n \in 1..MaxRequests, phase[n] = "running",
         NEW list \in Table, NEW answer \in Table, Store(n, list, answer),
         req[n].file \notin hurt => list = answer
  PROVE  MockInv'
<1> DEFINE f == req[n].file
<1>1. f \in Files
  BY DEF MockInv, MockTypeOK, Request
<1>2. Over(n) /\ told' = [told EXCEPT ![f] = answer]
  BY DEF Store
<1>3. \/ disk' = [disk EXCEPT ![f] = list] /\ UNCHANGED <<hurt, mockFaults>>
      \/ /\ mockFaults < MaxMockFaults
         /\ mockFaults' = mockFaults + 1 /\ hurt' = hurt \cup {f} /\ disk' = disk
  BY DEF Store
<1>4. MockTypeOK'
  <2>1. told' \in [Files -> Table] /\ disk' \in [Files -> Table \cup {Corrupt}] /\ hurt' \subseteq Files
    BY <1>1, <1>2, <1>3 DEF MockInv, MockTypeOK
  <2>2. mockFaults' \in 0..MaxMockFaults
    BY <1>3, MockAssumption DEF MockInv, MockTypeOK
  <2> QED
    BY <1>2, <2>1, <2>2, OverEndsRunning DEF MockInv, MockTypeOK
<1>5. OneRunning' /\ CopyIsCurrent'
  BY <1>2, OverEndsRunning DEF MockInv, OneRunning, CopyIsCurrent
<1>6. AnswersAreOnDisk'
  BY <1>1, <1>2, <1>3 DEF MockInv, MockTypeOK, AnswersAreOnDisk
<1> QED
  BY <1>4, <1>5, <1>6 DEF MockInv

-----------------------------------------------------------------------------
(* What a running handler works on.                                         *)
LEMMA RunningHandlers ==
  ASSUME MockInv, NEW n \in 1..MaxRequests, phase[n] = "running"
  PROVE  /\ req[n].file \in Files /\ req[n].id \in Ids /\ req[n].body \in Body
         /\ copy[n] \in Table /\ told[req[n].file] \in Table
         /\ copy[n] = Read(req[n].file)
         /\ req[n].file \notin hurt => copy[n] = told[req[n].file]
<1>1. req[n] \in Request
  BY DEF MockInv, MockTypeOK
<1>2. req[n].file \in Files /\ req[n].id \in Ids /\ req[n].body \in Body
  BY <1>1 DEF Request
<1>3. copy[n] = Read(req[n].file)
  BY DEF MockInv, CopyIsCurrent
<1>4. copy[n] \in Table /\ told[req[n].file] \in Table
  BY <1>2 DEF MockInv, MockTypeOK
<1>5. ASSUME req[n].file \notin hurt PROVE copy[n] = told[req[n].file]
  BY <1>2, <1>3, <1>4, <1>5, MockAssumption DEF MockInv, AnswersAreOnDisk, Read
<1> QED
  BY <1>2, <1>3, <1>4, <1>5

(* A changed record.                                                        *)
LEMMA PutKeepsInv ==
  ASSUME MockInv, NEW n \in 1..MaxRequests, phase[n] = "running", Found(n), Put(n)
  PROVE  MockInv'
<1> DEFINE r == req[n]
           list == [copy[n] EXCEPT ![r.id] = Merge(copy[n][r.id], r.body)]
           answer == [told[r.file] EXCEPT ![r.id] = Merge(Known(n), r.body)]
<1>1. copy[n][r.id] \in Record
  BY RunningHandlers DEF Found, Table
<1>2. Known(n) \in Record
  BY <1>1, RunningHandlers DEF Known, Table
<1>3. list \in Table /\ answer \in Table
  BY <1>1, <1>2, RunningHandlers, EntriesAreRecords, TablesStayTables
<1>4. r.file \notin hurt => list = answer
  BY RunningHandlers DEF Known
<1>5. Store(n, list, answer)
  BY DEF Put
<1> QED
  BY <1>3, <1>4, <1>5, StoreKeepsInv

(* A new record.                                                            *)
LEMMA PostKeepsInv ==
  ASSUME MockInv, NEW n \in 1..MaxRequests, phase[n] = "running", Post(n)
  PROVE  MockInv'
<1> DEFINE r == req[n]
           list(i) == [copy[n] EXCEPT ![i] = NewEntry(r.body)]
           answer(i) == [told[r.file] EXCEPT ![i] = NewEntry(r.body)]
<1>1. PICK i \in Ids : Store(n, list(i), answer(i))
  BY DEF Post
<1>2. list(i) \in Table /\ answer(i) \in Table
  BY RunningHandlers, EntriesAreRecords, TablesStayTables
<1>3. r.file \notin hurt => list(i) = answer(i)
  BY RunningHandlers
<1> QED
  BY <1>1, <1>2, <1>3, StoreKeepsInv

(* A record taken out.                                                      *)
LEMMA DeleteKeepsInv ==
  ASSUME MockInv, NEW n \in 1..MaxRequests, phase[n] = "running", Delete(n)
  PROVE  MockInv'
<1> DEFINE r == req[n]
           list == [copy[n] EXCEPT ![r.id] = None]
           answer == [told[r.file] EXCEPT ![r.id] = None]
<1>1. Store(n, list, answer)
  BY DEF Delete
<1>2. list \in Table /\ answer \in Table
  BY RunningHandlers, TablesStayTables
<1>3. r.file \notin hurt => list = answer
  BY RunningHandlers
<1> QED
  BY <1>1, <1>2, <1>3, StoreKeepsInv

(* The metadata of an AS, replaced or added.                                *)
LEMMA SaveAsMetadataKeepsInv ==
  ASSUME MockInv, NEW n \in 1..MaxRequests, SaveAsMetadata(n)
  PROVE  MockInv'
<1>1. phase[n] = "running"
  BY DEF SaveAsMetadata, Serving
<1>2. CASE Found(n)
  BY <1>1, <1>2, PutKeepsInv DEF SaveAsMetadata
<1>3. CASE ~Found(n)
  <2> DEFINE r == req[n]
             was == told[r.file][r.id]
             entry == IF was = None THEN NewEntry(r.body) ELSE Merge(was, r.body)
             list == [copy[n] EXCEPT ![r.id] = NewEntry(r.body)]
             answer == [told[r.file] EXCEPT ![r.id] = entry]
  <2>1. Store(n, list, answer)
    BY <1>3 DEF SaveAsMetadata
  <2>2. was \in Record \cup {None}
    BY <1>1, RunningHandlers DEF Table
  <2>3. entry \in Record /\ NewEntry(r.body) \in Record
    BY <1>1, <2>2, RunningHandlers, EntriesAreRecords
  <2>4. list \in Table /\ answer \in Table
    BY <1>1, <2>3, RunningHandlers, TablesStayTables
  <2>5. r.file \notin hurt => list = answer
    BY <1>1, <1>3, RunningHandlers DEF Found
  <2> QED
    BY <1>1, <2>1, <2>4, <2>5, StoreKeepsInv
<1> QED
  BY <1>2, <1>3

(* A 404 writes nothing.                                                    *)
LEMMA NotFoundKeepsInv ==
  ASSUME MockInv, NEW n \in 1..MaxRequests, NotFound(n)
  PROVE  MockInv'
<1>1. phase[n] = "running" /\ Over(n) /\ FilesRest
  BY DEF NotFound, FilesRest
<1>2. MockTypeOK'
  BY <1>1, OverEndsRunning DEF MockInv, MockTypeOK, FilesRest
<1>3. OneRunning' /\ CopyIsCurrent' /\ AnswersAreOnDisk'
  BY <1>1, OverEndsRunning DEF MockInv, OneRunning, CopyIsCurrent, AnswersAreOnDisk, FilesRest,
     Read
<1> QED
  BY <1>2, <1>3 DEF MockInv

(* A crash ends every request, and hurts the file that was being written.   *)
LEMMA CrashKeepsInv == MockInv /\ Crash => MockInv'
<1> SUFFICES ASSUME MockInv, Crash PROVE MockInv'
  OBVIOUS
<1>1. /\ req' = [n \in 1..MaxRequests |-> None]
      /\ phase' = [n \in 1..MaxRequests |-> IF phase[n] = "unused" THEN "unused" ELSE "over"]
      /\ copy' = [n \in 1..MaxRequests |-> Empty]
      /\ mockFaults' = mockFaults + 1 /\ mockFaults < MaxMockFaults /\ told' = told
  BY DEF Crash, MockInv, MockTypeOK
<1>2. \/ disk' = disk /\ hurt' = hurt
      \/ \E f \in Files : disk' = [disk EXCEPT ![f] = Corrupt] /\ hurt' = hurt \cup {f}
  <2>1. CASE UNCHANGED <<disk, hurt>>
    BY <2>1
  <2>2. CASE \E n \in DOMAIN req : /\ phase[n] = "running" /\ Writes(n)
                                   /\ disk' = [disk EXCEPT ![req[n].file] = Corrupt]
                                   /\ hurt' = hurt \cup {req[n].file}
    <3>1. PICK n \in 1..MaxRequests : /\ phase[n] = "running"
                                      /\ disk' = [disk EXCEPT ![req[n].file] = Corrupt]
                                      /\ hurt' = hurt \cup {req[n].file}
      BY <2>2 DEF MockInv, MockTypeOK
    <3>2. req[n].file \in Files
      BY <3>1, RunningHandlers
    <3> QED
      BY <3>1, <3>2
  <2> QED
    BY <2>1, <2>2 DEF Crash
<1>3. MockTypeOK'
  <2>1. Empty \in Table
    BY DEF Empty, Table
  <2>2. disk' \in [Files -> Table \cup {Corrupt}] /\ hurt' \subseteq Files
    BY <1>2 DEF MockInv, MockTypeOK
  <2>3. mockFaults' \in 0..MaxMockFaults
    BY <1>1, MockAssumption DEF MockInv, MockTypeOK
  <2>4. /\ req' \in [1..MaxRequests -> Request \cup {None}]
        /\ phase' \in [1..MaxRequests -> {"unused", "waiting", "running", "over"}]
        /\ \A n \in 1..MaxRequests : phase'[n] \in {"waiting", "running"} <=> req'[n] # None
        /\ copy' \in [1..MaxRequests -> Table]
    BY <1>1, <2>1
  <2> QED
    BY <1>1, <2>2, <2>3, <2>4 DEF MockInv, MockTypeOK
<1>4. OneRunning' /\ CopyIsCurrent'
  BY <1>1 DEF OneRunning, CopyIsCurrent
<1>5. AnswersAreOnDisk'
  BY <1>1, <1>2 DEF MockInv, MockTypeOK, AnswersAreOnDisk
<1> QED
  BY <1>3, <1>4, <1>5 DEF MockInv

(* Every step of a handler.                                                 *)
LEMMA ServeKeepsInv ==
  ASSUME MockInv, NEW n \in 1..MaxRequests, MockServe(n)
  PROVE  MockInv'
<1>1. CASE PostUser(n) \/ PostTenant(n) \/ PostDevice(n)
  BY <1>1, PostKeepsInv DEF PostUser, PostTenant, PostDevice, Serving
<1>2. CASE PutUser(n) \/ PutTenant(n) \/ PutDevice(n) \/ AckAlert(n)
  BY <1>2, PutKeepsInv DEF PutUser, PutTenant, PutDevice, AckAlert, Serving
<1>3. CASE DeleteUser(n) \/ DeleteTenant(n) \/ DeleteDevice(n)
  BY <1>3, DeleteKeepsInv DEF DeleteUser, DeleteTenant, DeleteDevice, Serving
<1> QED
  BY <1>1, <1>2, <1>3, BodyEndsKeepsInv, SaveAsMetadataKeepsInv, NotFoundKeepsInv DEF MockServe

(* The invariant holds in every reachable state.                            *)
LEMMA MockInvariant == MockSpec => []MockInv
<1>1. MockInv /\ [MockNext]_mockVars => MockInv'
  <2> SUFFICES ASSUME MockInv, [MockNext]_mockVars PROVE MockInv'
    OBVIOUS
  <2>1. CASE MockNext
    BY <2>1, AcceptKeepsInv, ServeKeepsInv, CrashKeepsInv DEF MockNext
  <2>2. CASE UNCHANGED mockVars
    BY <2>2 DEF mockVars, MockInv, MockTypeOK, OneRunning, CopyIsCurrent, AnswersAreOnDisk, Read
  <2> QED
    BY <2>1, <2>2
<1> QED
  BY MockStarts, <1>1, PTL DEF MockSpec

-----------------------------------------------------------------------------
(* Files, requests and lists keep their types in every reachable state.     *)
THEOREM MockTypeCorrect == MockSpec => []MockTypeOK
<1>1. MockInv => MockTypeOK
  BY DEF MockInv
<1> QED
  BY MockInvariant, <1>1, PTL

(* However requests overlap, a file never hit by a failed write or a crash  *)
(* holds what the answers said.                                             *)
THEOREM NoAnswerIsUndone == MockSpec => []AnswersAreOnDisk
<1>1. MockInv => AnswersAreOnDisk
  BY DEF MockInv
<1> QED
  BY MockInvariant, <1>1, PTL

-----------------------------------------------------------------------------
(* Who sees a change: the entries of a table in which it differs from another *)
(* one are of other companies than t.                                       *)
DiffersElsewhere(old, new, t) ==
  \A i \in Ids : \/ new[i] = old[i]
                 \/ /\ old[i] = None \/ old[i].scope # t
                    /\ new[i] = None \/ new[i].scope # t

(* A company whose entries of a file stay has the same list of it.          *)
LEMMA SameRows ==
  ASSUME NEW f, NEW t \in Values, DiffersElsewhere(Read(f), Read(f)', t)
  PROVE  /\ Scoped(f, t)' = Scoped(f, t)
         /\ Named(f, t)' = Named(f, t)
         /\ {i \in Ids : Read(f)[i] # None /\ Read(f)[i].scope = t}'
              = {i \in Ids : Read(f)[i] # None /\ Read(f)[i].scope = t}
<1>1. t # Unscoped
  BY MockAssumption DEF Unscoped
<1>2. Scoped(f, t) = {i \in Ids : Read(f)[i] # None /\ Read(f)[i].scope = t}
  BY <1>1 DEF Scoped
<1>3. Scoped(f, t)' = {i \in Ids : Read(f)'[i] # None /\ Read(f)'[i].scope = t}
  BY <1>1 DEF Scoped
<1>4. Scoped(f, t)' = Scoped(f, t)
  BY <1>2, <1>3 DEF DiffersElsewhere
<1>5. \A i \in Scoped(f, t) : Read(f)'[i] = Read(f)[i]
  BY <1>2 DEF DiffersElsewhere
<1> QED
  BY <1>2, <1>3, <1>4, <1>5 DEF Named

(* If both lists stay, so does all that the company is shown.               *)
LEMMA SameLists ==
  ASSUME NEW t \in Values,
         \A f \in {"users", "devices"} : DiffersElsewhere(Read(f), Read(f)', t)
  PROVE  SeenBy(t)' = SeenBy(t)
<1>1. DevicesIn(t)' = DevicesIn(t) /\ Named("devices", t)' = Named("devices", t)
  BY SameRows DEF DevicesIn
<1>2. Named("users", t)' = Named("users", t)
  BY SameRows
<1>3. TenantCounts(t)' = TenantCounts(t)
  <2> DEFINE Own(f) == {i \in Ids : Read(f)[i] # None /\ Read(f)[i].scope = t}
  <2>1. Own("devices")' = Own("devices") /\ Own("users")' = Own("users")
    BY SameRows
  <2>2. TenantCounts(t) = [devices |-> Cardinality(Own("devices")),
                           users |-> Cardinality(Own("users"))]
    BY DEF TenantCounts
  <2>3. TenantCounts(t)' = [devices |-> Cardinality(Own("devices")'),
                            users |-> Cardinality(Own("users")')]
    BY DEF TenantCounts
  <2> HIDE DEF Own
  <2> QED
    BY <2>1, <2>2, <2>3, Zenon
<1>4. /\ BgpIn(t)' = BgpIn(t) /\ OspfIn(t)' = OspfIn(t) /\ PrependsIn(t)' = PrependsIn(t)
      /\ UploadIn(t)' = UploadIn(t) /\ OtherRoutesIn(t)' = OtherRoutesIn(t)
  BY <1>1 DEF BgpIn, OspfIn, PrependsIn, UploadIn, OtherRoutesIn, OfTenant
<1>5. PagesIn(t)' = PagesIn(t)
  BY <1>1 DEF PagesIn
<1> QED
  BY <1>1, <1>2, <1>3, <1>4, <1>5 DEF SeenBy

(* A handler that sets one entry of the list it has read, of a company that  *)
(* the request is about, or takes one out.                                  *)
LEMMA OneEntryChanges ==
  ASSUME MockInv, NEW n \in 1..MaxRequests, phase[n] = "running",
         NEW i \in Ids, NEW e \in Record \cup {None}, NEW answer,
         Store(n, [copy[n] EXCEPT ![i] = e], answer),
         NEW t \in Values,
         copy[n][i] = None \/ copy[n][i].scope # t, e = None \/ e.scope # t
  PROVE  \A f \in {"users", "devices"} : DiffersElsewhere(Read(f), Read(f)', t)
<1> SUFFICES ASSUME NEW f \in {"users", "devices"}
             PROVE  DiffersElsewhere(Read(f), Read(f)', t)
  OBVIOUS
<1> DEFINE list == [copy[n] EXCEPT ![i] = e]
<1>1. /\ req[n].file \in Files /\ copy[n] \in Table /\ copy[n] = Read(req[n].file)
      /\ f \in Files /\ disk \in [Files -> Table \cup {Corrupt}]
  BY RunningHandlers DEF Files, MockInv, MockTypeOK
<1>2. list \in Table /\ list # Corrupt
  BY <1>1, TablesStayTables, MockAssumption
<1>3. disk' = disk \/ disk' = [disk EXCEPT ![req[n].file] = list]
  BY DEF Store
<1>4. Read(f)' = Read(f) \/ (f = req[n].file /\ Read(f)' = list)
  BY <1>1, <1>2, <1>3 DEF Read
<1>5. \A j \in Ids : j # i => list[j] = copy[n][j]
  BY <1>1 DEF Table
<1>6. list[i] = e
  BY <1>1 DEF Table
<1> HIDE DEF list
<1> QED
  BY <1>1, <1>4, <1>5, <1>6 DEF DiffersElsewhere

(* A step that leaves the two files as they are changes nobody's lists.     *)
LEMMA OtherFilesDoNotShow ==
  ASSUME NEW t, disk'["users"] = disk["users"], disk'["devices"] = disk["devices"]
  PROVE  \A f \in {"users", "devices"} : DiffersElsewhere(Read(f), Read(f)', t)
BY DEF Read, DiffersElsewhere

(* A request on another file leaves the two files as they are.              *)
LEMMA OtherFilesStay ==
  ASSUME MockInv, NEW n \in 1..MaxRequests, phase[n] = "running",
         req[n].file \notin {"users", "devices"}, NEW list, NEW answer, Store(n, list, answer)
  PROVE  disk'["users"] = disk["users"] /\ disk'["devices"] = disk["devices"]
BY DEF Store, MockInv, MockTypeOK, Files

(* Every step of a handler shows only where the request says.               *)
LEMMA ServedForItsCompanies ==
  ASSUME MockInv, NEW n \in 1..MaxRequests, MockServe(n), NEW t \in Values, t \notin Concerns(n)
  PROVE  SeenBy(t)' = SeenBy(t)
<1> DEFINE r == req[n]
           shown == \A f \in {"users", "devices"} : DiffersElsewhere(Read(f), Read(f)', t)
<1>1. CASE BodyEnds(n) \/ NotFound(n)
  <2>1. shown
    BY <1>1, OtherFilesDoNotShow DEF BodyEnds, NotFound
  <2> QED
    BY <2>1, SameLists
<1>2. CASE ~(BodyEnds(n) \/ NotFound(n))
  <2>1. phase[n] = "running"
    BY <1>2 DEF MockServe, PostUser, PutUser, DeleteUser, PostTenant, PutTenant, DeleteTenant,
       PostDevice, PutDevice, DeleteDevice, SaveAsMetadata, AckAlert, Serving
  <2>2. /\ r.id \in Ids /\ r.body \in Body /\ copy[n] \in Table /\ copy[n] = Read(r.file)
    BY <2>1, RunningHandlers
  <2>3. CASE PostUser(n) \/ PostDevice(n)
    <3>1. Post(n) /\ r.op = "post"
      BY <2>3 DEF PostUser, PostDevice, Serving
    <3>2. PICK i \in Ids : /\ copy[n][i] = None
                           /\ Store(n, [copy[n] EXCEPT ![i] = NewEntry(r.body)],
                                       [told[r.file] EXCEPT ![i] = NewEntry(r.body)])
      BY <3>1 DEF Post
    <3>3. NewEntry(r.body) \in Record /\ NewEntry(r.body).scope # t
      BY <2>2, <3>1, EntriesAreRecords DEF Concerns, NewEntry
    <3>4. shown
      BY <2>1, <3>2, <3>3, OneEntryChanges
    <3> QED
      BY <3>4, SameLists
  <2>4. CASE PutUser(n) \/ PutDevice(n)
    <3> DEFINE old == copy[n][r.id]
               e == Merge(old, r.body)
               answer == [told[r.file] EXCEPT ![r.id] = Merge(Known(n), r.body)]
    <3>1. Store(n, [copy[n] EXCEPT ![r.id] = e], answer) /\ r.op = "put" /\ Found(n)
      BY <2>4 DEF PutUser, PutDevice, Serving, Put
    <3>2. old \in Record /\ old # None
      BY <2>2, <3>1 DEF Found, Table
    <3>3. old.scope # t /\ r.body.scope # t
      BY <2>2, <3>1, <3>2 DEF Concerns
    <3>4. e \in Record /\ e.scope # t
      BY <2>2, <3>2, <3>3, EntriesAreRecords DEF Merge, Or
    <3> HIDE DEF e, answer
    <3>5. shown
      BY <2>1, <2>2, <3>1, <3>3, <3>4, OneEntryChanges
    <3> QED
      BY <3>5, SameLists
  <2>5. CASE DeleteUser(n) \/ DeleteDevice(n)
    <3> DEFINE old == copy[n][r.id]
               answer == [told[r.file] EXCEPT ![r.id] = None]
    <3>1. Store(n, [copy[n] EXCEPT ![r.id] = None], answer) /\ r.op = "delete"
      BY <2>5 DEF DeleteUser, DeleteDevice, Serving, Delete
    <3>2. old = None \/ old.scope # t
      BY <2>2, <3>1 DEF Concerns
    <3> HIDE DEF answer
    <3>3. shown
      BY <2>1, <2>2, <3>1, <3>2, OneEntryChanges
    <3> QED
      BY <3>3, SameLists
  <2>6. CASE PostTenant(n) \/ PutTenant(n) \/ DeleteTenant(n) \/ SaveAsMetadata(n) \/ AckAlert(n)
    <3>1. r.file \notin {"users", "devices"}
      BY <2>6 DEF PostTenant, PutTenant, DeleteTenant, SaveAsMetadata, AckAlert, Serving
    <3>2. \E list, answer : Store(n, list, answer)
      <4>1. CASE PostTenant(n)
        BY <4>1 DEF PostTenant, Post
      <4>2. CASE PutTenant(n) \/ AckAlert(n)
        BY <4>2 DEF PutTenant, AckAlert, Put
      <4>3. CASE DeleteTenant(n)
        BY <4>3 DEF DeleteTenant, Delete
      <4>4. CASE SaveAsMetadata(n)
        BY <4>4 DEF SaveAsMetadata, Put
      <4> QED
        BY <2>6, <4>1, <4>2, <4>3, <4>4
    <3>3. shown
      BY <2>1, <3>1, <3>2, OtherFilesStay, OtherFilesDoNotShow
    <3> QED
      BY <3>3, SameLists
  <2> QED
    BY <1>2, <2>3, <2>4, <2>5, <2>6 DEF MockServe
<1> QED
  BY <1>1, <1>2

(* However bodies overtake each other and writes fail, a request is seen by  *)
(* the companies that it names or whose record it changes, and by no other. *)
THEOREM RequestsStayWithTheirCompanies == MockSpec => OthersSeeNoChange
<1>1. MockInv => \A n \in 1..MaxRequests, t \in Values :
                    MockServe(n) /\ t \notin Concerns(n) => SeenBy(t)' = SeenBy(t)
  BY ServedForItsCompanies
<1> QED
  BY MockInvariant, <1>1, PTL DEF OthersSeeNoChange
=============================================================================
