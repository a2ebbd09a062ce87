----------------------------- MODULE MockServer -----------------------------
(***************************************************************************)
(* The development server of the web console (mock-server.cjs): JSON files *)
(* that every handler reads whole, changes and writes back.  Node runs one *)
(* handler at a time between two awaits; the only await of a handler is    *)
(* the wait for its body, before the file is read.                         *)
(***************************************************************************)
EXTENDS Integers, FiniteSets

CONSTANTS
    Ids,          \* ids of stored records, and of the routers of the data sets
    Values,       \* values of a field
    Default,      \* what a handler stores when the body leaves a field out
    Absent,       \* a field the body leaves out
    None,         \* no record under this id
    Corrupt,      \* a file that no longer parses
    Bgp, Bgp2,    \* the two routers of the data sets the files may hold
    Foreign,      \* the routers of the data sets the files never hold
    MaxRequests,  \* bound: requests served in a behaviour
    MaxMockFaults     \* bound: failed writes and crashes in a behaviour

VARIABLES
    disk,     \* disk[f]: the records of file f, or Corrupt
    req,      \* req[n]: the n-th request of this behaviour, while it is served
    phase,    \* phase[n]: "unused", "waiting" for its body or its turn, "running", "over"
    copy,     \* copy[n]: the list its handler has read
    told,     \* told[f]: the records as the answers given so far describe them
    hurt,     \* files hit by a failed write or by a crash during a write
    mockFaults

mockVars == <<disk, req, phase, copy, told, hurt, mockFaults>>

Files == {"users", "tenants", "devices", "as_metadata", "alerts"}

\* "scope" stands for the field a list is cut by: the tenant of a user or of a
\* device, the plan of a company, the role of an AS, the flag of an alert.
Record == [name : Values, scope : Values]

Table == [Ids -> Record \cup {None}]

Empty == [i \in Ids |-> None]

Body == [name : Values \cup {Absent}, scope : Values \cup {Absent}]

Ops == {"post", "put", "delete", "upsert", "ack"}

Request == [op : Ops, file : Files, id : Ids, body : Body]

ASSUME MockAssumption ==
    /\ Default \in Values /\ Absent \notin Values
    /\ None \notin Record /\ None \notin Request /\ Corrupt \notin Table
    /\ Bgp \in Ids /\ Bgp2 \in Ids /\ Bgp # Bgp2 /\ Foreign \cap Ids = {}
    /\ MaxRequests \in Nat /\ MaxMockFaults \in Nat

\* Which methods a file's routes answer.
Served == {<<"post", "users">>, <<"put", "users">>, <<"delete", "users">>,
           <<"post", "tenants">>, <<"put", "tenants">>, <<"delete", "tenants">>,
           <<"post", "devices">>, <<"put", "devices">>, <<"delete", "devices">>,
           <<"upsert", "as_metadata">>, <<"ack", "alerts">>}

-----------------------------------------------------------------------------
Read(f) == IF disk[f] = Corrupt THEN Empty ELSE disk[f]

Or(v, w) == IF v = Absent THEN w ELSE v

NewEntry(b) == [name |-> Or(b.name, Default), scope |-> Or(b.scope, Default)]

\* Mutant: what the body leaves out gets its default, as in a new record.
MergeAnew(old, b) == NewEntry(b)

Merge(old, b) == [name |-> Or(b.name, old.name), scope |-> Or(b.scope, old.scope)]

\* Mutant: a handler awaits something between reading its file and writing it.
EventLoopAwaits == TRUE

\* One handler at a time between two awaits.
EventLoopFree == \A n \in DOMAIN phase : phase[n] # "running"

\* The files a first run writes: one super user, and the demonstration data or nothing.
FirstUser == NewEntry([name |-> Absent, scope |-> Absent])

Starts(f) ==
    CASE f = "users" -> {[Empty EXCEPT ![Bgp] = FirstUser]}
      [] f \in {"alerts", "devices"} ->
             {Empty, [i \in Ids |-> [name |-> Default, scope |-> Default]]}
      [] OTHER -> {Empty}

MockInit ==
    /\ disk \in [Files -> UNION {Starts(f) : f \in Files}]
    /\ \A f \in Files : disk[f] \in Starts(f)
    /\ req = [n \in 1..MaxRequests |-> None]
    /\ phase = [n \in 1..MaxRequests |-> "unused"]
    /\ copy = [n \in 1..MaxRequests |-> Empty]
    /\ told = disk /\ hurt = {} /\ mockFaults = 0

\* A request arrives; its handler waits for the body.
Accept(n, r) ==
    /\ phase[n] = "unused" /\ \A k \in 1..(n - 1) : phase[k] # "unused"
    /\ <<r.op, r.file>> \in Served
    /\ req' = [req EXCEPT ![n] = r] /\ phase' = [phase EXCEPT ![n] = "waiting"]
    /\ UNCHANGED <<disk, copy, told, hurt, mockFaults>>

\* The body is complete: the handler goes on and reads its file.
BodyEnds(n) ==
    /\ EventLoopFree
    /\ phase[n] = "waiting"
    /\ phase' = [phase EXCEPT ![n] = "running"]
    /\ copy' = [copy EXCEPT ![n] = Read(req[n].file)]
    /\ UNCHANGED <<disk, req, told, hurt, mockFaults>>

Over(n) ==
    /\ req' = [req EXCEPT ![n] = None] /\ phase' = [phase EXCEPT ![n] = "over"]
    /\ copy' = [copy EXCEPT ![n] = Empty]

\* The rest of a handler: the list it writes back and what it answers.
Store(n, list, answer) ==
    LET f == req[n].file IN
    /\ \/ disk' = [disk EXCEPT ![f] = list] /\ UNCHANGED <<hurt, mockFaults>>
       \/ /\ mockFaults < MaxMockFaults
          /\ mockFaults' = mockFaults + 1 /\ hurt' = hurt \cup {f} /\ disk' = disk
    /\ told' = [told EXCEPT ![f] = answer]
    /\ Over(n)

\* What the answers so far say of the record a request names.
Known(n) == LET r == req[n] IN
            IF told[r.file][r.id] = None THEN copy[n][r.id] ELSE told[r.file][r.id]

Put(n) ==
    LET r == req[n] IN
    Store(n, [copy[n] EXCEPT ![r.id] = Merge(copy[n][r.id], r.body)],
             [told[r.file] EXCEPT ![r.id] = Merge(Known(n), r.body)])

\* A random id is a fresh one.
Post(n) ==
    LET r == req[n] IN
    \E i \in Ids :
        /\ copy[n][i] = None /\ told[r.file][i] = None
        /\ Store(n, [copy[n] EXCEPT ![i] = NewEntry(r.body)],
                    [told[r.file] EXCEPT ![i] = NewEntry(r.body)])

Delete(n) ==
    LET r == req[n] IN
    Store(n, [copy[n] EXCEPT ![r.id] = None], [told[r.file] EXCEPT ![r.id] = None])

Serving(n, op, f) == phase[n] = "running" /\ req[n].op = op /\ req[n].file = f

Found(n) == copy[n][req[n].id] # None

PostUser(n)     == Serving(n, "post", "users") /\ Post(n)
PutUser(n)      == Serving(n, "put", "users") /\ Found(n) /\ Put(n)
DeleteUser(n)   == Serving(n, "delete", "users") /\ Delete(n)
PostTenant(n)   == Serving(n, "post", "tenants") /\ Post(n)
PutTenant(n)    == Serving(n, "put", "tenants") /\ Found(n) /\ Put(n)
DeleteTenant(n) == Serving(n, "delete", "tenants") /\ Delete(n)
PostDevice(n)   == Serving(n, "post", "devices") /\ Post(n)
PutDevice(n)    == Serving(n, "put", "devices") /\ Found(n) /\ Put(n)
DeleteDevice(n) == Serving(n, "delete", "devices") /\ Delete(n)

\* One entry per AS: the entry of the AS is replaced, or a first one added.
SaveAsMetadata(n) ==
    LET r == req[n] IN
    /\ Serving(n, "upsert", "as_metadata")
    /\ IF Found(n) THEN Put(n)
       ELSE Store(n, [copy[n] EXCEPT ![r.id] = NewEntry(r.body)],
                     [told[r.file] EXCEPT ![r.id] =
                         IF told[r.file][r.id] = None THEN NewEntry(r.body)
                         ELSE Merge(told[r.file][r.id], r.body)])

AckAlert(n) == Serving(n, "ack", "alerts") /\ Found(n) /\ Put(n)

\* 404: nothing is written.
NotFound(n) ==
    /\ phase[n] = "running" /\ req[n].op \in {"put", "ack"} /\ ~Found(n)
    /\ Over(n)
    /\ UNCHANGED <<disk, told, hurt, mockFaults>>

Writes(n) == req[n].op \in {"put", "ack"} => Found(n)

\* The process dies and is started again: requests are lost, and a file that
\* was being written may be left truncated.
Crash ==
    /\ mockFaults < MaxMockFaults /\ mockFaults' = mockFaults + 1
    /\ req' = [n \in DOMAIN req |-> None]
    /\ phase' = [n \in DOMAIN phase |-> IF phase[n] = "unused" THEN "unused" ELSE "over"]
    /\ copy' = [n \in DOMAIN copy |-> Empty]
    /\ \/ UNCHANGED <<disk, hurt>>
       \/ \E n \in DOMAIN req :
             /\ phase[n] = "running" /\ Writes(n)
             /\ disk' = [disk EXCEPT ![req[n].file] = Corrupt]
             /\ hurt' = hurt \cup {req[n].file}
    /\ UNCHANGED told

\* Bound: a body names one field, with a value that is not the default.
MockRequests ==
    LET Said(name, scope) == [name |-> name, scope |-> scope]
        Bodies == {Said(v, Absent) : v \in Values \ {Default}}
                  \cup {Said(Absent, v) : v \in Values \ {Default}}
        Asks(ops, ids, bodies) == {r \in [op : ops, file : Files, id : ids, body : bodies] :
                                     <<r.op, r.file>> \in Served}
    IN  Asks({"post"}, {Bgp}, Bodies) \cup Asks({"put", "upsert"}, Ids, Bodies)
        \cup Asks({"delete"}, Ids, {Said(Absent, Absent)})
        \cup Asks({"ack"}, Ids, {Said(Absent, v) : v \in Values \ {Default}})

MockServe(n) ==
    \/ BodyEnds(n)
    \/ PostUser(n) \/ PutUser(n) \/ DeleteUser(n)
    \/ PostTenant(n) \/ PutTenant(n) \/ DeleteTenant(n)
    \/ PostDevice(n) \/ PutDevice(n) \/ DeleteDevice(n)
    \/ SaveAsMetadata(n) \/ AckAlert(n) \/ NotFound(n)

MockNext ==
    \/ \E n \in 1..MaxRequests : MockServe(n) \/ \E r \in MockRequests : Accept(n, r)
    \/ Crash

MockSpec == MockInit /\ [][MockNext]_mockVars

-----------------------------------------------------------------------------
(* The lists the server answers, cut by the tenant header.  Unscoped: the   *)
(* header is missing.                                                       *)
Unscoped == Absent

BgpSessions == {Bgp, Bgp2} \X (1..7) \cup Foreign \X (1..2)

OspfNeighbors == {<<Bgp, 1>>, <<Bgp2, 1>>}

PrependGroupsBgp == {<<Bgp, 1>>, <<Bgp, 2>>}

PrependGroupsBgp2 == {<<Bgp2, 1>>, <<Bgp2, 2>>, <<Bgp2, 3>>, <<Bgp2, 4>>}

UploadSections == {<<Bgp, 1>>, <<Bgp2, 1>>, <<Bgp2, 2>>, <<Bgp, 2>>}

OtherRoutes == {<<Bgp, "discard">>, <<Bgp, "cgnat">>}

Scoped(f, t) == {i \in Ids : Read(f)[i] # None /\ t \in {Unscoped, Read(f)[i].scope}}

UsersIn(t) == Scoped("users", t)

DevicesIn(t) == Scoped("devices", t)

TenantCounts(t) == [devices |-> Cardinality({i \in Ids : /\ Read("devices")[i] # None
                                                          /\ Read("devices")[i].scope = t}),
                    users |-> Cardinality({i \in Ids : /\ Read("users")[i] # None
                                                        /\ Read("users")[i].scope = t})]

OfTenant(rows, t) ==
    LET mine == DevicesIn(t) IN IF t = Unscoped THEN rows ELSE {r \in rows : r[1] \in mine}

BgpIn(t) == OfTenant(BgpSessions, t)

OspfIn(t) == OfTenant(OspfNeighbors, t)

PrependsIn(t) == OfTenant(PrependGroupsBgp \cup PrependGroupsBgp2, t)

UploadIn(t) == OfTenant(UploadSections, t)

OtherRoutesIn(t) == IF t \in {Unscoped, Default} THEN OtherRoutes ELSE {}

BgpOfDevice(d) == {s \in BgpSessions : s[1] = d}

OspfOfDevice(d) == {s \in OspfNeighbors : s[1] = d}

\* Any device but the first router is given the second one's groups.
PrependsOfDevice(d) == IF d = Bgp THEN PrependGroupsBgp ELSE PrependGroupsBgp2

\* The rows of a list with the names they carry.
Named(f, t) == {<<i, Read(f)[i].name>> : i \in Scoped(f, t)}

PagesIn(t) ==
    {<<d, BgpOfDevice(d), OspfOfDevice(d), PrependsOfDevice(d)>> : d \in DevicesIn(t)}

\* All that a company is shown: its lists, their counts and its devices' pages.
SeenBy(t) ==
    [users |-> Named("users", t), devices |-> Named("devices", t), counts |-> TenantCounts(t),
     bgp |-> BgpIn(t), ospf |-> OspfIn(t), prepends |-> PrependsIn(t),
     upload |-> <<UploadIn(t), OtherRoutesIn(t)>>, pages |-> PagesIn(t)]

\* The companies a request is about: the one the record has, the one the body names.
Concerns(n) ==
    LET r == req[n] IN
    IF r.op = "post" THEN {Or(r.body.scope, Default)}
    ELSE {r.body.scope} \cup {old.scope : old \in {Read(r.file)[r.id]} \ {None}}

-----------------------------------------------------------------------------
MockTypeOK ==
    /\ disk \in [Files -> Table \cup {Corrupt}]
    /\ req \in [1..MaxRequests -> Request \cup {None}]
    /\ phase \in [1..MaxRequests -> {"unused", "waiting", "running", "over"}]
    /\ \A n \in 1..MaxRequests : phase[n] \in {"waiting", "running"} <=> req[n] # None
    /\ copy \in [1..MaxRequests -> Table]
    /\ told \in [Files -> Table] /\ hurt \subseteq Files /\ mockFaults \in 0..MaxMockFaults

(***************************************************************************)
(* A file that no failed write and no crash ever touched holds exactly     *)
(* what the answers said, however the requests overlapped: the lists that  *)
(* handlers write back whole never undo one another (mock-server.cjs,      *)
(* parseBody before readJSON in every handler).                            *)
(***************************************************************************)
AnswersAreOnDisk == \A f \in Files \ hurt : disk[f] = told[f]

(***************************************************************************)
(* A request changes what is shown to the companies it is about, the one   *)
(* its record belongs to and the one it is moved to, and to nobody else,   *)
(* however its body is overtaken and whether its write fails or not: each  *)
(* handler writes back everybody's records (mock-server.cjs:684, :838),    *)
(* and a body that leaves the company out must not move the record.        *)
(***************************************************************************)
OthersSeeNoChange ==
    [][\A n \in 1..MaxRequests, t \in Values :
          MockServe(n) /\ t \notin Concerns(n) => SeenBy(t)' = SeenBy(t)]_mockVars
=============================================================================
