--------------------------------- MODULE DB ---------------------------------
(***************************************************************************)
(* The local document store: documents in leveldb, with three entries for  *)
(* each: its metadata, a marker of its collection, and the document.  The  *)
(* store has no transactions.  A write puts the entries one by one, in     *)
(* this order, under the write lock.  Get reads document and metadata one  *)
(* after the other with no lock; an iterator lists documents of a snapshot *)
(* taken under the read lock, and reads the metadata of each when it gets  *)
(* to it.  DeleteAll takes no lock.                                        *)
(*                                                                         *)
(* Time stands for contents: the data of a document is the time of the     *)
(* write that put it.  A put may fail, and the process may be killed       *)
(* between two puts; what was put before stays.                            *)
(***************************************************************************)
EXTENDS Naturals

CONSTANTS
    Paths,       \* of documents
    Collection,  \* Collection[p]: the first component of path p
    Writers,     \* calls that write, one after the other
    Readers,     \* calls that read, one after the other
    None,        \* no writer, no path
    MaxTime,     \* bound on writes
    MaxFaults    \* bound on puts that fail and processes killed

ASSUME NoneAssumption == None \notin Writers \cup Paths
ASSUME BoundsAssumption == MaxTime \in Nat /\ MaxFaults \in Nat
ASSUME CollectionAssumption == DOMAIN Collection = Paths

VARIABLES
    data,    \* data[p]: when the document at p was written, or 0
    meta,    \* meta[p]: when it was created and updated, as the metadata says
    cols,    \* collections that have a marker
    rwmtx,   \* the writer that holds the lock, or None
    writer,  \* writer[w]: what w does
    reader,  \* reader[r]: where r is, and the documents it has still to return
    doc,     \* doc[r]: the document r is about to return, or returned last
    now, faults

vars == <<data, meta, cols, rwmtx, writer, reader, doc, now, faults>>

-----------------------------------------------------------------------------
Times == 0..MaxTime

\* Zero times stand for an entry that does not exist.
NoMeta    == [created |-> 0, updated |-> 0]
Metadata  == [created : Times, updated : Times]
Document(p, d, md) == [path |-> p, data |-> d, md |-> md]
NoDocument == Document(None, 0, NoMeta)

Exists(p) == data[p] # 0

Fault == faults < MaxFaults /\ faults' = faults + 1

Writing(w, op, p, at, md) ==
    writer' = [writer EXCEPT ![w] = [op |-> op, path |-> p, at |-> at, md |-> md]]

At(w, at)   == writer[w].at = at
Goto(w, at) == writer' = [writer EXCEPT ![w].at = at]
Unlock(w)   == Goto(w, "idle") /\ rwmtx' = None

-----------------------------------------------------------------------------
(* Create and Set.                                                         *)

\* Mutant of Create: it does not wait for the lock.
CreateUnlocked(w, p) ==
    /\ At(w, "idle") /\ now < MaxTime
    /\ ~ Exists(p)
    /\ now' = now + 1
    /\ rwmtx' = w
    /\ Writing(w, "create", p, "meta", [created |-> now', updated |-> now'])
    /\ UNCHANGED <<data, meta, cols, reader, doc, faults>>

\* A document that exists is an error, and changes nothing.
Create(w, p) ==
    /\ At(w, "idle") /\ rwmtx = None /\ now < MaxTime
    /\ ~ Exists(p)
    /\ now' = now + 1
    /\ rwmtx' = w
    /\ Writing(w, "create", p, "meta", [created |-> now', updated |-> now'])
    /\ UNCHANGED <<data, meta, cols, reader, doc, faults>>

\* Mutant of Set: the time of creation is lost.
SetFresh(w, p) ==
    /\ At(w, "idle") /\ rwmtx = None /\ now < MaxTime
    /\ now' = now + 1
    /\ rwmtx' = w
    /\ Writing(w, "set", p, "meta", [created |-> now', updated |-> now'])
    /\ UNCHANGED <<data, meta, cols, reader, doc, faults>>

\* The metadata that is there keeps its time of creation, also when it is
\* what a deleted document left behind.
Set(w, p) ==
    /\ At(w, "idle") /\ rwmtx = None /\ now < MaxTime
    /\ now' = now + 1
    /\ rwmtx' = w
    /\ Writing(w, "set", p, "meta",
               [created |-> IF meta[p].created = 0 THEN now' ELSE meta[p].created,
                updated |-> now'])
    /\ UNCHANGED <<data, meta, cols, reader, doc, faults>>

\* Mutant of SetMetadata: metadata that is there is left alone.
SetMetadataOnce(w) ==
    /\ At(w, "meta")
    /\ meta' = [meta EXCEPT ![writer[w].path] = IF @ = NoMeta THEN writer[w].md ELSE @]
    /\ Goto(w, "col")
    /\ UNCHANGED <<data, cols, rwmtx, reader, doc, now, faults>>

SetMetadata(w) ==
    /\ At(w, "meta")
    /\ meta' = [meta EXCEPT ![writer[w].path] = writer[w].md]
    /\ Goto(w, "col")
    /\ UNCHANGED <<data, cols, rwmtx, reader, doc, now, faults>>

SetCollection(w) ==
    /\ At(w, "col")
    /\ cols' = cols \cup {Collection[writer[w].path]}
    /\ Goto(w, "data")
    /\ UNCHANGED <<data, meta, rwmtx, reader, doc, now, faults>>

PutData(w) ==
    /\ At(w, "data")
    /\ data' = [data EXCEPT ![writer[w].path] = writer[w].md.updated]
    /\ Unlock(w)
    /\ UNCHANGED <<meta, cols, reader, doc, now, faults>>

\* A put returns an error: the lock is released and nothing taken back.
PutFails(w) ==
    /\ Fault
    /\ writer[w].at \in {"meta", "col", "data"}
    /\ Unlock(w)
    /\ UNCHANGED <<data, meta, cols, reader, doc, now>>

-----------------------------------------------------------------------------
(* Delete and DeleteAll.  Metadata and collection markers stay.            *)

Remove(p) ==
    /\ Exists(p)
    /\ data' = [data EXCEPT ![p] = 0]
    /\ UNCHANGED <<meta, cols, rwmtx, writer, reader, doc, now, faults>>

Delete(p) == rwmtx = None /\ Remove(p)

\* One document of a DeleteAll.
DeleteNext(p) == Remove(p)

-----------------------------------------------------------------------------
(* Get, GetAll and Documents.                                              *)

Reading(r, at, docs, d) ==
    /\ reader' = [reader EXCEPT ![r] = [at |-> at, docs |-> docs]]
    /\ doc' = [doc EXCEPT ![r] = d]
    /\ UNCHANGED <<data, meta, cols, rwmtx, writer, now, faults>>

NoDocuments == [p \in Paths |-> 0]

\* Get, and each path of a GetAll: the document is read, now its metadata.
Get(r, p) ==
    /\ reader[r].at = "idle"
    /\ Exists(p)
    /\ Reading(r, "meta", NoDocuments, Document(p, data[p], NoMeta))

Documents(r) ==
    /\ reader[r].at = "idle" /\ rwmtx = None
    /\ Reading(r, "iter", data, NoDocument)

\* A document of the snapshot (the order of paths matters to nobody here).
NextDocument(r, p) ==
    /\ reader[r].at = "iter"
    /\ reader[r].docs[p] # 0
    /\ Reading(r, "meta", [reader[r].docs EXCEPT ![p] = 0],
               Document(p, reader[r].docs[p], NoMeta))

\* document(): the metadata as it is now.
ReadMetadata(r) ==
    /\ reader[r].at = "meta"
    /\ Reading(r, "iter", reader[r].docs, [doc[r] EXCEPT !.md = meta[doc[r].path]])

\* At the end, or earlier at the caller's choice.
Release(r) ==
    /\ reader[r].at = "iter"
    /\ Reading(r, "idle", NoDocuments, doc[r])

-----------------------------------------------------------------------------
Kill ==
    /\ Fault
    /\ rwmtx' = None
    /\ writer' = [w \in Writers |-> [writer[w] EXCEPT !.at = "idle"]]
    /\ reader' = [r \in Readers |-> [at |-> "idle", docs |-> NoDocuments]]
    /\ doc' = [r \in Readers |-> NoDocument]
    /\ UNCHANGED <<data, meta, cols, now>>

Init ==
    /\ data = [p \in Paths |-> 0]
    /\ meta = [p \in Paths |-> NoMeta]
    /\ cols = {}
    /\ rwmtx = None
    /\ writer = [w \in Writers |-> [op |-> "none", path |-> None, at |-> "idle", md |-> NoMeta]]
    /\ reader = [r \in Readers |-> [at |-> "idle", docs |-> NoDocuments]]
    /\ doc = [r \in Readers |-> NoDocument]
    /\ now = 0 /\ faults = 0

Write(w) == SetMetadata(w) \/ SetCollection(w) \/ PutData(w) \/ PutFails(w)

Next ==
    \/ \E w \in Writers : \/ Write(w)
                          \/ \E p \in Paths : Create(w, p) \/ Set(w, p)
    \/ \E p \in Paths : Delete(p) \/ DeleteNext(p)
    \/ \E r \in Readers : \/ Documents(r) \/ ReadMetadata(r) \/ Release(r)
                          \/ \E p \in Paths : Get(r, p) \/ NextDocument(r, p)
    \/ Kill

Spec == Init /\ [][Next]_vars

-----------------------------------------------------------------------------
(* Properties.                                                             *)

\* Every variable keeps its type, and the lock is held by who writes.
TypeOK ==
    /\ data \in [Paths -> Times]
    /\ meta \in [Paths -> Metadata]
    /\ cols \subseteq {Collection[p] : p \in Paths}
    /\ writer \in [Writers -> [op : {"none", "create", "set"}, path : Paths \cup {None},
                               at : {"idle", "meta", "col", "data"}, md : Metadata]]
    /\ reader \in [Readers -> [at : {"idle", "iter", "meta"}, docs : [Paths -> Times]]]
    /\ doc \in [Readers -> [path : Paths \cup {None}, data : Times, md : Metadata]]
    /\ now \in Times /\ faults \in 0..MaxFaults
    /\ \A w \in Writers : ~ At(w, "idle") <=> rwmtx = w

\* A document that exists has metadata, no older than it is, and its
\* collection is listed: through failed puts, kills and deletes, the three
\* entries are never out of step in the way that readers cannot take.
Described ==
    \A p \in Paths :
        Exists(p) => /\ meta[p].updated >= data[p]
                     /\ Collection[p] \in cols

\* A document that Get or an iterator returns has metadata (document() does
\* not check), and was updated no earlier than what it contains: whoever
\* compares UpdatedAt never takes old contents for new.
ReadNotOlder ==
    \A r \in Readers :
        IF reader[r].at = "meta"
        THEN doc[r].path # None /\ meta[doc[r].path].updated >= doc[r].data
        ELSE doc[r].md.updated >= doc[r].data

\* Create makes a document where there is none: of those that create at the
\* same path at the same time one succeeds, and no document is overwritten.
CreateOnce ==
    \A w \in Writers :
        ~ At(w, "idle") /\ writer[w].op = "create" => ~ Exists(writer[w].path)

\* As long as a document exists its time of creation stays what it is.
CreatedKept ==
    [][\A p \in Paths : Exists(p) /\ Exists(p)' => meta'[p].created = meta[p].created]_vars
=============================================================================
