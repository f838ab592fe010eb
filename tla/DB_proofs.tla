----------------------------- MODULE DB_proofs ------------------------------
(***************************************************************************)
(* Proofs about the document store, for any set of paths, writers and      *)
(* readers and any bounds.                                                 *)
(*                                                                         *)
(* The properties follow from what the lock holder knows: time stands      *)
(* still while it writes, so that nothing is younger than what it is about *)
(* to put, and from its second put on the metadata is its own.             *)
(***************************************************************************)
EXTENDS DB, TLAPS

Busy(w) == writer[w].at # "idle"

\* What a writer holds in its hands, and what it has put so far.
WriterInv ==
    \A w \in Writers :
        Busy(w) =>
            LET p == writer[w].path
                md == writer[w].md
            IN  /\ p \in Paths
                /\ md.updated = now /\ md.created # 0
                /\ writer[w].at \in {"col", "data"} => meta[p] = md
                /\ writer[w].at = "data" => Collection[p] \in cols
                /\ writer[w].op = "create" => data[p] = 0
                /\ writer[w].at = "meta" /\ data[p] # 0 => md.created = meta[p].created

\* Nothing comes from the future, and metadata has both times or none.
PastInv ==
    \A p \in Paths : /\ data[p] <= now
                     /\ meta[p].updated # 0 => meta[p].created # 0

\* What a reader has found is described by the metadata it will read.
ReaderInv ==
    \A r \in Readers :
        /\ doc[r].data <= now
        /\ \A p \in Paths : /\ reader[r].docs[p] <= now
                            /\ reader[r].docs[p] # 0 => meta[p].updated >= reader[r].docs[p]
        /\ reader[r].at = "meta" =>
              doc[r].path \in Paths /\ meta[doc[r].path].updated >= doc[r].data
        /\ reader[r].at # "meta" => doc[r].md.updated >= doc[r].data

IInv == TypeOK /\ WriterInv /\ PastInv /\ Described /\ ReaderInv

-----------------------------------------------------------------------------
\* All times are natural numbers.
LEMMA Numbers ==
    ASSUME TypeOK
    PROVE  /\ now \in Nat /\ Times \subseteq Nat
           /\ \A p \in Paths : /\ data[p] \in Nat
                              /\ meta[p].updated \in Nat /\ meta[p].created \in Nat
           /\ \A r \in Readers : /\ doc[r].data \in Nat /\ doc[r].md.updated \in Nat
                                /\ \A p \in Paths : reader[r].docs[p] \in Nat
           /\ \A w \in Writers : writer[w].md \in Metadata /\ writer[w].md.updated \in Nat
  <1>1. Times \subseteq Nat /\ \A m \in Metadata : m.updated \in Nat /\ m.created \in Nat
    BY BoundsAssumption DEF Times, Metadata
  <1>2. \A p \in Paths : data[p] \in Times /\ meta[p] \in Metadata
    BY DEF TypeOK
  <1>3. \A r \in Readers : /\ doc[r].data \in Times /\ doc[r].md \in Metadata
                           /\ reader[r].docs \in [Paths -> Times]
    BY DEF TypeOK
  <1>4. \A w \in Writers : writer[w].md \in Metadata
    BY DEF TypeOK
  <1>5. now \in Nat
    BY <1>1 DEF TypeOK
  <1>. QED
    BY <1>1, <1>2, <1>3, <1>4, <1>5

\* The initial state satisfies the invariant.
LEMMA InitInv == Init => IInv
  <1>. SUFFICES ASSUME Init PROVE IInv
    OBVIOUS
  <1>1. NoMeta \in Metadata /\ 0 \in Times /\ NoDocuments \in [Paths -> Times]
    BY BoundsAssumption DEF NoMeta, Metadata, Times, NoDocuments
  <1>2. TypeOK
    BY <1>1, NoneAssumption, BoundsAssumption
    DEF Init, TypeOK, NoDocument, Document, At
  <1>3. WriterInv
    BY DEF Init, WriterInv, Busy
  <1>4. PastInv /\ Described /\ ReaderInv
    BY DEF Init, PastInv, Described, ReaderInv, NoMeta, NoDocuments, NoDocument, Document, Exists
  <1>. QED
    BY <1>2, <1>3, <1>4 DEF IInv

\* A writer begins: it takes the lock and a new time.
LEMMA BeginInv ==
    ASSUME IInv, NEW w \in Writers, NEW p \in Paths, NEW op \in {"create", "set"},
           NEW c \in Times, c # 0,
           At(w, "idle"), rwmtx = None, now < MaxTime,
           now' = now + 1, rwmtx' = w,
           Writing(w, op, p, "meta", [created |-> c, updated |-> now']),
           op = "create" => data[p] = 0,
           data[p] # 0 => c = meta[p].created,
           UNCHANGED <<data, meta, cols, reader, doc, faults>>
    PROVE  IInv'
  <1>. DEFINE md == [created |-> c, updated |-> now + 1]
  <1>1. /\ now \in Nat /\ now + 1 \in Times /\ md \in Metadata
        /\ \A t \in Times : t \in Nat
    BY BoundsAssumption DEF IInv, TypeOK, Times, Metadata
  <1>2. /\ writer' = [writer EXCEPT ![w] = [op |-> op, path |-> p, at |-> "meta", md |-> md]]
        /\ writer'[w] = [op |-> op, path |-> p, at |-> "meta", md |-> md]
        /\ \A v \in Writers \ {w} : writer'[v] = writer[v] /\ writer[v].at = "idle"
    BY NoneAssumption DEF IInv, TypeOK, Writing, At
  <1>3. TypeOK'
    <2>1. writer' \in [Writers -> [op : {"none", "create", "set"}, path : Paths \cup {None},
                               at : {"idle", "meta", "col", "data"}, md : Metadata]]
      BY <1>1, <1>2 DEF IInv, TypeOK
    <2>2. \A v \in Writers : ~ (writer'[v].at = "idle") <=> rwmtx' = v
      BY <1>2
    <2>. QED
      BY <1>1, <2>1, <2>2 DEF IInv, TypeOK, At
  <1>4. WriterInv'
    BY <1>1, <1>2 DEF IInv, WriterInv, Busy
  <1>5. PastInv'
    BY Numbers DEF IInv, PastInv
  <1>6. Described'
    BY DEF IInv, Described, Exists
  <1>7. ReaderInv'
    <2>. SUFFICES ASSUME NEW r \in Readers
                  PROVE  /\ doc[r].data <= now + 1
                         /\ \A q \in Paths : reader[r].docs[q] <= now + 1
      BY DEF IInv, ReaderInv
    <2>. QED
      BY Numbers DEF IInv, ReaderInv
  <1>. QED
    BY <1>3, <1>4, <1>5, <1>6, <1>7 DEF IInv

\* A writer that is under way holds the lock, and is the only one.
LEMMA OneWriter ==
    ASSUME IInv, NEW w \in Writers, Busy(w)
    PROVE  /\ rwmtx = w
           /\ \A v \in Writers \ {w} : writer[v].at = "idle"
           /\ writer[w].path \in Paths
           /\ writer[w].md \in Metadata /\ writer[w].md.updated = now
  BY Numbers DEF IInv, TypeOK, WriterInv, Busy, At

\* Moving on keeps a writer's type, and what else it holds.
LEMMA GotoType ==
    ASSUME TypeOK, NEW w \in Writers, NEW at \in {"idle", "meta", "col", "data"}, Goto(w, at)
    PROVE  /\ writer' \in [Writers -> [op : {"none", "create", "set"}, path : Paths \cup {None},
                                      at : {"idle", "meta", "col", "data"}, md : Metadata]]
           /\ writer'[w] = [writer[w] EXCEPT !.at = at]
           /\ \A v \in Writers \ {w} : writer'[v] = writer[v]
  <1>. DEFINE Records == [op : {"none", "create", "set"}, path : Paths \cup {None},
                          at : {"idle", "meta", "col", "data"}, md : Metadata]
  <1>1. writer \in [Writers -> Records]
    BY DEF TypeOK
  <1>2. [writer[w] EXCEPT !.at = at] \in Records
    BY <1>1
  <1>3. writer' = [writer EXCEPT ![w] = [writer[w] EXCEPT !.at = at]]
    BY DEF Goto
  <1>. HIDE DEF Records
  <1>4. /\ writer' \in [Writers -> Records]
        /\ writer'[w] = [writer[w] EXCEPT !.at = at]
        /\ \A v \in Writers \ {w} : writer'[v] = writer[v]
    BY <1>1, <1>2, <1>3
  <1>. QED
    BY <1>4 DEF Records

\* The metadata is put: it is as old as now, so nothing is younger.
LEMMA SetMetadataInv == ASSUME IInv, NEW w \in Writers, SetMetadata(w) PROVE IInv'
  <1>. DEFINE p == writer[w].path
              md == writer[w].md
  <1>1. /\ Busy(w) /\ p \in Paths /\ md \in Metadata /\ md.updated = now /\ md.created # 0
        /\ rwmtx = w /\ \A v \in Writers \ {w} : writer[v].at = "idle"
    BY OneWriter DEF SetMetadata, At, Busy, IInv, WriterInv
  <1>2. /\ meta' = [meta EXCEPT ![p] = md] /\ meta' \in [Paths -> Metadata]
        /\ meta'[p] = md /\ \A q \in Paths \ {p} : meta'[q] = meta[q]
    BY <1>1 DEF SetMetadata, IInv, TypeOK
  <1>3. /\ writer'[w] = [writer[w] EXCEPT !.at = "col"]
        /\ \A v \in Writers \ {w} : writer'[v] = writer[v]
    BY GotoType DEF SetMetadata, IInv
  <1>4. TypeOK'
    <2>1. writer' \in [Writers -> [op : {"none", "create", "set"}, path : Paths \cup {None},
                               at : {"idle", "meta", "col", "data"}, md : Metadata]]
      BY GotoType DEF SetMetadata, IInv
    <2>2. \A v \in Writers : ~ (writer'[v].at = "idle") <=> rwmtx' = v
      BY <1>1, <1>3, <2>1 DEF SetMetadata, IInv, TypeOK
    <2>. QED
      BY <1>2, <2>1, <2>2 DEF SetMetadata, IInv, TypeOK, At
  <1>5. WriterInv'
    <2>1. writer'[w].path = p /\ writer'[w].md = md /\ writer'[w].op = writer[w].op
          /\ writer'[w].at = "col"
      BY <1>3 DEF IInv, TypeOK
    <2>2. writer[w].op = "create" => data[p] = 0
      BY <1>1 DEF IInv, WriterInv
    <2>3. data' = data /\ cols' = cols /\ now' = now
      BY DEF SetMetadata
    <2>4. \A v \in Writers : writer'[v].at # "idle" => v = w
      BY <1>1, <1>3
    <2>. QED
      BY <1>1, <1>2, <2>1, <2>2, <2>3, <2>4 DEF WriterInv, Busy
  <1>6. PastInv'
    BY <1>1, <1>2 DEF SetMetadata, IInv, PastInv
  <1>7. Described'
    BY <1>1, <1>2, Numbers DEF SetMetadata, IInv, PastInv, Described, Exists
  <1>8. ReaderInv'
    <2>1. \A q \in Paths : meta'[q].updated = meta[q].updated \/ meta'[q].updated = now
      BY <1>1, <1>2
    <2>2. \A q \in Paths : \A n \in Nat :
             n <= now /\ meta[q].updated >= n => meta'[q].updated >= n
      BY <2>1, Numbers DEF IInv
    <2>3. ASSUME NEW r \in Readers
          PROVE  \A q \in Paths : reader[r].docs[q] # 0 => meta'[q].updated >= reader[r].docs[q]
      BY <2>2, Numbers DEF IInv, ReaderInv
    <2>4. ASSUME NEW r \in Readers, reader[r].at = "meta"
          PROVE  doc[r].path \in Paths /\ meta'[doc[r].path].updated >= doc[r].data
      BY <2>2, <2>4, Numbers DEF IInv, ReaderInv
    <2>5. reader' = reader /\ doc' = doc /\ now' = now
      BY DEF SetMetadata
    <2>6. ASSUME NEW r \in Readers
          PROVE  /\ doc[r].data <= now
                 /\ \A q \in Paths : reader[r].docs[q] <= now
                 /\ reader[r].at # "meta" => doc[r].md.updated >= doc[r].data
      BY DEF IInv, ReaderInv
    <2>. QED
      BY <2>3, <2>4, <2>5, <2>6 DEF ReaderInv
  <1>. QED
    BY <1>4, <1>5, <1>6, <1>7, <1>8 DEF IInv

\* The collection marker is put.
LEMMA SetCollectionInv == ASSUME IInv, NEW w \in Writers, SetCollection(w) PROVE IInv'
  <1>1. /\ Busy(w) /\ writer[w].path \in Paths /\ rwmtx = w
        /\ \A v \in Writers \ {w} : writer[v].at = "idle"
    BY OneWriter DEF SetCollection, At, Busy
  <1>2. /\ writer'[w] = [writer[w] EXCEPT !.at = "data"]
        /\ \A v \in Writers \ {w} : writer'[v] = writer[v]
    BY GotoType DEF SetCollection, IInv
  <1>3. TypeOK'
    <2>1. writer' \in [Writers -> [op : {"none", "create", "set"}, path : Paths \cup {None},
                               at : {"idle", "meta", "col", "data"}, md : Metadata]]
      BY GotoType DEF SetCollection, IInv
    <2>2. \A v \in Writers : ~ (writer'[v].at = "idle") <=> rwmtx' = v
      BY <1>1, <1>2, <2>1 DEF SetCollection, IInv, TypeOK
    <2>3. cols' \subseteq {Collection[p] : p \in Paths}
      BY <1>1 DEF SetCollection, IInv, TypeOK
    <2>. QED
      BY <2>1, <2>2, <2>3 DEF SetCollection, IInv, TypeOK, At
  <1>4. WriterInv'
    <2>1. /\ writer'[w].path = writer[w].path /\ writer'[w].md = writer[w].md
          /\ writer'[w].op = writer[w].op /\ writer'[w].at = "data"
      BY <1>2 DEF IInv, TypeOK
    <2>2. /\ writer[w].md.updated = now /\ writer[w].md.created # 0
          /\ meta[writer[w].path] = writer[w].md
          /\ writer[w].op = "create" => data[writer[w].path] = 0
      BY <1>1 DEF IInv, WriterInv, SetCollection, At
    <2>3. /\ Collection[writer[w].path] \in cols'
          /\ meta' = meta /\ data' = data /\ now' = now
      BY DEF SetCollection
    <2>4. \A v \in Writers : writer'[v].at # "idle" => v = w
      BY <1>1, <1>2
    <2>. QED
      BY <1>1, <2>1, <2>2, <2>3, <2>4 DEF WriterInv, Busy
  <1>5. PastInv' /\ Described' /\ ReaderInv'
    BY DEF SetCollection, IInv, PastInv, Described, ReaderInv, Exists
  <1>. QED
    BY <1>3, <1>4, <1>5 DEF IInv

\* A writer is done, or gives up, and the document is what it was or new.
LEMMA UnlockInv ==
    ASSUME IInv, NEW w \in Writers, Busy(w), Unlock(w),
           \/ data' = data
           \/ At(w, "data") /\ data' = [data EXCEPT ![writer[w].path] = writer[w].md.updated],
           faults' \in 0..MaxFaults,
           UNCHANGED <<meta, cols, reader, doc, now>>
    PROVE  IInv'
  <1>1. /\ writer[w].path \in Paths /\ rwmtx = w /\ writer[w].md.updated = now
        /\ \A v \in Writers \ {w} : writer[v].at = "idle"
    BY OneWriter
  <1>2. \A v \in Writers : writer'[v].at = "idle"
    <2>1. /\ writer'[w] = [writer[w] EXCEPT !.at = "idle"]
          /\ \A v \in Writers \ {w} : writer'[v] = writer[v]
      BY GotoType DEF Unlock, IInv
    <2>2. writer'[w].at = "idle"
      BY <2>1 DEF IInv, TypeOK
    <2>. QED
      BY <1>1, <2>1, <2>2
  <1>3. \A p \in Paths : \/ data'[p] = data[p]
                         \/ /\ At(w, "data") /\ p = writer[w].path
                            /\ data'[p] = now
    BY <1>1 DEF IInv, TypeOK
  <1>4. TypeOK'
    <2>1. writer' \in [Writers -> [op : {"none", "create", "set"}, path : Paths \cup {None},
                               at : {"idle", "meta", "col", "data"}, md : Metadata]]
      BY GotoType DEF Unlock, IInv
    <2>2. data' \in [Paths -> Times]
      <3>1. now \in Times /\ data \in [Paths -> Times]
        BY DEF IInv, TypeOK
      <3>. QED
        BY <1>1, <3>1
    <2>. QED
      BY <1>2, <2>1, <2>2, NoneAssumption DEF Unlock, IInv, TypeOK, At
  <1>5. WriterInv'
    BY <1>2 DEF WriterInv, Busy
  <1>6. PastInv'
    BY <1>3, Numbers DEF IInv, PastInv
  <1>7. Described'
    <2>1. At(w, "data") => /\ meta[writer[w].path].updated = now
                           /\ Collection[writer[w].path] \in cols
      BY <1>1 DEF IInv, WriterInv, At, Busy
    <2>. QED
      BY <1>3, <2>1, Numbers DEF IInv, Described, Exists
  <1>8. ReaderInv'
    BY DEF IInv, ReaderInv
  <1>. QED
    BY <1>4, <1>5, <1>6, <1>7, <1>8 DEF IInv

\* A document is removed.
LEMMA RemoveInv == ASSUME IInv, NEW p \in Paths, Remove(p) PROVE IInv'
  <1>1. \A q \in Paths : data'[q] \in {data[q], 0}
    BY DEF Remove, IInv, TypeOK
  <1>2. data' \in [Paths -> Times]
    BY BoundsAssumption DEF Remove, IInv, TypeOK, Times
  <1>3. TypeOK'
    BY <1>2 DEF Remove, IInv, TypeOK, At
  <1>4. WriterInv'
    BY <1>1 DEF Remove, IInv, WriterInv, Busy
  <1>5. PastInv' /\ Described'
    BY <1>1, Numbers DEF Remove, IInv, PastInv, Described, Exists
  <1>6. ReaderInv'
    BY DEF Remove, IInv, ReaderInv
  <1>. QED
    BY <1>3, <1>4, <1>5, <1>6 DEF IInv


\* Create and Set begin a write, with a time of creation that is kept.
LEMMA CreateInv ==
    ASSUME IInv, NEW w \in Writers, NEW p \in Paths, Create(w, p) PROVE IInv'
  <1>1. data[p] = 0
    BY DEF Create, Exists
  <1>2. now + 1 \in Times /\ now + 1 # 0
    BY BoundsAssumption DEF Create, IInv, TypeOK, Times
  <1>. QED
    BY <1>1, <1>2, BeginInv DEF Create

LEMMA SetInv ==
    ASSUME IInv, NEW w \in Writers, NEW p \in Paths, Set(w, p) PROVE IInv'
  <1>. DEFINE c == IF meta[p].created = 0 THEN now + 1 ELSE meta[p].created
  <1>1. meta[p].created \in Times
    BY DEF IInv, TypeOK, Metadata
  <1>2. now + 1 \in Times /\ now + 1 # 0
    BY BoundsAssumption DEF Set, IInv, TypeOK, Times
  <1>3. c \in Times /\ c # 0
    BY <1>1, <1>2
  <1>4. data[p] # 0 => c = meta[p].created
    BY Numbers DEF IInv, Described, PastInv, Exists
  <1>5. Writing(w, "set", p, "meta", [created |-> c, updated |-> now'])
    BY DEF Set
  <1>. HIDE DEF c
  <1>. QED
    BY <1>3, <1>4, <1>5, BeginInv DEF Set

\* What a reader finds is described: the reader's part of the invariant.
LEMMA ReadingInv ==
    ASSUME IInv, NEW r \in Readers, NEW at \in {"idle", "iter", "meta"},
           NEW docs \in [Paths -> Times],
           NEW d \in [path : Paths \cup {None}, data : Times, md : Metadata],
           Reading(r, at, docs, d),
           d.data <= now,
           \A p \in Paths : docs[p] <= now /\ (docs[p] # 0 => meta[p].updated >= docs[p]),
           at = "meta" => d.path \in Paths /\ meta[d.path].updated >= d.data,
           at # "meta" => d.md.updated >= d.data
    PROVE  IInv'
  <1>1. /\ reader' = [reader EXCEPT ![r] = [at |-> at, docs |-> docs]]
        /\ doc' = [doc EXCEPT ![r] = d]
        /\ UNCHANGED <<data, meta, cols, rwmtx, writer, now, faults>>
    BY DEF Reading
  <1>2. TypeOK'
    BY <1>1 DEF IInv, TypeOK, At
  <1>3. WriterInv' /\ PastInv' /\ Described'
    BY <1>1 DEF IInv, WriterInv, PastInv, Described, Busy, Exists
  <1>4. ReaderInv'
    <2>1. /\ reader'[r] = [at |-> at, docs |-> docs] /\ doc'[r] = d
          /\ \A v \in Readers \ {r} : reader'[v] = reader[v] /\ doc'[v] = doc[v]
      BY <1>1 DEF IInv, TypeOK
    <2>. QED
      BY <1>1, <2>1 DEF IInv, ReaderInv
  <1>. QED
    BY <1>2, <1>3, <1>4 DEF IInv

\* Every step of a reader keeps the invariant.
LEMMA ReaderStepInv ==
    ASSUME IInv, NEW r \in Readers,
           \/ Documents(r) \/ ReadMetadata(r) \/ Release(r)
           \/ \E p \in Paths : Get(r, p) \/ NextDocument(r, p)
    PROVE  IInv'
  <1>. DEFINE Docs == [path : Paths \cup {None}, data : Times, md : Metadata]
  <1>1. NoMeta \in Metadata /\ NoDocument \in Docs /\ NoDocuments \in [Paths -> Times]
        /\ 0 \in Times /\ \A q \in Paths : NoDocuments[q] = 0
    BY BoundsAssumption DEF NoMeta, Metadata, NoDocument, Document, NoDocuments, Times
  <1>2. /\ data \in [Paths -> Times] /\ meta \in [Paths -> Metadata]
        /\ reader[r].docs \in [Paths -> Times] /\ doc[r] \in Docs
        /\ now \in Nat /\ doc[r].data \in Nat
        /\ \A q \in Paths : reader[r].docs[q] \in Nat /\ meta[q].updated \in Nat
    BY Numbers DEF IInv, TypeOK
  <1>3. /\ doc[r].data <= now
        /\ \A q \in Paths : /\ reader[r].docs[q] <= now
                            /\ reader[r].docs[q] # 0 => meta[q].updated >= reader[r].docs[q]
    BY DEF IInv, ReaderInv
  <1>4. CASE Documents(r)
    <2>1. \A p \in Paths : data[p] <= now /\ (data[p] # 0 => meta[p].updated >= data[p])
      BY DEF IInv, PastInv, Described, Exists
    <2>2. NoDocument.data = 0 /\ NoDocument.md.updated = 0
      BY DEF NoDocument, Document, NoMeta
    <2>. QED
      BY <1>1, <1>2, <1>4, <2>1, <2>2, ReadingInv DEF Documents
  <1>5. CASE ReadMetadata(r)
    <2>. DEFINE d == [doc[r] EXCEPT !.md = meta[doc[r].path]]
    <2>1. doc[r].path \in Paths /\ meta[doc[r].path].updated >= doc[r].data
      BY <1>5 DEF ReadMetadata, IInv, ReaderInv
    <2>2. d \in Docs /\ d.data = doc[r].data /\ d.md = meta[doc[r].path]
      BY <1>2, <2>1
    <2>3. Reading(r, "iter", reader[r].docs, d)
      BY <1>5 DEF ReadMetadata
    <2>. HIDE DEF d
    <2>4. d.data <= now /\ d.md.updated >= d.data
      BY <1>2, <1>3, <2>1, <2>2
    <2>5. "iter" \in {"idle", "iter", "meta"} /\ "iter" # "meta"
      OBVIOUS
    <2>. QED
      BY <1>2, <1>3, <2>2, <2>3, <2>4, <2>5, ReadingInv
  <1>6. CASE Release(r)
    <2>1. doc[r].md.updated >= doc[r].data
      BY <1>6 DEF Release, IInv, ReaderInv
    <2>2. Reading(r, "idle", NoDocuments, doc[r])
      BY <1>6 DEF Release
    <2>. QED
      BY <1>1, <1>2, <1>3, <2>1, <2>2, ReadingInv
  <1>7. ASSUME NEW p \in Paths, Get(r, p) PROVE IInv'
    <2>. DEFINE d == Document(p, data[p], NoMeta)
    <2>1. d \in Docs /\ d.path = p /\ d.data = data[p]
      BY <1>1, <1>2 DEF Document
    <2>2. data[p] <= now /\ meta[p].updated >= data[p]
      BY <1>7 DEF Get, IInv, PastInv, Described, Exists
    <2>3. Reading(r, "meta", NoDocuments, d)
      BY <1>7 DEF Get
    <2>. HIDE DEF d
    <2>. QED
      BY <1>1, <1>2, <2>1, <2>2, <2>3, ReadingInv
  <1>8. ASSUME NEW p \in Paths, NextDocument(r, p) PROVE IInv'
    <2>. DEFINE d == Document(p, reader[r].docs[p], NoMeta)
                docs == [reader[r].docs EXCEPT ![p] = 0]
    <2>1. d \in Docs /\ d.path = p /\ d.data = reader[r].docs[p]
      BY <1>1, <1>2 DEF Document
    <2>2. docs \in [Paths -> Times] /\ \A q \in Paths : docs[q] \in {0, reader[r].docs[q]}
      BY <1>1, <1>2
    <2>3. reader[r].docs[p] # 0 /\ Reading(r, "meta", docs, d)
      BY <1>8 DEF NextDocument
    <2>. HIDE DEF d, docs
    <2>4. \A q \in Paths : docs[q] <= now /\ (docs[q] # 0 => meta[q].updated >= docs[q])
      <3>1. \A q \in Paths : docs[q] = 0 \/ docs[q] = reader[r].docs[q]
        BY <2>2
      <3>2. 0 <= now
        BY <1>2
      <3>. QED
        BY <1>2, <1>3, <3>1, <3>2
    <2>5. d.data <= now /\ meta[p].updated >= d.data
      BY <1>3, <2>1, <2>3
    <2>. QED
      BY <2>1, <2>2, <2>3, <2>4, <2>5, ReadingInv
  <1>. QED
    BY <1>4, <1>5, <1>6, <1>7, <1>8

\* A kill leaves the entries as they are.
LEMMA KillInv == ASSUME IInv, Kill PROVE IInv'
  <1>1. NoMeta \in Metadata /\ 0 \in Times /\ NoDocuments \in [Paths -> Times]
        /\ \A q \in Paths : NoDocuments[q] = 0
    BY BoundsAssumption DEF NoMeta, Metadata, Times, NoDocuments
  <1>2. NoDocument = [path |-> None, data |-> 0, md |-> NoMeta] /\ NoMeta.updated = 0
    BY DEF NoDocument, Document, NoMeta
  <1>3. \A w \in Writers : writer'[w] = [writer[w] EXCEPT !.at = "idle"] /\ writer'[w].at = "idle"
    BY DEF Kill, IInv, TypeOK
  <1>4. TypeOK'
    <2>. DEFINE Records == [op : {"none", "create", "set"}, path : Paths \cup {None},
                            at : {"idle", "meta", "col", "data"}, md : Metadata]
                idle(w) == [writer[w] EXCEPT !.at = "idle"]
    <2>1. writer' \in [Writers -> Records]
      <3>1. ASSUME NEW w \in Writers PROVE idle(w) \in Records
        <4>1. writer[w] \in Records
          BY DEF IInv, TypeOK
        <4>. QED
          BY <4>1
      <3>2. writer' = [w \in Writers |-> idle(w)]
        BY DEF Kill
      <3>. HIDE DEF Records, idle
      <3>. QED
        BY <3>1, <3>2
    <2>2. /\ reader' \in [Readers -> [at : {"idle", "iter", "meta"}, docs : [Paths -> Times]]]
          /\ doc' \in [Readers -> [path : Paths \cup {None}, data : Times, md : Metadata]]
      BY <1>1, <1>2 DEF Kill
    <2>3. faults' \in 0..MaxFaults
      BY BoundsAssumption DEF Kill, Fault, IInv, TypeOK
    <2>4. \A w \in Writers : rwmtx' # w
      BY NoneAssumption DEF Kill
    <2>. QED
      BY <1>3, <2>1, <2>2, <2>3, <2>4 DEF Kill, IInv, TypeOK, At
  <1>5. WriterInv'
    BY <1>3 DEF WriterInv, Busy
  <1>6. PastInv' /\ Described'
    BY DEF Kill, IInv, PastInv, Described, Exists
  <1>7. ReaderInv'
    <2>1. \A r \in Readers : reader'[r] = [at |-> "idle", docs |-> NoDocuments] /\ doc'[r] = NoDocument
      BY DEF Kill
    <2>2. now' = now /\ now \in Nat
      BY Numbers DEF Kill, IInv
    <2>. QED
      BY <1>1, <1>2, <2>1, <2>2 DEF ReaderInv
  <1>. QED
    BY <1>4, <1>5, <1>6, <1>7 DEF IInv

\* Every step keeps the invariant.
LEMMA NextInv == IInv /\ [Next]_vars => IInv'
  <1>. SUFFICES ASSUME IInv, [Next]_vars PROVE IInv'
    OBVIOUS
  <1>1. ASSUME NEW w \in Writers, Write(w) PROVE IInv'
    <2>1. CASE SetMetadata(w)
      BY <2>1, SetMetadataInv
    <2>2. CASE SetCollection(w)
      BY <2>2, SetCollectionInv
    <2>3. CASE PutData(w)
      <3>1. Busy(w) /\ faults' \in 0..MaxFaults
        BY <2>3 DEF PutData, At, Busy, IInv, TypeOK
      <3>. QED
        BY <2>3, <3>1, UnlockInv DEF PutData
    <2>4. CASE PutFails(w)
      <3>1. Busy(w) /\ faults' \in 0..MaxFaults
        BY <2>4, BoundsAssumption DEF PutFails, Fault, Busy, IInv, TypeOK
      <3>. QED
        BY <2>4, <3>1, UnlockInv DEF PutFails
    <2>. QED
      BY <1>1, <2>1, <2>2, <2>3, <2>4 DEF Write
  <1>2. ASSUME NEW w \in Writers, NEW p \in Paths, Create(w, p) \/ Set(w, p) PROVE IInv'
    BY <1>2, CreateInv, SetInv
  <1>3. ASSUME NEW p \in Paths, Delete(p) \/ DeleteNext(p) PROVE IInv'
    BY <1>3, RemoveInv DEF Delete, DeleteNext
  <1>4. ASSUME NEW r \in Readers,
               \/ Documents(r) \/ ReadMetadata(r) \/ Release(r)
               \/ \E p \in Paths : Get(r, p) \/ NextDocument(r, p)
        PROVE  IInv'
    BY <1>4, ReaderStepInv
  <1>5. CASE Kill
    BY <1>5, KillInv
  <1>6. CASE UNCHANGED vars
    BY <1>6 DEF vars, IInv, TypeOK, WriterInv, PastInv, Described, ReaderInv, Busy, At, Exists
  <1>. QED
    BY <1>1, <1>2, <1>3, <1>4, <1>5, <1>6 DEF Next

LEMMA Invariance == Spec => []IInv
  BY InitInv, NextInv, PTL DEF Spec

-----------------------------------------------------------------------------
\* Every variable keeps its type, and the lock is held by who writes.
THEOREM TypeCorrect == Spec => []TypeOK
  BY Invariance, PTL DEF IInv

\* Every document that exists has metadata no older than it is, and its
\* collection is listed, whatever put failed and wherever keysd was killed.
THEOREM DescribedCorrect == Spec => []Described
  BY Invariance, PTL DEF IInv

\* No reader is given a document that is newer than its UpdatedAt says.
THEOREM ReadNotOlderCorrect == Spec => []ReadNotOlder
  <1>1. IInv => ReadNotOlder
    <2>. SUFFICES ASSUME IInv, NEW r \in Readers
                  PROVE  IF reader[r].at = "meta"
                         THEN doc[r].path # None /\ meta[doc[r].path].updated >= doc[r].data
                         ELSE doc[r].md.updated >= doc[r].data
      BY DEF ReadNotOlder
    <2>. QED
      BY NoneAssumption DEF IInv, ReaderInv
  <1>. QED
    BY <1>1, Invariance, PTL

\* No Create overwrites a document.
THEOREM CreateOnceCorrect == Spec => []CreateOnce
  <1>1. IInv => CreateOnce
    BY DEF IInv, WriterInv, CreateOnce, Busy, At, Exists
  <1>. QED
    BY <1>1, Invariance, PTL

\* A document keeps its time of creation for as long as it exists.
THEOREM CreatedKeptCorrect == Spec => CreatedKept
  <1>1. ASSUME IInv, [Next]_vars, NEW p \in Paths, Exists(p), Exists(p)'
        PROVE  meta'[p].created = meta[p].created
    <2>1. CASE meta' = meta
      BY <2>1
    <2>2. ASSUME NEW w \in Writers, SetMetadata(w) PROVE meta'[p].created = meta[p].created
      <3>1. /\ At(w, "meta") /\ Busy(w)
            /\ meta' = [meta EXCEPT ![writer[w].path] = writer[w].md]
        BY <2>2 DEF SetMetadata, At, Busy
      <3>2. data[p] # 0 /\ p = writer[w].path => writer[w].md.created = meta[p].created
        BY <1>1, <3>1 DEF IInv, WriterInv, At
      <3>. QED
        BY <1>1, <3>1, <3>2 DEF IInv, TypeOK, Exists
    <2>3. meta' = meta \/ \E w \in Writers : SetMetadata(w)
      BY <1>1 DEF Next, vars, Write, SetCollection, PutData, PutFails, Create, Set, Delete,
         DeleteNext, Remove, Documents, ReadMetadata, Release, Get, NextDocument, Reading, Kill
    <2>. QED
      BY <2>1, <2>2, <2>3
  <1>2. IInv /\ [Next]_vars =>
          [\A p \in Paths : Exists(p) /\ Exists(p)' => meta'[p].created = meta[p].created]_vars
    BY <1>1
  <1>. QED
    BY <1>2, Invariance, PTL DEF Spec, CreatedKept
=============================================================================
