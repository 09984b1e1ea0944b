------------------------------ MODULE Sessions ------------------------------
(***************************************************************************)
(* Python sessions on one path (rustyhdf5-py): File(path, "w") gathers     *)
(* datasets, groups and attributes, and close() builds the whole file and  *)
(* writes it; File(path, "r") maps the file, or Rust callers read it into  *)
(* memory, and every later call parses it again.                           *)
(*                                                                         *)
(* A group handle shares its WriteGroupState with the file (an Arc), and   *)
(* outlives it: groups are kept in the session they were created in, where *)
(* calls can change them after close() has taken everything else.          *)
(* An image has one block with the superblock, one with all object         *)
(* headers, and one per dataset's data, in FileWriter::finish's order.     *)
(***************************************************************************)
EXTENDS Storage, SequencesExt, FiniteSets

CONSTANTS Writers,   \* the sessions opened with mode "w", in this order
          Names,     \* names of datasets of the root
          GroupNames,\* some of Names, for everything else
          Arrays,    \* what is given to create_dataset
          AttrInputs,\* what is assigned to attributes
          MaxCalls   \* bound: calls of all sessions together

VARIABLES session,   \* what each PyFile in write mode holds
          reader,    \* the file opened for reading, or None
          journal,   \* history: the calls each session answered with Ok
          current    \* history: whose calls the file on disk was written from

sessionVars == <<session, reader, journal, current>>

Dtypes == {"float64", "float32", "int64", "int32", "uint8"}

(* What py_to_attr_value knows; another kind is refused, and nothing kept. *)
AttrKinds == {"bool", "int", "float", "str", "floats", "ints"}

Size(shape) ==
    LET upTo[i \in 0..Len(shape)] == IF i = 0 THEN 1 ELSE upTo[i - 1] * shape[i]
    IN upTo[Len(shape)]

(* An array of NumPy has as many elements as its shape says.               *)
ASSUME SessionAssumption ==
    /\ None \notin Nat /\ None \notin Seq(Nat) /\ None \notin Writers
    /\ Writers \subseteq Nat /\ GroupNames \subseteq Names
    /\ Arrays \subseteq [dtype : STRING, shape : Seq(Nat), elems : Seq(Nat), chunks : STRING]
    /\ \A a \in Arrays :
         Size(IF a.shape = <<>> THEN <<1>> ELSE a.shape) = Len(a.elems)
    /\ AttrInputs \subseteq [kind : AttrKinds, of : Seq(Nat)]

Fresh == [mode |-> "new", datasets |-> <<>>, attrs |-> <<>>, groups |-> <<>>]

NewGroup(name) == [name |-> name, datasets |-> <<>>, attrs |-> <<>>]

(* py_to_attr_value tries int, float, str, list of float, list of int, in  *)
(* this order; Python's bool is an int, and every list of int is one of    *)
(* float.                                                                  *)
PyToAttr(v) ==
    CASE v.kind = "bool" -> [v EXCEPT !.kind = "int"]
      [] v.kind = "ints" -> [v EXCEPT !.kind = "floats"]
      [] OTHER -> v

(* PyAttrs.__setitem__ replaces the value of a name that is there.         *)
SetItem(attrs, name, value) ==
    IF \E i \in DOMAIN attrs : attrs[i].name = name
    THEN [attrs EXCEPT ![CHOOSE i \in DOMAIN attrs :
                             attrs[i].name = name].value = value]
    ELSE Append(attrs, [name |-> name, value |-> value])

-----------------------------------------------------------------------------
(* finalize_write and FileWriter::finish                                   *)

(* apply_dataset_spec: an array of no dimension gets no with_shape, and    *)
(* the data's own length becomes the shape.                                *)
Applied(spec) ==
    [name |-> spec.name, dtype |-> spec.data.dtype, elems |-> spec.data.elems,
     shape |-> IF spec.data.shape = <<>>
               THEN <<Len(spec.data.elems)>> ELSE spec.data.shape]

FlatSpecs(s) ==
    LET upTo[g \in 0..Len(s.groups)] ==
            IF g = 0 THEN s.datasets ELSE upTo[g - 1] \o s.groups[g].datasets
    IN upTo[Len(s.groups)]

(* Dividing by a chunk dimension of zero panics inside finish(), before    *)
(* anything is written.                                                    *)
FinishFails(s) ==
    \E spec \in Range(FlatSpecs(s)) : spec.data.chunks = "zero"

(* Blocks of an image with G groups and D datasets: the superblock, the    *)
(* root's header, G groups' and D datasets' headers, and D datasets' data, *)
(* the root's datasets before those of the groups.                         *)
RootAt == 2
GroupAt(g) == RootAt + g
HeaderAt(s, i) == RootAt + Len(s.groups) + i
DataAt(s, i) == HeaderAt(s, Len(FlatSpecs(s))) + i

(* How many datasets come before those of group g.                         *)
Before(s, g) ==
    LET upTo[h \in 0..(g - 1)] ==
            IF h = 0 THEN Len(s.datasets) ELSE upTo[h - 1] + Len(s.groups[h].datasets)
    IN upTo[g - 1]

DatasetLinks(s, specs, before) ==
    [i \in DOMAIN specs |->
        [name |-> specs[i].name, at |-> HeaderAt(s, before + i)]]

GroupLinks(s) ==
    [g \in DOMAIN s.groups |-> [name |-> s.groups[g].name, at |-> GroupAt(g)]]

RootHeader(s) ==
    [kind |-> "group", attrs |-> s.attrs,
     links |-> DatasetLinks(s, s.datasets, 0) \o GroupLinks(s)]

GroupHeader(s, g) ==
    [kind |-> "group", attrs |-> s.groups[g].attrs,
     links |-> DatasetLinks(s, s.groups[g].datasets, Before(s, g))]

DatasetHeader(s, i) ==
    [kind |-> "dataset", at |-> DataAt(s, i),
     shape |-> Applied(FlatSpecs(s)[i]).shape, dtype |-> Applied(FlatSpecs(s)[i]).dtype]

Image(s) ==
    <<"superblock", RootHeader(s)>>
      \o [g \in DOMAIN s.groups |-> GroupHeader(s, g)]
      \o [i \in DOMAIN FlatSpecs(s) |-> DatasetHeader(s, i)]
      \o [i \in DOMAIN FlatSpecs(s) |-> Applied(FlatSpecs(s)[i]).elems]

-----------------------------------------------------------------------------
(* Reading: bytes are the blocks a handle has                              *)

Failure == [kind |-> "error"]

(* find_signature and Superblock::parse                                    *)
Opens(bytes) == bytes # <<>>

(* ObjectHeader::parse at a link's address, which may lie behind the end.  *)
HeaderIn(bytes, at) == IF at \in DOMAIN bytes THEN bytes[at] ELSE Failure

(* The place of the first entry of a name, or 0.                           *)
FirstNamed(entries, name) ==
    LET hits == {i \in DOMAIN entries : entries[i].name = name}
    IN IF hits = {} THEN 0 ELSE Min(hits)

(* resolve_path_any: the address of the first link of each name, or None;  *)
(* the header at the last of them is not looked at.                        *)
Follow(bytes, at, name) ==
    LET header == HeaderIn(bytes, at)
        first == IF header.kind = "group" THEN FirstNamed(header.links, name) ELSE 0
    IN IF at = None \/ first = 0 THEN None ELSE header.links[first].at

ResolvePath(bytes, path) ==
    LET upTo[i \in 0..Len(path)] ==
            IF i = 0 THEN RootAt ELSE Follow(bytes, upTo[i - 1], path[i])
    IN upTo[Len(path)]

Resolved(bytes, path) == HeaderIn(bytes, ResolvePath(bytes, path))

(* What is not there taken for never written, and filled with zeros.       *)
DataOrZeros(bytes, at, n) ==
    IF at \in DOMAIN bytes THEN bytes[at] ELSE [i \in 1..n |-> 0]

(* The n elements at a block; None where the file ends before them.        *)
DataOf(bytes, at, n) == IF at \in DOMAIN bytes THEN bytes[at] ELSE None

(* read_as_numpy: the path is followed again, but shape and dtype are      *)
(* those PyDataset::new kept; elements that do not fill the shape are      *)
(* refused.                                                                *)
ReadArray(bytes, path, kept) ==
    LET now == Resolved(bytes, path)
        data == DataOf(bytes, now.at, Size(now.shape))
    IN IF now.kind # "dataset" THEN Failure
       ELSE IF data = None THEN Failure
       ELSE IF Len(data) # Size(kept.shape) THEN Failure
       ELSE [kind |-> "array", dtype |-> kept.dtype, shape |-> kept.shape,
             elems |-> data]

(* keys(): the names of datasets and of groups, for which the header of    *)
(* every link is read; sorted, so that only how often each is there counts.*)
Keys(bytes, path) ==
    LET found == Resolved(bytes, path)
    IN IF found.kind # "group" THEN Failure
       ELSE IF \E l \in Range(found.links) : HeaderIn(bytes, l.at) = Failure
       THEN Failure
       ELSE [kind |-> "keys",
             times |-> [n \in Names |->
                Cardinality({i \in DOMAIN found.links : found.links[i].name = n})]]

(* __getitem__ of PyFile and of PyGroup: a dataset is read; anything else  *)
(* that resolves is given as a group, even where its header is not read.   *)
(* Here the answer for a group is what its keys() answer.                  *)
GetItem(bytes, path) ==
    LET found == Resolved(bytes, path)
    IN IF ResolvePath(bytes, path) = None THEN Failure
       ELSE IF found.kind = "dataset" THEN ReadArray(bytes, path, found)
       ELSE Keys(bytes, path)

(* A key of a PyGroup is looked up from the root again, by the path joined.*)
GroupItem(bytes, path, key) == GetItem(bytes, path \o <<key>>)

(* __contains__: opened as a dataset or as a group.                        *)
HasKey(bytes, path) ==
    \/ Resolved(bytes, path).kind = "dataset"
    \/ ResolvePath(bytes, path) # None

(* AsyncHDF5File::read_dataset_raw: the messages of a dataset are asked    *)
(* for one by one, and a group has none of them.                           *)
AsyncRead(bytes, path) ==
    LET found == Resolved(bytes, path)
        data == DataOf(bytes, found.at, Size(found.shape))
    IN IF found.kind # "dataset" THEN Failure
       ELSE IF data = None THEN Failure
       ELSE [kind |-> "array", dtype |-> found.dtype, shape |-> found.shape,
             elems |-> data]

(* attrs: attributes go into a map one by one.                             *)
Attribute(bytes, path, name) ==
    LET found == Resolved(bytes, path)
        hits == IF found.kind = "group"
                THEN {i \in DOMAIN found.attrs : found.attrs[i].name = name}
                ELSE {}
    IN IF hits = {} THEN Failure ELSE found.attrs[Max(hits)].value

(* The bytes behind a handle: a mapping shows the file as it is now, up to *)
(* the length it had.                                                      *)
BytesOf(r) == IF r.mapped THEN SubSeq(disk, 1, r.len) ELSE r.data

-----------------------------------------------------------------------------
(* What the calls of a session come to, told from the journal alone        *)

(* The calls made before close().                                          *)
InTime(calls, where, what) ==
    {i \in DOMAIN calls : /\ calls[i].where = where /\ calls[i].what = what
                          /\ ~calls[i].late}

Naming(calls, where, what, name) ==
    {i \in InTime(calls, where, what) : calls[i].name = name}

(* The first call of a name, or 0.                                         *)
FirstCall(calls, where, what, name) ==
    LET hits == Naming(calls, where, what, name)
    IN IF hits = {} THEN 0 ELSE Min(hits)

ToldArray(call) ==
    LET a == call.value
    IN [kind |-> "array", dtype |-> a.dtype, elems |-> a.elems,
        shape |-> IF a.shape = <<>> THEN <<1>> ELSE a.shape]

ToldKeys(calls, where) ==
    [kind |-> "keys",
     times |-> [n \in Names |-> Cardinality(Naming(calls, where, "dataset", n))
                                + Cardinality(Naming(calls, where, "group", n))]]

(* What a path names: a dataset of the root hides a group of its name, and *)
(* the first of several hides the others.                                  *)
Told(calls, path) ==
    LET ds == FirstCall(calls, 0, "dataset", path[1])
        grp == FirstCall(calls, 0, "group", path[1])
        inner == FirstCall(calls, calls[grp].id, "dataset", path[2])
    IN CASE path = <<>> -> ToldKeys(calls, 0)
         [] Len(path) = 1 /\ ds # 0 -> ToldArray(calls[ds])
         [] Len(path) = 1 /\ ds = 0 /\ grp # 0 -> ToldKeys(calls, calls[grp].id)
         [] Len(path) = 2 /\ ds = 0 /\ grp # 0 ->
                IF inner # 0 THEN ToldArray(calls[inner]) ELSE Failure
         [] OTHER -> Failure

(* What an assigned value comes to.                                        *)
ToldValue(v) ==
    [kind |-> CASE v.kind = "bool" -> "int"
                [] v.kind = "ints" -> "floats"
                [] OTHER -> v.kind,
     of |-> v.of]

(* The last value given to the attribute of the root, or of the first      *)
(* group of a name that no dataset hides.                                  *)
ToldAttribute(calls, path, name) ==
    LET grp == FirstCall(calls, 0, "group", path[1])
        sets == Naming(calls, IF path = <<>> THEN 0 ELSE calls[grp].id, "attr", name)
    IN IF path # <<>> /\ (grp = 0 \/ FirstCall(calls, 0, "dataset", path[1]) # 0)
       THEN Failure
       ELSE IF sets = {} THEN Failure
       ELSE ToldValue(calls[Max(sets)].value)

(* f[path], one key after the other.                                       *)
Answer(bytes, path) ==
    IF Len(path) < 2 THEN GetItem(bytes, path)
    ELSE GroupItem(bytes, Front(path), Last(path))

Paths == {<<>>} \cup {<<n>> : n \in Names} \cup {<<n, m>> : n, m \in Names}

-----------------------------------------------------------------------------
Calls == FoldLeft(LAMBDA n, w : n + Len(journal[w]), 0, SetToSeq(Writers))

Init ==
    /\ StorageInit
    /\ session = [w \in Writers |-> Fresh]
    /\ journal = [w \in Writers |-> <<>>]
    /\ reader = None
    /\ current = [of |-> None, whole |-> FALSE]

Log(w, where, what, name, value, id) ==
    journal' = [journal EXCEPT ![w] =
        Append(@, [where |-> where, what |-> what, name |-> name,
                   value |-> value, id |-> id,
                   late |-> session[w].mode # "open"])]

(* File(path, "w"): nothing touches the disk yet.                          *)
OpenWrite(w) ==
    /\ session[w].mode = "new"
    /\ \A v \in Writers : v < w => session[v].mode # "new"
    /\ session' = [session EXCEPT ![w].mode = "open"]
    /\ UNCHANGED <<storageVars, reader, journal, current>>

(* A numpy array of another dtype is refused, and nothing is kept.         *)
CreateDataset(w, name, data) ==
    /\ session[w].mode = "open" /\ Calls < MaxCalls
    /\ data.dtype \in Dtypes
    /\ session' = [session EXCEPT ![w].datasets =
                      Append(@, [name |-> name, data |-> data])]
    /\ Log(w, 0, "dataset", name, data, 0)
    /\ UNCHANGED <<storageVars, reader, current>>

CreateGroup(w, name) ==
    /\ session[w].mode = "open" /\ Calls < MaxCalls
    /\ session' = [session EXCEPT ![w].groups = Append(@, NewGroup(name))]
    /\ Log(w, 0, "group", name, None, Len(session[w].groups) + 1)
    /\ UNCHANGED <<storageVars, reader, current>>

(* Through a group handle, which does not know whether its file is still   *)
(* open; after close() the call succeeds all the same.                     *)
CreateInGroup(w, g, name, data) ==
    /\ session[w].mode \in {"open", "closed"} /\ Calls < MaxCalls
    /\ data.dtype \in Dtypes
    /\ session' = [session EXCEPT ![w].groups[g].datasets =
                      Append(@, [name |-> name, data |-> data])]
    /\ Log(w, g, "dataset", name, data, 0)
    /\ UNCHANGED <<storageVars, reader, current>>

SetAttr(w, g, name, value) ==
    /\ session[w].mode \in {"open", "closed"} /\ Calls < MaxCalls
    /\ session' =
         IF g = 0
         THEN [session EXCEPT ![w].attrs = SetItem(@, name, PyToAttr(value))]
         ELSE [session EXCEPT ![w].groups[g].attrs =
                  SetItem(@, name, PyToAttr(value))]
    /\ Log(w, g, "attr", name, value, 0)
    /\ UNCHANGED <<storageVars, reader, current>>

(* A mapping of a file that is truncated shows other bytes or faults; it   *)
(* is only marked, MmapReader's documentation rules its use out.           *)
Outdated ==
    reader' = IF reader # None /\ reader.mapped
              THEN [reader EXCEPT !.stale = TRUE] ELSE reader

(* The file created before it is known that there is something to write.   *)
CloseCreatesFirst(w) ==
    /\ session[w].mode = "open" /\ Quiet
    /\ session' = [session EXCEPT ![w].mode =
          IF FinishFails(session[w]) THEN "closed" ELSE "writing"]
    /\ Outdated
    /\ IF FinishFails(session[w])
       THEN disk' = <<>> /\ UNCHANGED <<pending, current>>
       ELSE /\ CreateTruncate(Image(session[w]))
            /\ current' = [of |-> w, whole |-> FALSE]
    /\ UNCHANGED journal

(* close() takes the state before anything else, so that a failure leaves  *)
(* a closed file and no second try.  The GIL is held until write() returns.*)
Close(w) ==
    /\ session[w].mode = "open" /\ Quiet
    /\ session' = [session EXCEPT ![w].mode =
          IF FinishFails(session[w]) THEN "closed" ELSE "writing"]
    /\ IF FinishFails(session[w])
       THEN UNCHANGED <<storageVars, reader, current>>
       ELSE /\ CreateTruncate(Image(session[w]))
            /\ Outdated
            /\ current' = [of |-> w, whole |-> FALSE]
    /\ UNCHANGED journal

WriteBlock ==
    /\ AppendBlock
    /\ UNCHANGED sessionVars

Closed(w) ==
    /\ session[w].mode = "writing"
    /\ \/ WriteReturns /\ current' = [current EXCEPT !.whole = TRUE]
       \/ WriteFails /\ UNCHANGED current
    /\ session' = [session EXCEPT ![w].mode = "closed"]
    /\ UNCHANGED <<reader, journal>>

(* The process that writes dies: its sessions and handles are gone, the    *)
(* file stays as it is.  Sessions not yet begun are those of the next one. *)
Crash ==
    /\ \E w \in Writers : session[w].mode \in {"open", "writing"}
    /\ ProcessDies
    /\ session' = [w \in Writers |->
          IF session[w].mode = "new" THEN Fresh ELSE [Fresh EXCEPT !.mode = "gone"]]
    /\ UNCHANGED <<reader, journal, current>>

(* File::open and File::open_buffered, by another process at any time.     *)
OpenRead(mapped) ==
    /\ reader = None /\ disk # None /\ Opens(disk)
    /\ reader' = [mapped |-> mapped, stale |-> FALSE, len |-> Len(disk),
                  data |-> IF mapped THEN <<>> ELSE disk,
                  of |-> current.of, whole |-> current.whole]
    /\ UNCHANGED <<storageVars, session, journal, current>>

CloseRead ==
    /\ reader # None
    /\ reader' = None
    /\ UNCHANGED <<storageVars, session, journal, current>>

SessionNext ==
    \/ \E w \in Writers :
         \/ OpenWrite(w) \/ Close(w) \/ Closed(w)
         \/ \E n \in Names, d \in Arrays : CreateDataset(w, n, d)
         \/ \E n \in GroupNames : CreateGroup(w, n)
         \/ \E g \in DOMAIN session[w].groups, n \in GroupNames, d \in Arrays :
                CreateInGroup(w, g, n, d)
         \/ \E g \in 0..Len(session[w].groups), n \in GroupNames, v \in AttrInputs :
                SetAttr(w, g, n, v)
    \/ WriteBlock
    \/ Crash
    \/ \E mapped \in BOOLEAN : OpenRead(mapped)
    \/ CloseRead

SessionSpec == Init /\ [][SessionNext]_<<storageVars, sessionVars>>

-----------------------------------------------------------------------------
(* A file that was written to its end can be opened until the next writing *)
(* begins, and answers, through any handle opened since, what the calls of *)
(* the session that wrote it come to: no call is lost, and none shows that *)
(* was made after close() or in a session whose close() failed.            *)
ReopenedIsReplayed ==
    /\ current.whole => Opens(disk)
    /\ (reader # None /\ ~reader.stale /\ reader.whole) =>
         \E bytes \in {BytesOf(reader)}, calls \in {journal[reader.of]} :
            /\ \A p \in Paths :
                 /\ Answer(bytes, p) = Told(calls, p)
                 /\ HasKey(bytes, p) = (Told(calls, p) # Failure)
                 /\ Told(calls, p).kind = "array" =>
                        AsyncRead(bytes, p) = Told(calls, p)
            /\ \A p \in Paths, n \in GroupNames : Len(p) < 2 =>
                  Attribute(bytes, p, n) = ToldAttribute(calls, p, n)

(* A file whose writing is under way, was cut by a crash or failed answers *)
(* with what was to be written or with an error, never with less.  Not so  *)
(* `in` (HasKey), which takes an error on the way for a missing name.      *)
PartialIsNoticed ==
    (reader # None /\ ~reader.stale /\ ~reader.whole) =>
        \E bytes \in {BytesOf(reader)}, calls \in {journal[reader.of]} :
            /\ \A p \in Paths :
                 /\ Answer(bytes, p) \in {Told(calls, p), Failure}
                 /\ AsyncRead(bytes, p) \in {Told(calls, p), Failure}
            /\ \A p \in Paths, n \in GroupNames : Len(p) < 2 =>
                  Attribute(bytes, p, n) \in {ToldAttribute(calls, p, n), Failure}
=============================================================================
