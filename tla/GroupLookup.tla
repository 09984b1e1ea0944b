---------------------------- MODULE GroupLookup ----------------------------
(***************************************************************************)
(* How LazyFile (rustyhdf5/src/lazy.rs) finds objects by name.  A path is   *)
(* walked from the root: the header of each group is parsed, its entries    *)
(* are listed from a symbol table (version 1), from its link messages, or   *)
(* from a B-tree of records that name links in a fractal heap, and one of   *)
(* the wanted name is taken.  Headers read through a handle are cached;     *)
(* those of a walk are not.                                                 *)
(*                                                                          *)
(* Names, links and records are values; where the bytes of each lie in its  *)
(* structure is left out.                                                   *)
(***************************************************************************)
EXTENDS ObjectHeader, TLC

CONSTANTS Root,          \* address of the root group
          Paths,         \* the paths asked for
          MaxRequests    \* bound: questions asked of one file

VARIABLES request,    \* what was asked
          purpose,    \* what the header being read is for, "none" between requests
          here,       \* its address
          rest,       \* the part of the path not walked yet
          index,      \* leaves of a group's index not read yet
          items,      \* entries of the group last listed, as far as not looked at
          listing,    \* names listed so far
          cache,      \* header_cache and root_header: messages by address
          handles,    \* addresses of the groups handed out
          answer,     \* of the last request
          asked       \* bound: requests so far

vars == <<lost, version, frames, followed, messages, parse,
          request, purpose, here, rest, index, items, listing, cache, handles, answer, asked>>
walkVars == <<request, rest, index, items, listing, handles, asked>>

Heap == INSTANCE FractalHeap WITH Undefined <- None

-----------------------------------------------------------------------------
\* The leaves of an index in order, those of every part in turn; a part that is
\* not where its parent says leaves a mark, at which the listing will fail.
Joined(f(_), s) == FoldLeft(LAMBDA list, x : list \o f(x), << >>, s)
NoRecord == [type |-> 0, offset |-> 0, fits |-> TRUE]

\* Fault: only the first child of an inner node is followed.
SymbolNodesOfFirst(tree) ==
  LET below[a \in Nat] ==
        IF ~Readable(a, "TREE") THEN <<None>>
        ELSE IF File.at[a].level = 0 THEN File.at[a].children
        ELSE below[Head(File.at[a].children)]
  IN  below[tree]

\* collect_symbol_table_nodes: the symbol table nodes below a B-tree node.
SymbolNodes(tree) ==
  LET below[a \in Nat] ==
        IF ~Readable(a, "TREE") THEN <<None>>
        ELSE IF File.at[a].level = 0 THEN File.at[a].children
        ELSE Joined(LAMBDA c : below[c], File.at[a].children)
  IN  below[tree]

\* collect_btree_v2_records: records and children of a node alternate.
Records(tree) ==
  LET below[d \in Nat, a \in Nat, n \in Nat] ==
        IF ~Readable(a, IF d = 0 THEN "BTLF" ELSE "BTIN") THEN <<NoRecord>>
        ELSE IF d = 0 THEN SubSeq(File.at[a].records, 1, n)
        ELSE Joined(LAMBDA i : IF i % 2 = 0 THEN <<File.at[a].records[i \div 2]>>
                               ELSE LET c == File.at[a].children[(i + 1) \div 2] IN below[d - 1, c.to, c.records],
                    [i \in 1 .. 2 * n + 1 |-> i])
  IN  IF tree.total = 0 \/ tree.inRoot = 0 THEN << >> ELSE below[tree.depth, tree.root, tree.inRoot]

\* read_managed_object: where the link of a heap ID is.
Located(heap, id) ==
  LET tables == [a \in Nat |-> IF Readable(a, "FHIB") THEN File.at[a].entries ELSE Heap!NoTable]
  IN  IF id.type = 0 THEN Heap!LocateBlock(heap, id.offset, tables) ELSE Heap!NoBlock

\* The entries among messages, in order; a soft or external link is none.
IsEntry(m) == m.type = "Link" /\ m.to # None
HardLinks(ms) == LET among[i \in 0 .. Len(ms)] == IF i = 0 THEN << >>
                                                 ELSE IF IsEntry(ms[i]) THEN Append(among[i-1], ms[i])
                                                 ELSE among[i-1]
                 IN  among[Len(ms)]

Has(type) == \E i \in DOMAIN messages : messages[i].type = type
FirstOf(type) == messages[SelectInSeq(messages, LAMBDA m : m.type = type)]
IsGroup == Has("SymbolTable") \/ Has("LinkInfo") \/ Has("Link")

\* resolve_group_entries: a symbol table goes before link messages, and a
\* link info message with a heap before those.
IsV1 == Has("SymbolTable")
IsDense == ~IsV1 /\ Has("LinkInfo") /\ FirstOf("LinkInfo").heap # None

\* The first entry of a name.
Named(entries, name) == SelectInSeq(entries, LAMBDA e : e.name = name)

\* Links of every kind lead to the headers of objects, or to nothing.
Objects == DOMAIN File.blocks \cup {None}
ASSUME LinksAssumption ==
  /\ Root \in Objects
  /\ \A a \in DOMAIN File.blocks : \A b \in File.blocks[a] : \A i \in DOMAIN Msgs(b) :
       Msgs(b)[i].type = "Link" => Msgs(b)[i].to \in Objects
  /\ \A a \in Address : LET found == File.at[a] IN
       /\ found.kind = "SNOD" => /\ found.entries \in Seq(Range(found.entries))
                                /\ \A i \in DOMAIN found.entries : found.entries[i].to \in Objects
       /\ found.kind = "FHDB" => \A place \in DOMAIN found.objects :
            found.objects[place].type = "Link" => found.objects[place].to \in Objects

-----------------------------------------------------------------------------
Init == /\ HeaderInit
        /\ request = [op |-> "open", from |-> Root, path |-> << >>]
        /\ purpose = "open" /\ here = Root /\ rest = << >>
        /\ index = << >> /\ items = << >> /\ listing = << >> /\ cache = << >>
        /\ handles = {} /\ answer = [is |-> "none"] /\ asked = 0

\* dataset(path) and group(path) of a file; dataset(name), group(name) and
\* datasets() and groups() of a group handle.
Requests == [op : {"dataset", "group"}, from : {Root}, path : Paths]
            \cup [op : {"member", "subgroup"}, from : handles, path : {p \in Paths : Len(p) = 1}]
            \cup [op : {"datasets", "groups"}, from : handles, path : {<< >>}]

Answer(a) == /\ answer' = a
             /\ purpose' = "none"

HandOut(a) == /\ handles' = handles \cup {a}
              /\ Answer([is |-> "group", at |-> a])

\* What a header is read for next: one of a walk, or of a shared message, is parsed
\* in any case, others are taken from the cache if they are there.
LookAt(a, for) == /\ here' = a /\ purpose' = for
                  /\ IF for \notin {"walk", "shared"} /\ a \in DOMAIN cache
                     THEN parse' = "parsed" /\ messages' = cache[a]
                     ELSE parse' = "idle" /\ messages' = << >>
                  /\ version' = 1 /\ frames' = << >> /\ followed' = 0

Ask == /\ purpose = "none" /\ asked < MaxRequests /\ Root \in DOMAIN cache
       /\ \E r \in Requests :
            /\ request' = r /\ rest' = r.path /\ asked' = asked + 1
            /\ index' = << >> /\ items' = << >> /\ listing' = << >>
            /\ \/ /\ r.op \in {"member", "subgroup", "datasets", "groups"}
                  /\ LookAt(r.from, "children")
                  /\ answer' = [is |-> "none"] /\ UNCHANGED handles
               \/ /\ r.op \in {"dataset", "group"} /\ r.path # << >>
                  /\ LookAt(Root, "walk")
                  /\ answer' = [is |-> "none"] /\ UNCHANGED handles
               \/ /\ r.op = "dataset" /\ r.path = << >>
                  /\ LookAt(Root, "target")
                  /\ answer' = [is |-> "none"] /\ UNCHANGED handles
               \/ /\ r.op = "group" /\ r.path = << >>
                  /\ HandOut(Root)
                  /\ UNCHANGED <<headerVars, here>>
       /\ UNCHANGED <<lost, cache>>

Parse == /\ purpose # "none"
         /\ \/ parse = "idle" /\ OpenHeader(here)
            \/ ParseStep
         /\ UNCHANGED <<lost, walkVars, purpose, here, cache, answer>>

\* Any error of a parser ends the request.
ParseFails == /\ purpose # "none" /\ parse \in Errors
              /\ Answer([is |-> parse])
              /\ UNCHANGED <<lost, headerVars, walkVars, here, cache>>

Parsed == purpose # "none" /\ parse = "parsed"

CacheWith(a) == [x \in DOMAIN cache \cup {a} |-> IF x = a THEN messages ELSE cache[x]]

\* Fault: a header is kept under the address the request began at.
RememberedAsFirst == CacheWith(request.from)

\* get_or_parse_header keeps what it parsed; resolve_path_any does not.
Remembered == IF purpose = "walk" THEN cache ELSE CacheWith(here)

Opened == /\ Parsed /\ purpose = "open"
          /\ cache' = Remembered
          /\ handles' = {Root}
          /\ Answer([is |-> "opened"])
          /\ UNCHANGED <<lost, headerVars, request, rest, index, items, listing, here, asked>>

-----------------------------------------------------------------------------
\* A group on the way, or the group of a handle: its entries are listed, leaf by
\* leaf of its index if it has one.
AtGroup == Parsed /\ purpose \in {"walk", "children"} /\ cache' = Remembered

ListV1 == /\ AtGroup /\ IsV1
          /\ LET table == FirstOf("SymbolTable")
             IN  \/ /\ Readable(table.heap, "HEAP")
                    /\ index' = SymbolNodes(table.tree) /\ items' = << >>
                    /\ purpose' = "index" /\ UNCHANGED answer
                 \/ /\ ~Readable(table.heap, "HEAP")
                    /\ Answer([is |-> "damaged"]) /\ UNCHANGED <<index, items>>
          /\ UNCHANGED <<lost, headerVars, request, rest, listing, handles, asked, here>>

ListDense == /\ AtGroup /\ IsDense
             /\ LET info == FirstOf("LinkInfo")
                    isSound == Readable(info.heap, "FRHP") /\ Readable(info.tree, "BTHD")
                IN  \/ /\ isSound
                       \* Records too short for a heap ID are passed over.
                       /\ index' = SelectSeq(Records(File.at[info.tree]), LAMBDA r : r.fits)
                       /\ items' = << >> /\ purpose' = "index" /\ UNCHANGED answer
                    \/ /\ ~isSound
                       /\ Answer([is |-> "damaged"]) /\ UNCHANGED <<index, items>>
             /\ UNCHANGED <<lost, headerVars, request, rest, listing, handles, asked, here>>

\* What is not a group has no entries either: a walk finds nothing in it, a
\* handle lists nothing.
ListCompact == /\ AtGroup /\ ~IsV1 /\ ~IsDense
               /\ items' = HardLinks(messages)
               /\ index' = << >> /\ purpose' = "index"
               /\ UNCHANGED <<lost, headerVars, request, rest, listing, handles, asked, here, answer>>

Leaf == Head(index)
LeafRead(entries) == /\ items' = items \o entries /\ index' = Tail(index)
                     /\ UNCHANGED <<purpose, answer>>
LeafFails == Answer([is |-> "damaged"]) /\ UNCHANGED <<items, index>>

\* A symbol table node: every entry, with its name from the local heap.
ReadNode == /\ purpose = "index" /\ index # << >> /\ IsV1
            /\ LET names   == File.at[FirstOf("SymbolTable").heap].names
                   symbols == IF Readable(Leaf, "SNOD") THEN File.at[Leaf].entries ELSE << >>
                   isSound == Readable(Leaf, "SNOD") /\ \A i \in DOMAIN symbols : symbols[i].name \in DOMAIN names
               IN  \/ isSound /\ LeafRead([i \in DOMAIN symbols |-> [name |-> names[symbols[i].name], to |-> symbols[i].to]])
                   \/ ~isSound /\ LeafFails
            /\ UNCHANGED <<lost, headerVars, request, rest, listing, handles, asked, here, cache>>

\* A record: the link its heap ID names; what is no link cannot be parsed.
ReadRecord == /\ purpose = "index" /\ index # << >> /\ IsDense
              /\ \E place \in {Located(File.at[FirstOf("LinkInfo").heap], Leaf)} :
                   LET objects == File.at[place.block].objects
                       isSound == /\ Readable(place.block, "FHDB") /\ place.place \in DOMAIN objects
                                  /\ objects[place.place].type = "Link"
                   IN  \/ isSound /\ LeafRead(HardLinks(<<objects[place.place]>>))
                       \/ ~isSound /\ LeafFails
              /\ UNCHANGED <<lost, headerVars, request, rest, listing, handles, asked, here, cache>>

AllRead == /\ purpose = "index" /\ index = << >>
           /\ purpose' = "entries"
           /\ UNCHANGED <<lost, headerVars, walkVars, here, cache, answer>>

Wanted == Named(items, Head(rest))

NotFound == /\ purpose = "entries" /\ rest # << >>
            /\ Wanted = 0
            /\ Answer([is |-> "absent"])
            /\ UNCHANGED <<lost, headerVars, walkVars, here, cache>>

Found == /\ purpose = "entries" /\ rest # << >>
         /\ Wanted # 0
         /\ rest' = Tail(rest)
         /\ LET to == items[Wanted].to
            IN  \/ /\ rest' # << >>
                   /\ LookAt(to, "walk") /\ UNCHANGED <<answer, handles>>
                \/ /\ rest' = << >> /\ request.op \in {"dataset", "member"}
                   /\ LookAt(to, "target") /\ UNCHANGED <<answer, handles>>
                \/ /\ rest' = << >> /\ request.op \in {"group", "subgroup"}
                   /\ HandOut(to) /\ UNCHANGED <<headerVars, here>>
         /\ UNCHANGED <<lost, request, index, items, listing, cache, asked>>

Target == /\ Parsed /\ purpose = "target"
          /\ cache' = Remembered
          /\ Answer(IF Has("DataLayout") THEN [is |-> "dataset", at |-> here] ELSE [is |-> "not a dataset"])
          /\ UNCHANGED <<lost, headerVars, walkVars, here>>

\* datasets() and groups(): the header of every entry is looked at, and those
\* with data, or with links, are named.
AtItem == request.op \in {"datasets", "groups"} /\ purpose = "entries"

NextItem == /\ AtItem /\ items # << >>
            /\ LookAt(Head(items).to, "item")
            /\ UNCHANGED <<lost, walkVars, cache, answer>>

IsListed == IF request.op = "datasets" THEN Has("DataLayout") ELSE IsGroup

Item == /\ Parsed /\ purpose = "item"
        /\ cache' = Remembered
        /\ listing' = IF IsListed THEN Append(listing, Head(items).name) ELSE listing
        /\ items' = Tail(items) /\ purpose' = "entries"
        /\ UNCHANGED <<lost, headerVars, request, rest, index, handles, asked, here, answer>>

Listing == /\ AtItem /\ items = << >>
           /\ Answer([is |-> request.op, names |-> listing])
           /\ UNCHANGED <<lost, headerVars, walkVars, here, cache>>

Step == \/ Parse \/ ParseFails \/ Opened
        \/ ListV1 \/ ListDense \/ ListCompact \/ ReadNode \/ ReadRecord \/ AllRead
        \/ NotFound \/ Found \/ Target
        \/ NextItem \/ Item \/ Listing

Next == Ask \/ Step

Spec == Init /\ [][Next]_vars
\* A request is one call of sequential code.
FairSpec == Spec /\ WF_vars(Step)

-----------------------------------------------------------------------------
\* What the file says, however it is stored: the object at the end of a path.
Along(from, path) ==
  LET at[i \in 0 .. Len(path)] ==
        IF i = 0 THEN from
        ELSE IF at[i-1] \in DOMAIN File.members /\ path[i] \in DOMAIN File.members[at[i-1]]
        THEN File.members[at[i-1]][path[i]] ELSE None
  IN  at
Reached == Along(request.from, request.path)[Len(request.path)]

\* An answer names the object of that path, says that there is none, or lists
\* the datasets or the groups in it, and is right even when a part of the file is
\* damaged, however the group is stored.
AnswersAreTrue ==
  /\ answer.is \in {"dataset", "group"} => answer.at = Reached
  /\ answer.is = "dataset" => Reached \in File.datasets
  /\ answer.is = "not a dataset" => Reached # None /\ Reached \notin File.datasets
  /\ answer.is = "absent" => Reached = None
  /\ answer.is \in {"datasets", "groups"} =>
        LET all  == IF Reached \in DOMAIN File.members THEN File.members[Reached] ELSE << >>
            kind == IF answer.is = "datasets" THEN File.datasets ELSE DOMAIN File.members
        IN  /\ Range(answer.names) = {n \in DOMAIN all : all[n] \in kind}
            /\ IsInjective(answer.names)

\* The objects a request has to read.
Visited == LET along == Along(request.from, request.path)
               last  == IF request.op \in {"group", "subgroup"} THEN Len(request.path) - 1 ELSE Len(request.path)
           IN  {along[i] : i \in 0 .. last}
                 \cup (IF request.op \in {"datasets", "groups"} /\ Reached \in DOMAIN File.members
                       THEN Range(File.members[Reached]) ELSE {})

\* A request for an object fails only if an object it has to read is damaged, or has a header
\* this reader refuses; damage elsewhere, and headers at the limits, do not matter.
ErrorsAreEarned ==
  request.op \notin {"attrs", "shared", "entries"} /\ answer.is \in Errors =>
    \E a \in Visited : \/ answer.is = "damaged" /\ a # None /\ lost \in File.parts[a]
                       \/ a \in DOMAIN File.refused /\ File.refused[a] = answer.is

\* The cache of headers gives each object its own header, and only sound ones.
CacheIsTrue == \A a \in DOMAIN cache : /\ a \notin DOMAIN File.refused
                                       /\ lost \notin File.blocks[a]
                                       /\ IsWhole(a, cache[a])

\* Every request is answered, though headers may continue in a circle.
AnswersCome == purpose # "none" ~> purpose = "none"
=============================================================================
