----------------------------- MODULE Attributes -----------------------------
(***************************************************************************)
(* The attributes of the objects GroupLookup finds: attrs() of a handle     *)
(* (rustyhdf5/src/lazy.rs) reads those in the object's header, those that   *)
(* another header shares, and those an attribute info message leaves in a   *)
(* fractal heap (attribute.rs).  Besides, the table of shared messages,     *)
(* whose calls (shared_message.rs) no reader makes for itself.              *)
(*                                                                          *)
(* An attribute, like any shared message, is its number here.               *)
(***************************************************************************)
EXTENDS GroupLookup

VARIABLE info       \* the attribute info message of the object asked about

attrVars == <<vars, info>>

NoInfo == [type |-> "AttributeInfo", heap |-> None, tree |-> None]

AttributesInit == Init /\ info = NoInfo

\* is_shared
IsShared(m) == "ref" \in DOMAIN m

\* resolve_shared_message: the message in the header a reference leads to.  If there
\* is none the code returns a reference or a message of another type, in which no
\* attribute can be read.
Shared(header, type) == SelectInSeq(header, LAMBDA m : m.type = type /\ ~IsShared(m))

\* parse_shared_ref and resolve_shared_message without a table: a reference is to
\* a header (kinds 1 and 3), or into the heap of the table, which is not at hand.
NeedsTable(ref) == ref.kind = 2

-----------------------------------------------------------------------------
\* attrs() of a group handle, and of a dataset found just now.
Holders == {[op |-> "attrs", from |-> a, path |-> << >>] :
              a \in handles \cup (IF answer.is = "dataset" THEN {answer.at} ELSE {})}

AskAttributes ==
  /\ purpose = "none" /\ asked < MaxRequests /\ Root \in DOMAIN cache
  /\ \E r \in Holders : request' = r /\ LookAt(r.from, "attrs")
  /\ asked' = asked + 1 /\ rest' = << >> /\ index' = << >> /\ items' = << >> /\ listing' = << >>
  /\ answer' = [is |-> "none"] /\ info' = NoInfo
  /\ UNCHANGED <<lost, handles, cache>>

Attrs == /\ Parsed /\ purpose = "attrs"
         /\ cache' = Remembered
         /\ items' = SelectSeq(messages, LAMBDA m : m.type = "Attribute")
         /\ info' = IF Has("AttributeInfo") THEN FirstOf("AttributeInfo") ELSE NoInfo
         /\ purpose' = "attributes"
         /\ UNCHANGED <<lost, headerVars, request, here, rest, index, listing, handles, answer, asked>>

AtAttribute == purpose = "attributes" /\ items # << >>

OwnAttribute == /\ AtAttribute /\ ~IsShared(Head(items))
                /\ listing' = Append(listing, Head(items).number)
                /\ items' = Tail(items)
                /\ UNCHANGED <<lost, headerVars, request, purpose, here, rest, index, cache, handles, answer, asked, info>>

\* The other header is parsed anew.
FollowReference == /\ AtAttribute /\ IsShared(Head(items))
                   /\ \/ NeedsTable(Head(items).ref) /\ Answer([is |-> "unsupported"]) /\ UNCHANGED <<headerVars, here>>
                      \/ ~NeedsTable(Head(items).ref) /\ LookAt(Head(items).ref.to, "shared") /\ UNCHANGED answer
                   /\ UNCHANGED <<lost, walkVars, cache, info>>

SharedAttribute ==
  /\ Parsed /\ purpose = "shared"
  /\ LET found == Shared(messages, "Attribute")
     IN  \/ /\ found # 0
            /\ listing' = Append(listing, messages[found].number)
            /\ items' = Tail(items) /\ purpose' = "attributes" /\ UNCHANGED answer
         \/ /\ found = 0
            /\ Answer([is |-> "damaged"]) /\ UNCHANGED <<items, listing>>
  /\ UNCHANGED <<lost, headerVars, request, here, rest, index, cache, handles, asked, info>>

\* Fault: an object with attributes in its header is not looked up in the heap.
ListWhenNone ==
  /\ purpose = "attributes" /\ items = << >>
  /\ LET isSound == Readable(info.heap, "FRHP") /\ Readable(info.tree, "BTHD")
     IN  \/ /\ info.heap = None \/ listing # << >>
            /\ index' = << >> /\ purpose' = "attribute heap" /\ UNCHANGED answer
         \/ /\ info.heap # None /\ listing = << >> /\ isSound
            /\ index' = SelectSeq(Records(File.at[info.tree]), LAMBDA r : r.fits)
            /\ purpose' = "attribute heap" /\ UNCHANGED answer
         \/ /\ info.heap # None /\ listing = << >> /\ ~isSound
            /\ Answer([is |-> "damaged"]) /\ UNCHANGED index
  /\ UNCHANGED <<lost, headerVars, request, here, rest, items, listing, cache, handles, asked, info>>

\* extract_dense_attributes, after the attributes of the header.
ListAttributes ==
  /\ purpose = "attributes" /\ items = << >>
  /\ LET isSound == Readable(info.heap, "FRHP") /\ Readable(info.tree, "BTHD")
     IN  \/ /\ info.heap = None
            /\ index' = << >> /\ purpose' = "attribute heap" /\ UNCHANGED answer
         \/ /\ info.heap # None /\ isSound
            /\ index' = SelectSeq(Records(File.at[info.tree]), LAMBDA r : r.fits)
            /\ purpose' = "attribute heap" /\ UNCHANGED answer
         \/ /\ info.heap # None /\ ~isSound
            /\ Answer([is |-> "damaged"]) /\ UNCHANGED index
  /\ UNCHANGED <<lost, headerVars, request, here, rest, items, listing, cache, handles, asked, info>>

\* The object of a heap ID, or nothing.
HeapObject(heap, id) ==
  LET place == Located(File.at[heap], id)
  IN  IF Readable(place.block, "FHDB") /\ place.place \in DOMAIN File.at[place.block].objects
      THEN {File.at[place.block].objects[place.place]} ELSE {}

HeapAttribute ==
  /\ purpose = "attribute heap" /\ index # << >>
  /\ \E found \in {HeapObject(info.heap, Leaf)} :
       \/ /\ found # {}
          /\ \E object \in found : listing' = Append(listing, object.number)
          /\ index' = Tail(index) /\ UNCHANGED <<purpose, answer>>
       \/ found = {} /\ Answer([is |-> "damaged"]) /\ UNCHANGED <<listing, index>>
  /\ UNCHANGED <<lost, headerVars, request, here, rest, items, cache, handles, asked, info>>

AttributesRead == /\ purpose = "attribute heap" /\ index = << >>
                  /\ Answer([is |-> "attributes", numbers |-> listing])
                  /\ UNCHANGED <<lost, headerVars, walkVars, here, cache, info>>

-----------------------------------------------------------------------------
\* find_index_for_msg_type: the first index of the table that takes the type.
IndexOf(table, type) == SelectInSeq(table, LAMBDA i : type \in i.types)

\* resolve_sohm_message
InTable(type, id) ==
  LET table == File.at[File.table].indexes
      i     == IndexOf(table, type)
      found == HeapObject(table[i].heap, id)
  IN  CASE ~Readable(File.table, "SMTB")         -> [is |-> "damaged"]
        [] i = 0 \/ table[i].heap = None         -> [is |-> "unsupported"]
        [] ~Readable(table[i].heap, "FRHP")      -> [is |-> "damaged"]
        [] found = {}                            -> [is |-> "damaged"]
        [] OTHER -> [is |-> "shared", number |-> (CHOOSE object \in found : TRUE).number]

\* parse_sohm_list and parse_sohm_btree_entries: what an index of the table lists.
Entries(i) ==
  LET kind == File.at[File.table].indexes[i]
  IN  CASE ~Readable(File.table, "SMTB") -> [is |-> "damaged"]
        [] Readable(kind.list, "SMLI")   ->
             [is |-> "entries", ids |-> SubSeq(File.at[kind.list].entries, 1, kind.messages)]
        [] Readable(kind.tree, "BTHD") /\ NoRecord \notin Range(Records(File.at[kind.tree])) ->
             [is |-> "entries", ids |-> Records(File.at[kind.tree])]
        [] OTHER -> [is |-> "damaged"]

\* A caller that has the table message of the superblock's extension.
AskTable == /\ purpose = "none" /\ asked < MaxRequests
            /\ asked' = asked + 1
            /\ \/ \E s \in File.shared :
                    /\ request' = [op |-> "shared", from |-> Root, path |-> <<s>>]
                    /\ answer' = InTable(s.type, s.id)
               \/ \E i \in 1 .. File.indexes :
                    /\ request' = [op |-> "entries", from |-> Root, path |-> <<i>>]
                    /\ answer' = Entries(i)
            /\ UNCHANGED <<lost, headerVars, purpose, here, rest, index, items, listing, cache, handles, info>>

AttributeStep == \/ Attrs \/ OwnAttribute \/ FollowReference \/ SharedAttribute
                 \/ ListAttributes \/ HeapAttribute \/ AttributesRead

AttributesNext == \/ Ask /\ info' = NoInfo
                  \/ Step /\ UNCHANGED info
                  \/ AskAttributes \/ AskTable \/ AttributeStep

AttributesSpec == /\ AttributesInit /\ [][AttributesNext]_attrVars
                  /\ WF_attrVars((Step /\ UNCHANGED info) \/ AttributeStep)

-----------------------------------------------------------------------------
\* The structures whose damage may keep an answer about contents from coming.
Needed == CASE request.op = "attrs"   -> File.parts[request.from] \cup File.attributeParts[request.from]
            [] request.op = "shared"  -> request.path[1].parts
            [] request.op = "entries" -> File.listed[request.path[1]].parts

Unresolvable ==
  \/ /\ request.op = "attrs"
     /\ \E file \in {File.unresolved, File.refused} : request.from \in DOMAIN file /\ file[request.from] = answer.is
  \/ /\ request.op = "shared"
     /\ request.path[1].number = None /\ answer.is = "unsupported"

\* attrs() gives each attribute of the object once, in whatever header or heap it
\* is; the table of shared messages gives the message of a reference and all it
\* lists.  None of them gives a part for the whole when a structure is damaged,
\* and each fails only for damage to what it has to read, or for what it refuses.
ContentsAreTrue ==
  /\ answer.is = "attributes" => /\ Range(answer.numbers) = File.attributes[request.from]
                                 /\ IsInjective(answer.numbers)
  /\ answer.is = "shared" => answer.number = request.path[1].number
  /\ answer.is = "entries" => Range(answer.ids) = File.listed[request.path[1]].ids
  /\ request.op \in {"attrs", "shared", "entries"} /\ answer.is \in Errors =>
        Unresolvable \/ (answer.is = "damaged" /\ lost \in Needed)
=============================================================================
