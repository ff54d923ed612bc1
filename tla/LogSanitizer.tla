----------------------------- MODULE LogSanitizer -----------------------------
(***************************************************************************)
(* What the logging SDKs make of the fields of one log record.             *)
(*                                                                         *)
(* The Go SanitizingHandler collects attributes and group names (WithAttrs,*)
(* WithGroup) and treats a record in one pass that shares one budget of    *)
(* nodes; the Python formatter does the same with a dictionary.            *)
(*                                                                         *)
(* The sanitizer calls itself for what a group, a map or a list holds.     *)
(* Here a step is one call of it, and work are the calls that are still to *)
(* come, the next one in front.  Strings, numbers and their encoding are   *)
(* left out; a key counts by its normalized form.                          *)
(***************************************************************************)
EXTENDS Integers, Sequences, FiniteSets, SequencesExt

CONSTANTS
    Keys, NormalizeKey,     \* the names, and the normalized form of each
    BuiltinSensitiveKeys,
    AllOptions,             \* HandlerOptions, also those that are refused
    Values, Kind, Items,    \* the values, and what each is and holds
    Attrs,                  \* the attributes of Go programs
    Fields,                 \* the fields of Python programs
    GroupNames,
    MaxWith, MaxRecord      \* bounds: what a handler collects, what a record has

\* "nil" is the nil or None that has no type; a nil map or pointer is a leaf.
Kinds == {"nil", "leaf", "bad", "group", "map", "list"}
Attr == [key : Keys, value : Values]

\* Values are numbered in the order in which they were made: a value holds older ones.
\* The elements of a list have no name.
ASSUME LogConstants ==
    /\ "" \in Keys /\ NormalizeKey[""] = "" /\ "" \notin BuiltinSensitiveKeys
    /\ Values \subseteq Nat
    /\ Kind \in [Values -> Kinds] /\ Items \in [Values -> Seq(Attr)]
    /\ \A v \in Values : \A i \in DOMAIN Items[v] :
         Items[v][i].value < v /\ (Kind[v] = "list" => Items[v][i].key = "")
    /\ Attrs \subseteq Attr /\ Fields \subseteq Attr /\ GroupNames \subseteq Keys \ {""}
    /\ AllOptions \subseteq [attributes : Int, depth : Int, extra : SUBSET Keys]
    /\ MaxWith \in Nat /\ MaxRecord \in Nat

\* Zero stands for the default.
NormalizeOptions(o) ==
    [o EXCEPT !.attributes = IF @ = 0 THEN 64 ELSE @, !.depth = IF @ = 0 THEN 8 ELSE @]

ValidOptions(o) ==
    /\ NormalizeOptions(o).attributes >= 1 /\ NormalizeOptions(o).depth >= 1
    /\ \A key \in o.extra : NormalizeKey[key] # ""

VARIABLES
    options,   \* the options of the handler
    handler,   \* what WithAttrs and WithGroup have collected
    entry,     \* what the record being treated was given, <<>> between records
    work,      \* the calls of the sanitizer to come
    out, left  \* the fields so far, each with the place of its parent; the budget

vars == <<options, handler, entry, work, out, left>>

Init ==
    /\ options \in {NormalizeOptions(o) : o \in {p \in AllOptions : ValidOptions(p)}}
    /\ handler = [attrs |-> <<>>, groups |-> <<>>]
    /\ entry = <<>> /\ work = <<>> /\ out = <<>> /\ left = options.attributes

-----------------------------------------------------------------------------
(* The sanitizer *)

SensitiveKey(key) ==
    NormalizeKey[key] \in BuiltinSensitiveKeys \cup {NormalizeKey[k] : k \in options.extra}

Field(parent, key, kind, value, group) ==
    [parent |-> parent, key |-> key, kind |-> kind, value |-> value, group |-> group]

Put(field) == out' = Append(out, field) /\ left' = left - 1

\* Fault: the name of a group is not looked at.
Placeholder_OpenGroup(key, depth) == IF depth > options.depth THEN "truncated" ELSE "group"

Placeholder(key, depth) ==
    IF SensitiveKey(key) THEN "redacted"
    ELSE IF depth > options.depth THEN "truncated"
    ELSE "group"

\* Fault: only the last field is looked at.
GroupsNamed_Last(target, key) ==
    {i \in DOMAIN out : i = Len(out) /\ out[i].group /\ out[i].parent = target /\ out[i].key = key}

GroupsNamed(target, key) ==
    {i \in DOMAIN out : out[i].group /\ out[i].parent = target /\ out[i].key = key}

GroupAt(target, key) ==
    IF GroupsNamed(target, key) = {} THEN Len(out) + 1
    ELSE CHOOSE i \in GroupsNamed(target, key) : TRUE

InObject(target) == target # 0 /\ out[target].kind = "object"

\* The group is looked up, or made for one node.  A group in an object becomes a
\* Go map like the object itself.
Group(target, key, depth) ==
    IF GroupsNamed(target, key) # {} THEN UNCHANGED <<out, left>>
    ELSE LET kind == Placeholder(key, depth)
         IN  Put(Field(target, key, IF kind = "group" /\ InObject(target) THEN "object" ELSE kind, 0, TRUE))

IsOpen(kind) == kind \in {"group", "object"}

\* What becomes of a value of a map or a list, or of an attribute that is no group.
Clean(value, depth) ==
    IF depth > options.depth THEN "truncated"
    ELSE CASE Kind[value] \in {"leaf", "nil"} -> "leaf"
           [] Kind[value] = "bad"   -> "unserializable"
           [] Kind[value] = "group" -> "object"
           [] OTHER -> Kind[value]

Call(target, groups, attr, depth, how) ==
    [target |-> target, groups |-> groups, attr |-> attr, depth |-> depth, how |-> how]

\* An attribute of a group is added, a value of a map or a list is cleaned.
Into == [group |-> "add", map |-> "member", list |-> "element"]

Calls(value, target, depth) ==
    [i \in DOMAIN Items[value] |-> Call(target, <<>>, Items[value][i], depth, Into[Kind[value]])]

\* The call that is next; with an empty budget there is none.
This == Head(work)
Busy == work # <<>> /\ left > 0
Frame == UNCHANGED <<options, handler, entry>>

IsNothing(c) == c.how = "add" /\ c.attr.key = "" /\ Kind[c.attr.value] = "nil"

\* The name decides, and the value is not looked at.
ByName(c) ==
    CASE c.how = "add" -> c.attr.key # "" /\ (SensitiveKey(c.attr.key) \/ c.depth > options.depth)
      [] c.how = "member" -> SensitiveKey(c.attr.key)
      [] OTHER -> FALSE

IsGroup(c) == c.how = "add" /\ Kind[c.attr.value] = "group"


\* Nothing is logged for the empty attribute and for an empty group.
AddNothing ==
    /\ Busy
    /\ \/ IsNothing(This)
       \/ /\ This.groups = <<>> /\ ~ByName(This)
          /\ IsGroup(This) /\ Items[This.attr.value] = <<>>
    /\ work' = Tail(work)
    /\ UNCHANGED <<out, left>> /\ Frame

\* One step into the groups of WithGroup; a group that is not open swallows the attribute.
AddUnderGroup ==
    /\ Busy /\ ~IsNothing(This) /\ This.groups # <<>>
    /\ LET name == Head(This.groups)
           at   == GroupAt(This.target, name)
       IN  /\ Group(This.target, name, This.depth)
           /\ work' = IF IsOpen(out'[at].kind)
                      THEN <<[This EXCEPT !.target = at, !.groups = Tail(@), !.depth = @ + 1]>> \o Tail(work)
                      ELSE Tail(work)
    /\ Frame

AddByName ==
    /\ Busy /\ This.groups = <<>> /\ ByName(This)
    /\ Put(Field(This.target, This.attr.key, Placeholder(This.attr.key, This.depth), 0, FALSE))
    /\ work' = Tail(work)
    /\ Frame

AddGroup ==
    /\ Busy /\ This.groups = <<>> /\ ~ByName(This)
    /\ IsGroup(This) /\ Items[This.attr.value] # <<>>
    /\ \/ /\ This.attr.key = ""
          /\ work' = Calls(This.attr.value, This.target, This.depth) \o Tail(work)
          /\ UNCHANGED <<out, left>>
       \/ /\ This.attr.key # ""
          /\ Group(This.target, This.attr.key, This.depth)
          /\ work' = Calls(This.attr.value, GroupAt(This.target, This.attr.key), This.depth + 1)
                       \o Tail(work)
    /\ Frame

AddValue ==
    /\ Busy /\ This.groups = <<>> /\ ~ByName(This)
    /\ ~IsNothing(This) /\ ~IsGroup(This)
    /\ LET value == This.attr.value
           kind  == Clean(value, This.depth)
       IN  /\ Put(Field(This.target, This.attr.key, kind, IF kind = "leaf" THEN value ELSE 0, FALSE))
           /\ work' = IF kind \in {"object", "map", "list"}
                      THEN Calls(value, Len(out) + 1, This.depth + 1) \o Tail(work)
                      ELSE Tail(work)
    /\ Frame

\* Every loop ends with the budget.
Exhausted ==
    /\ work # <<>> /\ left = 0
    /\ work' = <<>>
    /\ UNCHANGED <<out, left>> /\ Frame

-----------------------------------------------------------------------------
(* Handlers and records *)

Collected == Len(handler.attrs) + Len(handler.groups)

WithAttrs ==
    /\ entry = <<>> /\ Collected < MaxWith
    /\ \E a \in Attrs :
         handler' = [handler EXCEPT !.attrs = Append(@, [groups |-> handler.groups, attr |-> a, how |-> "add"])]
    /\ UNCHANGED <<options, entry, work, out, left>>

WithGroup ==
    /\ entry = <<>> /\ Collected < MaxWith
    /\ \E name \in GroupNames : handler' = [handler EXCEPT !.groups = Append(@, name)]
    /\ UNCHANGED <<options, entry, work, out, left>>

\* The fields of a record are treated in their order.
Begin(given) ==
    /\ entry = <<>> /\ given # <<>>
    /\ entry' = given
    /\ work' = [i \in DOMAIN given |-> Call(0, given[i].groups, given[i].attr, 1, given[i].how)]
    /\ out' = <<>> /\ left' = options.attributes
    /\ UNCHANGED <<options, handler>>

\* A record whose level is enabled: fixed attributes, then those of the context,
\* then its own.
Handle ==
    \E own \in SeqOf(Attrs, MaxRecord) :
        Begin(handler.attrs
                \o [i \in DOMAIN own |-> [groups |-> handler.groups, attr |-> own[i], how |-> "add"]])

\* The Python formatter: its static fields, then those of the record that have
\* another name; a dictionary has every key once.
Format ==
    /\ Collected = 0
    /\ \E fields \in SeqOf(Fields, MaxRecord) :
         /\ \A i, j \in DOMAIN fields : i # j => fields[i].key # fields[j].key
         /\ Begin([i \in DOMAIN fields |-> [groups |-> <<>>, attr |-> fields[i], how |-> "member"]])

\* The record goes to the next handler.
Emit ==
    /\ entry # <<>> /\ work = <<>>
    /\ entry' = <<>> /\ out' = <<>> /\ left' = options.attributes
    /\ UNCHANGED <<options, handler, work>>

Next ==
    \/ WithAttrs \/ WithGroup \/ Handle \/ Format \/ Emit
    \/ AddNothing \/ AddUnderGroup \/ AddByName \/ AddGroup \/ AddValue \/ Exhausted

Spec == Init /\ [][Next]_vars

-----------------------------------------------------------------------------
(* What is in the log *)

\* The names on the way to each field.
Path(fields) ==
    LET path[i \in 0..Len(fields)] ==
          IF i = 0 THEN <<>> ELSE Append(path[fields[i].parent], fields[i].key)
    IN  path

\* A later field of the same object has the same name.
HasNamesake(i) ==
    /\ InObject(out[i].parent)
    /\ \E j \in (i + 1)..Len(out) : out[j].parent = out[i].parent /\ out[j].key = out[i].key

\* fieldsObject: in an object the last field with a name replaces the others, and with
\* each what it holds.
Replaced ==
    LET replaced[i \in 0..Len(out)] == i # 0 /\ (replaced[out[i].parent] \/ HasNamesake(i))
    IN  replaced

Logged == LET replaced == Replaced IN {i \in DOMAIN out : ~replaced[i]}

Told(fields, places) ==
    LET path == Path(fields)
    IN  {[path |-> path[i], value |-> fields[i].value] : i \in {n \in places : fields[n].kind = "leaf"}}

-----------------------------------------------------------------------------
(* What was given *)

Under(path, leaves) == [i \in DOMAIN leaves |-> [leaves[i] EXCEPT !.path = path \o @]]

\* The leaves of an attribute, a member or an element, and those that a value holds,
\* in their order and with the names on the way to each.  A group without a name adds
\* none, unless it is a member or an element.
Named(how, attr, leaves) ==
    IF how = "add" /\ attr.key = "" /\ Kind[attr.value] = "nil" THEN <<>>
    ELSE IF how = "add" /\ attr.key = "" /\ Kind[attr.value] = "group" THEN leaves
    ELSE Under(<<attr.key>>, leaves)

Leaves[v \in Values] ==
    CASE Kind[v] \in {"nil", "leaf"} -> <<[path |-> <<>>, value |-> v]>>
      [] Kind[v] = "bad" -> <<>>
      [] OTHER -> FlattenSeq([i \in DOMAIN Items[v] |->
                    Named(Into[Kind[v]], Items[v][i], Leaves[Items[v][i].value])])

Given == FlattenSeq([i \in DOMAIN entry |->
            Under(entry[i].groups, Named(entry[i].how, entry[i].attr, Leaves[entry[i].attr.value]))])

-----------------------------------------------------------------------------
(* Properties *)

Places == {"group", "object", "map", "list", "leaf", "redacted", "truncated", "unserializable"}
Modes == {"add", "member", "element"}
Inputs == [groups : Seq(Keys), attr : Attr, how : Modes \ {"element"}]
PendingCalls == [target : Nat, groups : Seq(Keys), attr : Attr, depth : Nat, how : Modes]
LogFields == [parent : Nat, key : Keys, kind : Places, value : Nat, group : BOOLEAN]

TypeOK ==
    /\ options.attributes \in Nat \ {0} /\ options.depth \in Nat \ {0}
    /\ \A key \in options.extra : NormalizeKey[key] # ""
    /\ handler.attrs \in Seq(Inputs) /\ handler.groups \in Seq(Keys)
    /\ entry \in Seq(Inputs)
    /\ work \in Seq(PendingCalls)
    /\ out \in Seq(LogFields)
    /\ left \in Nat

Shown(leaf) ==
    /\ Len(leaf.path) <= options.depth
    /\ \A i \in DOMAIN leaf.path : ~SensitiveKey(leaf.path[i])

\* A name on the way to the leaf is that of a later field in the same object, which is
\* in the log.
GaveWay(leaf) ==
    LET path == Path(out)
    IN  \E i \in DOMAIN out, j \in Logged :
            /\ InObject(out[i].parent) /\ i < j
            /\ out[i].parent = out[j].parent /\ out[i].key = out[j].key
            /\ IsPrefix(path[i], leaf.path)

\* A value is in the log under exactly the names it was given, unless one of them is
\* sensitive, it is too deep, or a namesake in the same object took its place; when the
\* budget ends it cuts off what comes last.  This holds whether a name comes from
\* WithGroup, a group, a map, a list or a LogValuer.
LeavesAreRight ==
    (entry # <<>> /\ work = <<>>) =>
    LET given  == Given
        logged == Told(out, Logged)
    IN  \E k \in 0..Len(given) :
            LET shown == {given[i] : i \in {n \in 1..k : Shown(given[n])}}
            IN  /\ logged \subseteq shown
                /\ \A leaf \in shown \ logged : GaveWay(leaf)
                /\ left > 0 => k = Len(given)

\* Every field, group, member and element costs one node, and nothing else does: one
\* budget for the collected attributes, the context and the record, from which a group
\* is charged once however many attributes share it.
BudgetIsExact ==
    /\ Len(out) + left = options.attributes
    /\ \A i, j \in DOMAIN out :
         (out[i].group /\ out[j].group /\ out[i].parent = out[j].parent /\ out[i].key = out[j].key) => i = j

=============================================================================
