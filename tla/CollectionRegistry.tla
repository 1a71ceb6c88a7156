------------------------- MODULE CollectionRegistry -------------------------
(***************************************************************************)
(* The registry of collections (api/collection_registry.hpp): the          *)
(* collections and aliases in memory, registry.json, and the directories   *)
(* the collections keep their logs in. Requests hold on to a collection    *)
(* while it is dropped, created again or replaced by a snapshot.           *)
(*                                                                         *)
(* A collection that is created, or comes with a snapshot, gets a new      *)
(* number; what is said of its writes is said by that number.              *)
(***************************************************************************)
EXTENDS Naturals, FiniteSets

CONSTANTS
    Name,           \* names of collections and of aliases
    Request,        \* requests at work at once
    MaxMade,        \* bound: collections that are made
    MaxOpened       \* bound: collections, or whole registries, that are opened

ASSUME RegistryAssumption == {MaxMade, MaxOpened} \subseteq Nat

VARIABLES
    collections,    \* collections_: what each name stands for
    aliases,        \* aliases_
    file,           \* registry.json: collections and aliases
    dirs,           \* whose writes are in the directory of each name
    holds,          \* the collection each request holds
    op,             \* the operation that has lifecycle_mu_
    made,           \* collections made so far
    opened,         \* collections or registries opened so far
    trouble,        \* what has gone wrong: a save, a load, a replacement
    acked,          \* history: collections with an acknowledged write
    left            \* history: names whose directory was left behind

registryVars == <<collections, aliases, file, dirs, holds, op, made, opened, trouble, acked, left>>

\* No collection. A collection is its number, the instance, and whose writes it shows.
None == [num |-> 0, obj |-> 0, shows |-> {}]

NoName == "none"
NoHold == [name |-> NoName, num |-> 0, obj |-> 0]
NoOperation == [kind |-> "none"]
NoFile == [collections |-> [n \in Name |-> 0], aliases |-> [a \in Name |-> NoName]]

Exists(n) == collections[n] # None

_resolve_locked(n) == IF Exists(n) \/ aliases[n] = NoName THEN n ELSE aliases[n]

Replacing == op.kind = "replace"

\* Mutant: the registry is saved before the maps are changed.
Saved_Before == [collections |-> [n \in Name |-> collections[n].num], aliases |-> aliases]

\* _save_registry of the maps as they will be; if it throws, the maps stay changed.
Saved == [collections |-> [n \in Name |-> collections'[n].num], aliases |-> aliases']

SaveOrThrow ==
    \/ file' = Saved /\ UNCHANGED trouble
    \/ trouble' = trouble \cup {"save"} /\ UNCHANGED file

-----------------------------------------------------------------------------
create(n) ==
    /\ op = NoOperation /\ made < MaxMade /\ opened < MaxOpened
    /\ ~Exists(n) /\ aliases[n] = NoName
    /\ made' = made + 1 /\ opened' = opened + 1
    /\ collections' = [collections EXCEPT ![n] = [num |-> made + 1, obj |-> opened + 1, shows |-> {made + 1}]]
    /\ UNCHANGED <<aliases, dirs, holds, op, acked>>
    /\ SaveOrThrow
    /\ left' = IF file' = Saved THEN left ELSE left \cup {n}

\* Mutant: aliases of the collection stay.
WithoutAliasesOf_Kept(n) == aliases

WithoutAliasesOf(n) == [a \in Name |-> IF aliases[a] = n THEN NoName ELSE aliases[a]]

\* drop, up to the point where it waits for requests; a failed save ends it there.
DropBegins(n) ==
    /\ op = NoOperation /\ Exists(n)
    /\ collections' = [collections EXCEPT ![n] = None]
    /\ aliases' = WithoutAliasesOf(n)
    /\ SaveOrThrow
    /\ op' = IF file' = Saved THEN [kind |-> "drop", name |-> n, objs |-> {collections[n].obj}] ELSE NoOperation
    /\ left' = IF file' = Saved THEN left ELSE left \cup {n}
    /\ UNCHANGED <<dirs, holds, made, opened, acked>>

\* Mutant: nobody waits for the requests.
Drained_AtOnce(objs) == TRUE

\* No request holds one of them.
Drained(objs) == \A r \in Request : holds[r].obj \notin objs

\* The wait is over, or given up after 30 s; the files are removed, as far as they can be.
DropEnds ==
    /\ op.kind = "drop"
    /\ op' = NoOperation
    /\ \/ Drained(op.objs) /\ dirs' = [dirs EXCEPT ![op.name] = {}] /\ UNCHANGED left
       \/ Drained(op.objs) /\ left' = left \cup {op.name} /\ UNCHANGED dirs
       \/ /\ ~Drained(op.objs)
          /\ dirs' = [dirs EXCEPT ![op.name] = {}]
          /\ left' = left \cup {op.name}
    /\ UNCHANGED <<collections, aliases, file, holds, made, opened, trouble, acked>>

-----------------------------------------------------------------------------
\* acquire, by a name or an alias; while collections are replaced it waits.
acquire(r, n) ==
    /\ holds[r] = NoHold /\ ~Replacing
    /\ LET c == _resolve_locked(n)
       IN  /\ Exists(c)
           /\ holds' = [holds EXCEPT ![r] = [name |-> c, num |-> collections[c].num, obj |-> collections[c].obj]]
    /\ UNCHANGED <<collections, aliases, file, dirs, op, made, opened, trouble, acked, left>>

\* The request writes, answers, and lets the collection go. If the collection was closed under
\* it, the write may still end up in the directory of that name.
WriteAndRelease(r) ==
    /\ holds[r].num > 0
    /\ LET h == holds[r]
           current == collections[h.name].obj = h.obj \/ (op # NoOperation /\ h.obj \in op.objs)
       IN  /\ \/ dirs' = [dirs EXCEPT ![h.name] = @ \cup {h.num}]
              \/ ~current /\ UNCHANGED dirs
           /\ acked' = acked \cup {h.num}
    /\ holds' = [holds EXCEPT ![r] = NoHold]
    /\ UNCHANGED <<collections, aliases, file, op, made, opened, trouble, left>>

set_alias(a, n) ==
    /\ ~Exists(a) /\ Exists(n)
    /\ aliases' = [aliases EXCEPT ![a] = n]
    /\ UNCHANGED <<collections, dirs, holds, op, made, opened, acked, left>>
    /\ SaveOrThrow

delete_alias(a) ==
    /\ aliases[a] # NoName
    /\ aliases' = [aliases EXCEPT ![a] = NoName]
    /\ UNCHANGED <<collections, dirs, holds, op, made, opened, acked, left>>
    /\ SaveOrThrow

-----------------------------------------------------------------------------
\* load_and_recover: the collections of the file, each with what is in its directory, and the
\* aliases whose collection there is. If one cannot be opened, it and those after it are left out,
\* and no alias is looked at.
Opened(names, f, d) ==
    [n \in Name |-> IF n \in names
                    THEN [num |-> f.collections[n], obj |-> opened + 1, shows |-> d[n]]
                    ELSE None]

Registered(f) == {n \in Name : f.collections[n] > 0}

load_and_recover(f, d, fails) ==
    /\ opened < MaxOpened /\ opened' = opened + 1
    /\ IF fails
       THEN /\ \E names \in SUBSET Registered(f) \ {Registered(f)} : collections' = Opened(names, f, d)
            /\ aliases' = f.aliases
       ELSE /\ collections' = Opened(Registered(f), f, d)
            /\ aliases' = [a \in Name |-> IF f.aliases[a] \in Registered(f) THEN f.aliases[a] ELSE NoName]

LoadTrouble(fails) == IF fails THEN {"load"} ELSE {}

NotOpened == {n \in Registered(file') : collections'[n] = None}

\* replace_from_disk, up to the point where it waits for requests.
ReplaceBegins ==
    /\ op = NoOperation /\ made < MaxMade
    /\ op' = [kind |-> "replace", names |-> {n \in Name : Exists(n)},
              objs |-> {collections[n].obj : n \in Name} \ {0}]
    /\ collections' = [n \in Name |-> None]
    /\ aliases' = [a \in Name |-> NoName]
    /\ UNCHANGED <<file, dirs, holds, made, opened, trouble, acked, left>>

\* What replace_files leaves behind. The directories of the old collections go first, but for those
\* that cannot be removed (`stay`), then registry.json and the directories of the snapshot's names;
\* then its files are written, registry.json first. The snapshot has one collection, n.
Without(names) == [m \in Name |-> IF m \in names THEN {} ELSE dirs[m]]

Cleared(n, stay) == Without((op.names \cup {n}) \ stay)

Written(n, stay) == [Cleared(n, stay) EXCEPT ![n] = @ \cup {made + 1}]

SnapshotFile(n) == [NoFile EXCEPT !.collections[n] = made + 1]

\* The wait for some requests was given up: they may still write into the directories.
StillWritten == {holds[r].name : r \in {q \in Request : holds[q].obj \in op.objs}}

\* The files are replaced, and loaded. Whatever an earlier replacement left undone is done now.
ReplaceEnds ==
    /\ Replacing /\ made' = made + 1
    /\ \E n \in Name, stay \in SUBSET op.names, fails \in BOOLEAN :
          /\ dirs' = Written(n, stay)
          /\ file' = SnapshotFile(n)
          /\ load_and_recover(file', dirs', fails)
          /\ trouble' = (trouble \ {"replace"}) \cup LoadTrouble(fails)
          /\ left' = left \cup StillWritten \cup NotOpened \cup stay
    /\ acked' = acked \cup {made + 1}
    /\ op' = NoOperation
    /\ UNCHANGED holds

\* replace_files throws while it writes registry.json (NoFile: one that was cut short cannot be
\* parsed) or a directory: nothing is loaded, and the server goes on without collections, under
\* whose names there may be directories.
ReplaceFails ==
    /\ Replacing /\ made' = made + 1
    /\ \E n \in Name, stay \in SUBSET op.names :
          /\ \/ file' = NoFile /\ dirs' = Cleared(n, stay)
             \/ file' = SnapshotFile(n) /\ dirs' \in {Cleared(n, stay), Written(n, stay)}
          /\ trouble' = trouble \cup {"replace"}
          /\ left' = left \cup StillWritten \cup stay \cup {n}
    /\ acked' = acked \cup {made + 1}
    /\ op' = NoOperation
    /\ UNCHANGED <<collections, aliases, holds, opened>>

\* A crash between any two steps of replace_files, and the restart.
CrashInReplace ==
    /\ Replacing /\ made' = made + 1
    /\ holds' = [r \in Request |-> NoHold]
    /\ op' = NoOperation
    /\ \E n \in Name, stay \in SUBSET op.names, fails \in BOOLEAN :
          /\ \/ file' = file /\ dirs' = Without(op.names \ stay)
             \/ file' \in {NoFile, SnapshotFile(n)} /\ dirs' = Cleared(n, stay)
             \/ file' = SnapshotFile(n) /\ dirs' = Written(n, stay)
          /\ load_and_recover(file', dirs', fails)
          /\ trouble' = trouble \cup {"replace"} \cup LoadTrouble(fails)
          /\ left' = left \cup NotOpened \cup (IF file' = file THEN {} ELSE stay)
    /\ acked' = acked \cup {made + 1}

\* A crash, also in the middle of a drop, and the restart.
CrashAndLoad ==
    /\ ~Replacing
    /\ holds' = [r \in Request |-> NoHold]
    /\ op' = NoOperation
    /\ \E fails \in BOOLEAN :
          /\ load_and_recover(file, dirs, fails)
          /\ trouble' = trouble \cup LoadTrouble(fails)
    /\ UNCHANGED <<file, dirs, made, acked>>
    /\ left' = left \cup NotOpened \cup (IF op.kind = "drop" THEN {op.name} ELSE {})

RegistryInit ==
    /\ collections = [n \in Name |-> None]
    /\ aliases = [a \in Name |-> NoName]
    /\ file = NoFile
    /\ dirs = [n \in Name |-> {}]
    /\ holds = [r \in Request |-> NoHold]
    /\ op = NoOperation
    /\ made = 0 /\ opened = 0 /\ trouble = {}
    /\ acked = {} /\ left = {}

RegistryNext ==
    \/ \E n \in Name : create(n) \/ DropBegins(n) \/ delete_alias(n)
    \/ \E a, n \in Name : set_alias(a, n)
    \/ \E r \in Request : (\E n \in Name : acquire(r, n)) \/ WriteAndRelease(r)
    \/ DropEnds \/ ReplaceBegins \/ ReplaceEnds \/ ReplaceFails
    \/ CrashInReplace \/ CrashAndLoad

RegistrySpec == RegistryInit /\ [][RegistryNext]_registryVars

-----------------------------------------------------------------------------
\* A collection never shows a vector of an earlier one of its name: files go only after the last
\* request has let the collection go, and before the name is free again. A crash in the middle of
\* a drop, a removal that fails, a drain that is given up, a replacement that fails and a collection
\* that could not be opened or registered leave a directory behind, and nothing else does.
OnlyOwnWrites ==
    \A n \in Name \ left : Exists(n) => collections[n].shows \subseteq {collections[n].num}

\* A write that was answered is in the directory of its collection, and its collection is in
\* registry.json, as long as it is neither dropped nor replaced; unless a save failed, a load
\* left a collection out and the next save forgot it, or a replacement failed or was cut off by a
\* crash: that is made good when the next one ends.
AnsweredWritesKept ==
    \A n \in Name :
        Exists(n) /\ collections[n].num \in acked /\ {"save", "load", "replace"} \cap trouble = {} =>
            /\ collections[n].num \in dirs[n]
            /\ file.collections[n] = collections[n].num

\* An alias leads to a collection and is not the name of one, in memory and in the file.
AliasesLead ==
    "load" \notin trouble =>
        \A a \in Name : aliases[a] # NoName =>
            /\ Exists(aliases[a]) /\ ~Exists(a)
            /\ "save" \notin trouble => file.aliases[a] = aliases[a] /\ file.collections[aliases[a]] > 0

\* Names lead to the data: those of collections with answered writes, and aliases.
NamesLeadToData == AnsweredWritesKept /\ AliasesLead
=============================================================================
