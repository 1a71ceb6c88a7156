------------------------- MODULE DurableCollection -------------------------
(***************************************************************************)
(* A sharded collection (cluster/durable_collection.hpp) as several        *)
(* threads write to it: supersession is planned from a search of all       *)
(* shards before the vector is written, and linked afterwards by two edges *)
(* on two shards. No lock spans these steps: a crash may come between any  *)
(* two of them, and a write that throws leaves out those that follow.      *)
(*                                                                         *)
(* A shard writes its log before its contents, under its own lock, so that *)
(* a restart finds the contents as they were (the subject of ReplicaSet):  *)
(* what a shard holds is one variable that survives crashes. All vectors   *)
(* of the model are versions of one fact: near enough, and of one key; of  *)
(* those that a shard has, its search returns any, up to `candidates`.     *)
(***************************************************************************)
EXTENDS CausalGraph, Sequences

CONSTANTS
    Shard,          \* 0 .. n_shards - 1
    Home,           \* hash_to_shard
    Caller,         \* the threads that write
    Time,           \* created_at of the vectors that are written
    Candidates,     \* candidates: the results of the search of one shard
    MaxCalls        \* bound: calls

ASSUME DurableCollectionAssumption ==
    /\ Home \in [Vertex -> Shard]
    /\ Shard \subseteq Nat /\ Time \subseteq Nat \ {0}
    /\ Candidates \in Nat \ {0} /\ MaxCalls \in Nat
    /\ \A s \in Shard : 0..s \subseteq Shard

VARIABLES
    shard,      \* created_at of the vectors of each shard (0: not there), and its graph
    call,       \* the call each thread makes
    calls,      \* how many there have been
    stored,     \* history: how often each id was written
    removed,    \* history: ids that were removed
    excused     \* history: pairs of ids whose upserts overlapped, were cut off by a crash or an
                \* exception, or of which one was not among the candidates of the other

dcVars == <<shard, call, calls, stored, removed, excused>>

NoCall == [stage |-> "idle"]

NoEdge == [type |-> "none"]

\* Edges that users add.
UserEdges == {Edge(x, y, "CONTRADICTS") : x, y \in Vertex}

MirrorsEdge(e) ==
    \/ e.type = "UPDATES"
    \/ e.type = "CONTRADICTS" /\ Home[e.src] # Home[e.tgt]

MirrorOf(e) == Edge(e.tgt, e.src, IF e.type = "UPDATES" THEN "SUPERSEDED_BY" ELSE e.type)

Present(id) == shard[Home[id]].at[id] > 0

Upserting(t) == call[t] # NoCall /\ call[t].op = "upsert"

-----------------------------------------------------------------------------
\* Mutant: the incoming vector always wins.
Link_Incoming(id, at, other, otherAt) == <<id, other>>

\* plan_supersession for one neighbour: <<newer, older>>. A tie goes to the incoming vector.
Link(id, at, other, otherAt) == IF otherAt <= at THEN <<id, other>> ELSE <<other, id>>

VectorsOf(sh) == {x \in Vertex : sh.at[x] > 0}

\* What the search of a shard may find, which is approximate; the vector that is written may be
\* among it.
Nearest(sh) == {found \in SUBSET VectorsOf(sh) : Cardinality(found) <= Candidates}

LeftOut(id, sh, found) == {{id, x} : x \in VectorsOf(sh) \ found}

\* Mutant: only what the incoming vector supersedes is linked.
Plan_OlderOnly(id, at, sh, found) == {<<id, other>> : other \in {x \in found \ {id} : sh.at[x] <= at}}

Plan(id, at, sh, found) == {Link(id, at, other, sh.at[other]) : other \in found \ {id}}

Start(t, c) ==
    /\ call[t] = NoCall /\ calls < MaxCalls
    /\ call' = [call EXCEPT ![t] = c]
    /\ calls' = calls + 1

BeginUpsert(t, id, at) ==
    /\ Start(t, [stage |-> "plan", op |-> "upsert", id |-> id, at |-> at, next |-> 0,
                 links |-> {}, edge |-> NoEdge])
    /\ stored' = [stored EXCEPT ![id] = @ + 1]
    /\ excused' = excused \cup {{id, call[u].id} : u \in {v \in Caller : Upserting(v)}}
    /\ UNCHANGED <<shard, removed>>

BeginAddEdge(t, e) ==
    /\ Start(t, [stage |-> "edge", op |-> "add_edge", links |-> {}, edge |-> e])
    /\ UNCHANGED <<shard, stored, removed, excused>>

\* remove: the shard forgets the vector and every edge of its own graph to or from it.
RemoveEverywhere(id) ==
    /\ calls < MaxCalls
    /\ calls' = calls + 1
    /\ shard' = [shard EXCEPT ![Home[id]].at[id] = 0,
                              ![Home[id]].graph = remove_node(@, id)]
    /\ removed' = removed \cup {id}
    /\ UNCHANGED <<call, stored, excused>>

\* _nearest_all_shards, one shard after the other.
PlanShard(t) ==
    /\ call[t].stage = "plan"
    /\ LET c == call[t]
           sh == shard[c.next]
       IN  \E found \in Nearest(sh) :
              /\ call' = [call EXCEPT ![t].links = @ \cup Plan(c.id, c.at, sh, found),
                                      ![t].next = @ + 1,
                                      ![t].stage = IF c.next + 1 \in Shard THEN "plan" ELSE "write"]
              /\ excused' = excused \cup LeftOut(c.id, sh, found)
    /\ UNCHANGED <<shard, calls, stored, removed>>

\* The shard logs and writes the vector.
WriteShard(t) ==
    /\ call[t].stage = "write"
    /\ shard' = [shard EXCEPT ![Home[call[t].id]].at[call[t].id] = call[t].at]
    /\ call' = [call EXCEPT ![t].stage = "link"]
    /\ UNCHANGED <<calls, stored, removed, excused>>

AlreadyLinked(link) == has_edge(shard[Home[link[2]]].graph, link[2], link[1], "SUPERSEDED_BY")

\* The next link of the plan; one that is there already is passed over.
NextLink(t) ==
    /\ call[t].stage = "link"
    /\ \E link \in call[t].links :
          call' = [call EXCEPT ![t].links = @ \ {link},
                               ![t].edge = Edge(link[1], link[2], "UPDATES"),
                               ![t].stage = IF AlreadyLinked(link) THEN "link" ELSE "edge"]
    /\ UNCHANGED <<shard, calls, stored, removed, excused>>

\* Mutant: the mirror is written first.
EdgeAt_MirrorFirst(e, stage) ==
    IF (stage = "mirror") = MirrorsEdge(e) THEN e ELSE MirrorOf(e)

\* add_edge writes the edge on the shard of its source, and then, where a search of the
\* other shard has to see it, the mirror on the shard of its target.
EdgeAt(e, stage) == IF stage = "edge" THEN e ELSE MirrorOf(e)

WriteEdge(t) ==
    /\ call[t].stage \in {"edge", "mirror"}
    /\ LET c == call[t]
           e == EdgeAt(c.edge, c.stage)
       IN  /\ shard' = [shard EXCEPT ![Home[e.src]].graph = add_edge(@, e)]
           /\ call' = [call EXCEPT ![t].stage =
                           IF c.stage = "edge" /\ MirrorsEdge(c.edge) THEN "mirror" ELSE "link"]
    /\ UNCHANGED <<calls, stored, removed, excused>>

Return(t) ==
    /\ call[t].stage = "link" /\ call[t].links = {}
    /\ call' = [call EXCEPT ![t] = NoCall]
    /\ UNCHANGED <<shard, calls, stored, removed, excused>>

\* An exception leaves the call: the shard refuses the vector, or throws when it has it (a missed
\* quorum), or the store of segments throws after that; or the log refuses an edge.
CallFails(t) ==
    /\ \/ call[t].stage \in {"write", "edge", "mirror"}
       \/ call[t].stage = "link" /\ call[t].edge = NoEdge
    /\ call' = [call EXCEPT ![t] = NoCall]
    /\ excused' = excused \cup {{call[u].id, x} : u \in {v \in {t} : Upserting(v)}, x \in Vertex}
    /\ UNCHANGED <<shard, calls, stored, removed>>

\* A crash, and the restart that replays the logs of the shards.
CrashAndRecover ==
    /\ \E t \in Caller : call[t] # NoCall
    /\ call' = [t \in Caller |-> NoCall]
    /\ excused' = excused \cup {{call[t].id, x} : t \in {u \in Caller : Upserting(u)}, x \in Vertex}
    /\ UNCHANGED <<shard, calls, stored, removed>>

DCInit ==
    /\ shard = [s \in Shard |-> [at |-> [id \in Vertex |-> 0], graph |-> EmptyGraph]]
    /\ call = [t \in Caller |-> NoCall]
    /\ calls = 0
    /\ stored = [id \in Vertex |-> 0]
    /\ removed = {}
    /\ excused = {}

DCNext ==
    \/ \E t \in Caller :
          \/ \E id \in Vertex, at \in Time : BeginUpsert(t, id, at)
          \/ \E e \in UserEdges : BeginAddEdge(t, e)
          \/ PlanShard(t) \/ WriteShard(t) \/ NextLink(t) \/ WriteEdge(t) \/ Return(t)
          \/ CallFails(t)
    \/ \E id \in Vertex : RemoveEverywhere(id)
    \/ CrashAndRecover

DCSpec == DCInit /\ [][DCNext]_dcVars

-----------------------------------------------------------------------------
superseded_by(id) == find_superseding(shard[Home[id]].graph, id)

\* When all writers are done, of two versions the older one is superseded by the newer, unless
\* they were written at the same time (neither search sees the other), a crash or a write that
\* threw cut one off, or one was not among the candidates that the search for the other returned.
VersionsLinked ==
    (\A t \in Caller : call[t] = NoCall) =>
        \A x, y \in Vertex :
            x # y /\ Present(x) /\ Present(y) /\ {x, y} \notin excused =>
                \/ shard[Home[x]].at[x] <= shard[Home[y]].at[y] /\ y \in superseded_by(x)
                \/ shard[Home[y]].at[y] <= shard[Home[x]].at[x] /\ x \in superseded_by(y)

\* What supersedes a vector is not older than it, if neither was written again nor removed; and
\* whatever a crash or an exception cuts off, an older version is not flagged without the edge
\* that says why: the mirror on the shard of the older one has its UPDATES edge on the shard of
\* the newer one.
SupersededByNewer ==
    \A x \in Vertex : \A y \in superseded_by(x) :
        /\ \/ stored[x] > 1 \/ stored[y] > 1 \/ {x, y} \cap removed # {}
           \/ ~Present(x) \/ ~Present(y)
           \/ shard[Home[x]].at[x] <= shard[Home[y]].at[y]
        /\ has_edge(shard[Home[x]].graph, x, y, "SUPERSEDED_BY") /\ {x, y} \cap removed = {} =>
               has_edge(shard[Home[y]].graph, y, x, "UPDATES")

\* Source and target find the same edges, also after their nodes were removed; and the
\* breadth-first search finds what is within reach.
GraphsConsistent ==
    \A s \in Shard :
        /\ Mirrored(shard[s].graph)
        /\ \A id \in {x \in Vertex : shard[s].graph.out[x] # {}} :
              get_neighbours(shard[s].graph, id, 2) = Within(shard[s].graph, id, 2)

\* "The vector with the later created_at becomes the newer version"
\* (docs/concepts/supersession.md:17): the newest version is not reported as superseded.
NewestNotSuperseded ==
    (\A t \in Caller : call[t] = NoCall) =>
        \A x \in Vertex :
            Present(x) /\ (\A y \in Vertex \ {x} : shard[Home[y]].at[y] < shard[Home[x]].at[x]) =>
                superseded_by(x) = {}
=============================================================================
