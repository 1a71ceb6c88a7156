---------------------------- MODULE ClusterState ----------------------------
(***************************************************************************)
(* The collection of each node of a cluster, as the commands of the Raft   *)
(* log are applied to it (api/rest_server.hpp). An agent's memories expire *)
(* (cluster/durable_collection.hpp), near duplicates of what is visible    *)
(* are not stored (core/collection.hpp), newer versions are linked to      *)
(* older ones, and every search purges what has expired: what a command    *)
(* does depends on the clock of the node at the time it gets there.        *)
(*                                                                         *)
(* All vectors of the model are near each other and in one shard; clocks   *)
(* run alike, but nodes lag behind.                                        *)
(***************************************************************************)
EXTENDS CausalGraph, Sequences, SequencesExt

CONSTANTS
    Peer,           \* the nodes
    Fact,           \* the ids that clients write
    Ttl,            \* memory_ttl_seconds
    MaxTick,        \* bound: time
    MaxCommands,    \* bound: commands
    MaxReplays      \* bound: restarts and snapshots installed

ASSUME ClusterStateAssumption ==
    Fact \subseteq Vertex /\ {Ttl, MaxTick, MaxCommands, MaxReplays} \subseteq Nat

VARIABLES
    config,     \* dedup: dedup_threshold is set; supersede: supersession is enabled
    tick,       \* the time
    commands,   \* the committed commands
    nodeState,  \* each node: the commands applied, created_at of each vector (0: none), graph, log
    planned,    \* each node: the links planned for the vector that is about to be written
    evaluated,  \* history: when each command was evaluated, on whichever node
    replays     \* restarts and snapshots so far

csVars == <<config, tick, commands, nodeState, planned, evaluated, replays>>

NoLinks == [busy |-> FALSE, links |-> {}]

-----------------------------------------------------------------------------
\* Mutant: the purge takes a vector at the last moment it is still valid.
Expired_AtOnce(at, t) == at + Ttl <= t

\* set_ttl_seconds counts from created_at; valid_until itself is still valid.
Expired(at, t) == at + Ttl < t

\* What a search of the index returns.
Visible(index, t) == {id \in Vertex : index[id] > 0 /\ index[id] + Ttl >= t}

\* purge_expired leaves the graph alone.
purge_expired(index, t) == [id \in Vertex |-> IF Expired(index[id], t) THEN 0 ELSE index[id]]

\* Collection::upsert
Stores(index, t) == ~(config.dedup /\ Visible(index, t) # {})

UpsertIn(index, id, at, t) == IF Stores(index, t) THEN [index EXCEPT ![id] = at] ELSE index

\* plan_supersession, as <<newer, older>>.
PlanLinks(index, id, at, t) ==
    IF ~config.supersede THEN {}
    ELSE {IF index[other] <= at THEN <<id, other>> ELSE <<other, id>> :
              other \in Visible(index, t) \ {id}}

\* The two edges of each link that is not there yet.
EdgesOf(graph, links) ==
    UNION {{Edge(l[1], l[2], "UPDATES"), Edge(l[2], l[1], "SUPERSEDED_BY")} :
               l \in {m \in links : ~has_edge(graph, m[2], m[1], "SUPERSEDED_BY")}}

WithEdges(graph, edges) ==
    [out |-> [id \in Vertex |-> graph.out[id] \cup {e \in edges : e.src = id}],
     in  |-> [id \in Vertex |-> graph.in[id] \cup {e \in edges : e.tgt = id}]]

-----------------------------------------------------------------------------
\* The log of the shard.
UpsertRecord(id, at) == [kind |-> "upsert", id |-> id, at |-> at]
DeleteRecords(ids) == [kind |-> "delete", ids |-> ids]   \* those of one call
EdgesRecord(edges) == [kind |-> "edges", edges |-> edges]

\* remove of some vectors, one after the other.
WithoutVectors(index, ids) == [id \in Vertex |-> IF id \in ids THEN 0 ELSE index[id]]
WithoutNodes(graph, ids) == FoldLeft(remove_node, graph, SetToSeq(ids))

\* recover_primary: records are applied by the same code, at the time of the replay.
ReplayRecord(s, r, t) ==
    CASE r.kind = "upsert" -> [index |-> UpsertIn(s.index, r.id, r.at, t), graph |-> s.graph]
      [] r.kind = "delete" -> [index |-> WithoutVectors(s.index, r.ids), graph |-> WithoutNodes(s.graph, r.ids)]
      [] r.kind = "edges"  -> [index |-> s.index, graph |-> WithEdges(s.graph, r.edges)]

NoVectors == [index |-> [id \in Vertex |-> 0], graph |-> EmptyGraph]

Replayed(records, t) ==
    LET after[k \in 0..Len(records)] ==
            IF k = 0 THEN NoVectors ELSE ReplayRecord(after[k - 1], records[k], t)
    IN  after[Len(records)]

Recovered(s, t) == [s EXCEPT !.index = Replayed(s.wal, t).index, !.graph = Replayed(s.wal, t).graph]

-----------------------------------------------------------------------------
TimePasses ==
    /\ tick < MaxTick
    /\ tick' = tick + 1
    /\ UNCHANGED <<config, commands, nodeState, planned, evaluated, replays>>

\* A command is submitted and committed. The leader stamps an upsert that has no created_at. (That
\* more of them wait before any node gets there makes no difference.)
SubmitCommand ==
    /\ Len(commands) < MaxCommands
    /\ \A k \in DOMAIN commands : evaluated[k] # {}
    /\ \E c \in [op : {"upsert"}, id : Fact, at : 1..tick]
                \cup [op : {"delete"}, id : Fact] \cup [op : {"delete_where"}] :
          commands' = Append(commands, c)
    /\ evaluated' = Append(evaluated, {})
    /\ UNCHANGED <<config, tick, nodeState, planned, replays>>

NextCommand(n) == commands[nodeState[n].applied + 1]

HasCommand(n, op) == nodeState[n].applied < Len(commands) /\ NextCommand(n).op = op

\* The command is looked at on node n now.
Evaluate(n) == evaluated' = [evaluated EXCEPT ![nodeState[n].applied + 1] = @ \cup {tick}]

\* DurableCollection::upsert, first the search for older and newer versions ...
UpsertBegins(n) ==
    /\ HasCommand(n, "upsert") /\ ~planned[n].busy
    /\ planned' = [planned EXCEPT ![n] =
                       [busy  |-> TRUE,
                        links |-> PlanLinks(nodeState[n].index, NextCommand(n).id, NextCommand(n).at, tick)]]
    /\ Evaluate(n)
    /\ UNCHANGED <<config, tick, commands, nodeState, replays>>

\* ... then the shard, and the links.
UpsertEnds(n) ==
    /\ planned[n].busy
    /\ LET c == NextCommand(n)
           edges == EdgesOf(nodeState[n].graph, planned[n].links)
       IN  nodeState' = [nodeState EXCEPT
               ![n].applied = @ + 1,
               ![n].index = UpsertIn(@, c.id, c.at, tick),
               ![n].graph = WithEdges(@, edges),
               ![n].wal = @ \o <<UpsertRecord(c.id, c.at), EdgesRecord(edges)>>]
    /\ planned' = [planned EXCEPT ![n] = NoLinks]
    /\ Evaluate(n)
    /\ UNCHANGED <<config, tick, commands, replays>>

Removed(s, ids) ==
    [s EXCEPT !.applied = @ + 1,
              !.index = WithoutVectors(@, ids),
              !.graph = WithoutNodes(@, ids),
              !.wal = Append(@, DeleteRecords(ids))]

ApplyDelete(n) ==
    /\ HasCommand(n, "delete")
    /\ nodeState' = [nodeState EXCEPT ![n] = Removed(@, {NextCommand(n).id})]
    /\ Evaluate(n)
    /\ UNCHANGED <<config, tick, commands, planned, replays>>

\* remove_where: a scroll lists the vectors, all of which match, that are still valid.
Matching(index, t) == {id \in Fact : id \in Visible(index, t)}

ApplyDeleteWhere(n) ==
    /\ HasCommand(n, "delete_where")
    /\ nodeState' = [nodeState EXCEPT ![n] = Removed(@, Matching(nodeState[n].index, tick))]
    /\ Evaluate(n)
    /\ UNCHANGED <<config, tick, commands, planned, replays>>

\* A search on node n, which the other nodes know nothing of.
Search(n) ==
    /\ nodeState[n].index # purge_expired(nodeState[n].index, tick)
    /\ nodeState' = [nodeState EXCEPT ![n].index = purge_expired(@, tick)]
    /\ UNCHANGED <<config, tick, commands, planned, evaluated, replays>>

\* With deduplication a replay decides again which vectors are stored.
EvaluateAgain(upto) ==
    evaluated' = [k \in DOMAIN evaluated |->
        IF config.dedup /\ k <= upto /\ commands[k].op = "upsert" THEN evaluated[k] \cup {tick}
        ELSE evaluated[k]]

\* Node n is restarted between two commands, or restores a snapshot of node m that is ahead of it:
\* the files of the shard are replayed.
RestartOrRestore(n, m) ==
    /\ replays < MaxReplays
    /\ n = m \/ nodeState[m].applied > nodeState[n].applied
    /\ ~planned[n].busy /\ ~planned[m].busy
    /\ nodeState' = [nodeState EXCEPT ![n] = Recovered(nodeState[m], tick)]
    /\ EvaluateAgain(nodeState[m].applied)
    /\ replays' = replays + 1
    /\ UNCHANGED <<config, tick, commands, planned>>

\* There is a past already, which clients may stamp their vectors with.
CSInit ==
    /\ config \in {[dedup |-> d, supersede |-> TRUE] : d \in BOOLEAN}
    /\ tick = 2
    /\ commands = <<>> /\ evaluated = <<>>
    /\ nodeState = [n \in Peer |-> [applied |-> 0, index |-> NoVectors.index, graph |-> NoVectors.graph,
                                    wal |-> <<>>]]
    /\ planned = [n \in Peer |-> NoLinks]
    /\ replays = 0

CSNext ==
    \/ TimePasses \/ SubmitCommand
    \/ \E n \in Peer :
          \/ UpsertBegins(n) \/ UpsertEnds(n) \/ ApplyDelete(n) \/ ApplyDeleteWhere(n)
          \/ Search(n)
          \/ \E m \in Peer : RestartOrRestore(n, m)

CSSpec == CSInit /\ [][CSNext]_csVars

-----------------------------------------------------------------------------
\* A vector expired between two evaluations of the command.
Straddled(k) ==
    \E t1, t2 \in evaluated[k], j \in 1..(k - 1) :
        commands[j].op = "upsert" /\ t1 <= commands[j].at + Ttl /\ commands[j].at + Ttl < t2

\* What clients see of a vector on node n.
Shown(n, id) ==
    IF id \in Visible(nodeState[n].index, tick)
    THEN [at |-> nodeState[n].index[id], superseded_by |-> find_superseding(nodeState[n].graph, id)]
    ELSE [at |-> 0, superseded_by |-> {}]

\* Two nodes that have applied the same commands show the same vectors with the same newer versions,
\* wherever searches have purged, and whichever node was restarted or got a snapshot; unless some
\* vector expired between two evaluations of a command.
NodesAgree ==
    \A n, m \in Peer :
        /\ nodeState[n].applied = nodeState[m].applied
        /\ ~planned[n].busy /\ ~planned[m].busy
        /\ \A k \in 1..nodeState[n].applied : ~Straddled(k)
        => \A id \in Vertex : Shown(n, id) = Shown(m, id)

\* "so all replicas execute the same deterministic sequence of writes" (rest_server.hpp:548-549):
\* the same without the exception.
ReplicasIdentical ==
    \A n, m \in Peer :
        nodeState[n].applied = nodeState[m].applied /\ ~planned[n].busy /\ ~planned[m].busy
        => \A id \in Vertex : Shown(n, id) = Shown(m, id)

\* "results with a newer version get superseded_by populated" (supersession.hpp:17-18): while nothing
\* expires or is removed, what supersedes a vector is there. (Links are planned before the shard turns
\* a duplicate away, and made after it.)
SupersededByStored ==
    (\A k \in DOMAIN commands : commands[k].op = "upsert" /\ ~Expired(commands[k].at, tick)) =>
        \A n \in Peer, id \in Vertex : Shown(n, id).superseded_by \subseteq Visible(nodeState[n].index, tick)
=============================================================================
