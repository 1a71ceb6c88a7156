---------------------------- MODULE ShardRouter ----------------------------
(***************************************************************************)
(* The router in front of several Raft groups                              *)
(* (cluster/multi_raft_router.hpp): which group owns which range of hashes,*)
(* and how requests are split or broadcast, forwarded, retried and         *)
(* answered. A group is one state machine here; which of its replicas is   *)
(* asked, and the redirections until the leader is found, are left out.    *)
(*                                                                         *)
(* An attempt whose answer does not arrive may have been executed, may be  *)
(* executed later (its entry is in the group's log), or never; the router  *)
(* tries again until its deadline.                                         *)
(***************************************************************************)
EXTENDS Naturals, Sequences

CONSTANTS
    HashMax,        \* UINT64_MAX
    MaxGroups,      \* bound: groups
    Vec,            \* vector ids
    HashOf,         \* shard_hash
    Caller,         \* request threads of the router
    Batches,        \* sets of vectors that requests name
    MaxOps,         \* bound: requests
    MaxLost         \* bound: attempts without an answer

ASSUME RouterAssumption ==
    /\ MaxGroups \in Nat \ {0} /\ {MaxOps, MaxLost} \subseteq Nat
    /\ Batches \subseteq (SUBSET Vec) \ {{}}
    /\ HashMax \in Nat /\ HashMax >= MaxGroups
    /\ HashOf \in [Vec -> 0..HashMax]

VARIABLES
    placement,      \* cfg_.placement: the ranges of the groups
    exists,         \* groups that have the collection
    vecs,           \* the write each group has of each vector; 0: none
    calls_,         \* the request of each thread, with the state of its call to each group
    inFlight,       \* attempts that may still be executed, as <<group, request>>
    lastWrite,      \* history: per vector the last request that touches it, and whether it was confirmed
    lastDdl,        \* history: the last create or drop, and its answer
    mixed,          \* history: requests that another one may have come between
    ops,            \* requests so far
    lost            \* attempts without an answer so far

routerVars == <<placement, exists, vecs, calls_, inFlight, lastWrite, lastDdl, mixed, ops, lost>>

-----------------------------------------------------------------------------
\* The placement.

\* Mutant: a range starts where the one before ends.
RangeOf_Shared(i, n) ==
    [lo |-> i * (HashMax \div n), hi |-> IF i + 1 = n THEN HashMax ELSE (i + 1) * (HashMax \div n)]

\* uniform, for group i of n.
RangeOf(i, n) ==
    [lo |-> IF i = 0 THEN 0 ELSE i * (HashMax \div n) + 1,
     hi |-> IF i + 1 = n THEN HashMax ELSE (i + 1) * (HashMax \div n)]

uniform(n) == [k \in 1..n |-> RangeOf(k - 1, n)]

\* The hash after a range, in as many bits as the hash has.
NextHash(r) == (r.hi + 1) % (HashMax + 1)

validate(p) ==
    /\ \A k \in DOMAIN p : p[k].hi >= p[k].lo /\ p[k].lo = IF k = 1 THEN 0 ELSE NextHash(p[k - 1])
    /\ p[Len(p)].hi = HashMax

Ranges == [lo : 0..HashMax, hi : 0..HashMax]

\* Equal splits, and what validate lets pass of the rest.
Placements ==
    UNION {{uniform(n)} \cup {p \in [1..n -> Ranges] : validate(p)} : n \in 1..MaxGroups}

\* Mutant: the last hash of a range goes to the next group.
owner_Next(h) == CHOOSE k \in DOMAIN placement :
    (placement[k].hi > h \/ k = Len(placement)) /\ \A j \in 1..(k - 1) : placement[j].hi <= h

\* The first group whose range does not end before the hash.
owner(h) == CHOOSE k \in DOMAIN placement :
    placement[k].hi >= h /\ \A j \in 1..(k - 1) : placement[j].hi < h

-----------------------------------------------------------------------------
\* Requests and what a group makes of them.

Group == DOMAIN placement

NoCall_ == [kind |-> "none"]

Op(kind, num, ids) == [kind |-> kind, num |-> num, ids |-> ids]

\* upsert and delete go to the owners of their vectors, the rest to all groups.
Addressed(op) ==
    IF op.kind \in {"upsert", "delete"} THEN {owner(HashOf[id]) : id \in op.ids} ELSE Group

Part(op, g) ==
    IF op.kind \in {"upsert", "delete"} THEN {id \in op.ids : owner(HashOf[id]) = g} ELSE op.ids

Verdict(op, g) ==
    CASE op.kind = "create" -> IF g \in exists THEN "exists" ELSE "ok"
      [] OTHER              -> IF g \in exists THEN "ok" ELSE "missing"

\* The group executes the request (delete_by_filter matches every vector of the model).
Execute(op, g) ==
    /\ exists' = CASE op.kind = "create" -> exists \cup {g}
                   [] op.kind = "drop"   -> exists \ {g}
                   [] OTHER              -> exists
    /\ vecs' = [vecs EXCEPT ![g] =
                   [id \in Vec |->
                       IF g \notin exists \/ id \notin Part(op, g) \/ op.kind = "create" THEN vecs[g][id]
                       ELSE IF op.kind = "upsert" THEN op.num ELSE 0]]

Touches(op) == IF op.kind = "create" THEN {} ELSE op.ids

IsDdl(op) == op.kind \in {"create", "drop"}

Conflict(o, p) == (IsDdl(o) /\ IsDdl(p)) \/ Touches(o) \cap Touches(p) # {}

UnderWay ==
    {calls_[c].op : c \in {d \in Caller : calls_[d] # NoCall_}} \cup {e[2] : e \in inFlight}

-----------------------------------------------------------------------------
\* A request arrives; call_group starts for each group it is for.
Forward(c, op) ==
    /\ calls_[c] = NoCall_ /\ ops < MaxOps
    /\ ops' = ops + 1
    /\ calls_' = [calls_ EXCEPT ![c] = [kind |-> "call", op |-> op,
                                        sub |-> [g \in Addressed(op) |-> "calling"]]]
    /\ lastWrite' = [id \in Vec |-> IF id \in Touches(op)
                                    THEN [op |-> op, confirmed |-> FALSE] ELSE lastWrite[id]]
    /\ lastDdl' = IF IsDdl(op) THEN [op |-> op, answer |-> "none"] ELSE lastDdl
    /\ mixed' = LET others == {o \in UnderWay : Conflict(o, op)}
                IN  mixed \cup {o.num : o \in others} \cup (IF others = {} THEN {} ELSE {op.num})
    /\ UNCHANGED <<placement, exists, vecs, inFlight, lost>>

\* The leader of the group executes the request, and its answer arrives.
Answers(c, g) ==
    /\ calls_[c] # NoCall_ /\ g \in DOMAIN calls_[c].sub /\ calls_[c].sub[g] = "calling"
    /\ Execute(calls_[c].op, g)
    /\ calls_' = [calls_ EXCEPT ![c].sub[g] = Verdict(calls_[c].op, g)]
    /\ UNCHANGED <<placement, inFlight, lastWrite, lastDdl, mixed, ops, lost>>

\* No answer, or 503: it is tried again, and this attempt may yet be executed.
Unconfirmed(c, g) ==
    /\ calls_[c] # NoCall_ /\ g \in DOMAIN calls_[c].sub /\ calls_[c].sub[g] = "calling"
    /\ lost < MaxLost
    /\ lost' = lost + 1
    /\ inFlight' = inFlight \cup {<<g, calls_[c].op>>}
    /\ UNCHANGED <<placement, exists, vecs, calls_, lastWrite, lastDdl, mixed, ops>>

LateExecution ==
    /\ \E e \in inFlight : Execute(e[2], e[1]) /\ inFlight' = inFlight \ {e}
    /\ UNCHANGED <<placement, calls_, lastWrite, lastDdl, mixed, ops, lost>>

\* The deadline.
GivesUp(c, g) ==
    /\ calls_[c] # NoCall_ /\ g \in DOMAIN calls_[c].sub /\ calls_[c].sub[g] = "calling"
    /\ calls_' = [calls_ EXCEPT ![c].sub[g] = "failed"]
    /\ UNCHANGED <<placement, exists, vecs, inFlight, lastWrite, lastDdl, mixed, ops, lost>>

\* Mutant: one group that did it is enough.
AllDone_Any(results, done) == results \cap done # {}

AllDone(results, done) == results \subseteq done

\* The status a request is answered with, from those of its groups.
AnswerTo(op, results) ==
    CASE op.kind = "create" -> IF results = {"exists"} THEN "conflict"
                               ELSE IF AllDone(results, {"ok", "exists"}) THEN "ok" ELSE "error"
      [] op.kind = "drop"   -> IF results = {"missing"} THEN "not found"
                               ELSE IF AllDone(results, {"ok", "missing"}) THEN "ok" ELSE "error"
      [] OTHER              -> IF AllDone(results, {"ok"}) THEN "ok" ELSE "error"

RouterReplies(c) ==
    /\ calls_[c] # NoCall_
    /\ \A g \in DOMAIN calls_[c].sub : calls_[c].sub[g] # "calling"
    /\ LET op == calls_[c].op
           answer == AnswerTo(op, {calls_[c].sub[g] : g \in DOMAIN calls_[c].sub})
       IN  /\ lastWrite' = [id \in Vec |->
                               IF lastWrite[id].op.num = op.num
                               THEN [op |-> op, confirmed |-> (answer = "ok")] ELSE lastWrite[id]]
           /\ lastDdl' = IF lastDdl.op.num = op.num THEN [op |-> op, answer |-> answer] ELSE lastDdl
    /\ calls_' = [calls_ EXCEPT ![c] = NoCall_]
    /\ UNCHANGED <<placement, exists, vecs, inFlight, mixed, ops, lost>>

NoOp_ == Op("none", 0, {})

RouterInit ==
    /\ placement \in Placements
    /\ exists = {}
    /\ vecs = [g \in Group |-> [id \in Vec |-> 0]]
    /\ calls_ = [c \in Caller |-> NoCall_]
    /\ inFlight = {}
    /\ lastWrite = [id \in Vec |-> [op |-> NoOp_, confirmed |-> FALSE]]
    /\ lastDdl = [op |-> NoOp_, answer |-> "none"]
    /\ mixed = {}
    /\ ops = 0 /\ lost = 0

RouterNext ==
    \/ \E c \in Caller :
          \/ \E kind \in {"create", "drop", "delete_by_filter"} : Forward(c, Op(kind, ops + 1, Vec))
          \/ \E kind \in {"upsert", "delete"}, ids \in Batches : Forward(c, Op(kind, ops + 1, ids))
          \/ \E g \in Group : Answers(c, g) \/ Unconfirmed(c, g) \/ GivesUp(c, g)
          \/ RouterReplies(c)
    \/ LateExecution

RouterSpec == RouterInit /\ [][RouterNext]_routerVars

-----------------------------------------------------------------------------
\* A range before the last that ends at the last hash: the next one starts at 0 again, and
\* validate does not see it.
Wraps == \E k \in 1..(Len(placement) - 1) : placement[k].hi = HashMax

\* Every hash is in the range of one group, which is the one the router asks for it.
OneOwner ==
    Wraps \/ \A h \in 0..HashMax :
                 {k \in Group : placement[k].lo <= h /\ h <= placement[k].hi} = {owner(h)}

InRange(g, id) == placement[g].lo <= HashOf[id] /\ HashOf[id] <= placement[g].hi

\* The group for a vector; where ranges overlap, the first of them.
IsHome(g, id) == InRange(g, id) /\ \A j \in 1..(g - 1) : ~InRange(j, id)

\* A write that was confirmed is on the group whose range its vector is in, and on no other, until
\* the next request that touches it; however often it was retried, and whatever groups failed. Only
\* a request that ran at the same time, or left an attempt behind, can undo it.
ConfirmedIsStored ==
    \A id \in Vec :
        LET op == lastWrite[id].op
        IN  lastWrite[id].confirmed /\ op.num \notin mixed =>
                \A g \in Group :
                    vecs[g][id] = IF op.kind = "upsert" /\ IsHome(g, id) THEN op.num ELSE 0

\* A create that is answered with success (or "already exists") left the collection on every
\* group, a drop ("not found" included) on none, also when attempts were repeated on groups that
\* had executed them.
DdlOnEveryGroup ==
    lastDdl.op.num \notin mixed =>
        /\ lastDdl.op.kind = "create" /\ lastDdl.answer \in {"ok", "conflict"} => exists = Group
        /\ lastDdl.op.kind = "drop" /\ lastDdl.answer \in {"ok", "not found"} => exists = {}

\* What the router answers is true of all groups.
RoutedAndStored == OneOwner /\ ConfirmedIsStored /\ DdlOnEveryGroup
=============================================================================
