-------------------------- MODULE TransparencyShard --------------------------
(***************************************************************************)
(* One shard of the transparency log (workers/transparency/src/            *)
(* transparency-shard-do.ts): a Durable Object that appends the hashes of  *)
(* registry events as leaves of a hash tree, and states the root of a tree *)
(* size (a checkpoint) and the audit path of an event.                     *)
(*                                                                         *)
(* Every hash is an await at which other requests run.  Appends wait for   *)
(* each other on a chain of promises; checkpoints and proofs do not wait   *)
(* for anybody and hash while appends go on.                               *)
(*                                                                         *)
(* The id of an event is derived from its hash (index.ts), so one value    *)
(* stands for both and the two 409 answers of append cannot occur; a shard *)
(* is addressed by its own name, so neither can SHARD_CONFLICT.            *)
(***************************************************************************)
EXTENDS Merkle, FiniteSets

CONSTANTS
  Callers,   \* requests in flight
  Events,    \* event hashes that belong to this shard
  MaxTime,   \* bound on the clock
  NULL

ASSUME ShardAssumption == MaxTime \in Nat /\ NULL \notin Events

VARIABLES
  events,       \* transparency_events: the leaf index of each event
  treeSize,     \* transparency_meta.tree_size
  nodes,        \* transparency_nodes: <<level, node index>> to hash
  checkpoints,  \* transparency_checkpoints: tree size to root and time
  appendTail,   \* the chain of appends; the first one is running
  call,         \* each request's program point and locals
  now           \* the clock of the service that asks

shardVars == <<events, treeSize, nodes, checkpoints, appendTail, call, now>>
tables == <<events, treeSize, nodes, checkpoints>>

\* A table or a bucket with a value under a key, replacing what was there; and
\* a table to which a row is added unless there is one with its key.
Put(table, key, value) == [k \in DOMAIN table \cup {key} |-> IF k = key THEN value ELSE table[k]]
PutNew(table, key, value) == IF key \in DOMAIN table THEN table ELSE Put(table, key, value)

Idle == [pc |-> "idle"]
Free(c) == call[c].pc \in {"idle", "replied"}

\* The answer keeps what was asked.
Replied(c, code, body) ==
  [pc |-> "replied", kind |-> call[c].kind, event |-> call[c].event,
   code |-> code, body |-> body]

Reply(c, code, body) == call' = [call EXCEPT ![c] = Replied(c, code, body)]

-----------------------------------------------------------------------------
(* append, one at a time *)

\* (mutant) The next append in line starts although this one still hashes.
AppendTurnAnyone(c) == \E i \in DOMAIN appendTail : appendTail[i] = c

AppendTurn(c) == appendTail # << >> /\ Head(appendTail) = c

\* However the first append in line ends, the next one may start.
Release(c, code, body) ==
  /\ Reply(c, code, body)
  /\ appendTail' = Tail(appendTail)

RequestAppend(c, e) ==
  /\ Free(c)
  /\ call' = [call EXCEPT ![c] = [pc |-> "queued", kind |-> "append", event |-> e]]
  /\ appendTail' = Append(appendTail, c)
  /\ UNCHANGED <<tables, now>>

\* The nodes hashed so far and the last of them, by its level and index.
Hashing(e, leaf, top, pending) ==
  [pc |-> "hashing", kind |-> "append", event |-> e, leaf |-> leaf,
   top |-> top, pending |-> pending]

BeginAppend(c) ==
  LET e == call[c].event IN
  /\ call[c].pc = "queued"
  /\ AppendTurn(c)
  /\ \/ /\ e \in DOMAIN events
        /\ Release(c, "OK", [leaf |-> events[e], treeSize |-> treeSize, duplicate |-> TRUE])
     \/ /\ e \notin DOMAIN events
        /\ call' = [call EXCEPT ![c] =
             Hashing(e, treeSize, <<0, treeSize>>, [x \in {<<0, treeSize>>} |-> HashLeaf(e)])]
        /\ UNCHANGED appendTail
  /\ UNCHANGED <<tables, now>>

\* A right child closes the subtree above it: the left one is a stored node.
HashParent(c) ==
  LET top == call[c].top
      pending == call[c].pending
      left == <<top[1], top[2] - 1>>
      parent == <<top[1] + 1, top[2] \div 2>> IN
  /\ call[c].pc = "hashing"
  /\ top[2] % 2 = 1
  /\ IF left \in DOMAIN nodes
       THEN /\ call' = [call EXCEPT ![c] =
                  Hashing(call[c].event, call[c].leaf, parent,
                          Put(pending, parent, HashNode(nodes[left], pending[top])))]
            /\ UNCHANGED appendTail
       ELSE Release(c, "INTERNAL_ERROR", NULL)
  /\ UNCHANGED <<tables, now>>

\* The leaf, its nodes and the new size are one transaction, which the keys of
\* the tables refuse as a whole.
CommitAppend(c) ==
  LET e == call[c].event
      leaf == call[c].leaf
      pending == call[c].pending
      refused == \/ e \in DOMAIN events
                 \/ \E other \in DOMAIN events : events[other] = leaf
                 \/ DOMAIN pending \cap DOMAIN nodes # {} IN
  /\ call[c].pc = "hashing"
  /\ call[c].top[2] % 2 = 0
  /\ IF refused
       THEN /\ Release(c, "INTERNAL_ERROR", NULL)
            /\ UNCHANGED <<events, nodes, treeSize>>
       ELSE /\ events' = Put(events, e, leaf)
            /\ nodes' = [x \in DOMAIN nodes \cup DOMAIN pending |->
                         IF x \in DOMAIN pending THEN pending[x] ELSE nodes[x]]
            /\ treeSize' = leaf + 1
            /\ Release(c, "OK", [leaf |-> leaf, treeSize |-> leaf + 1, duplicate |-> FALSE])
  /\ UNCHANGED <<checkpoints, now>>

-----------------------------------------------------------------------------
(* checkpoint and prove, while appends go on *)

\* The time of a checkpoint is the one at which the service asked for it.
RequestCheckpoint(c) ==
  /\ Free(c)
  /\ call' = [call EXCEPT ![c] = [pc |-> "asked", kind |-> "checkpoint",
                                  event |-> NULL, at |-> now]]
  /\ UNCHANGED <<tables, appendTail, now>>

RequestProof(c, e) ==
  /\ Free(c)
  /\ call' = [call EXCEPT ![c] = [pc |-> "asked", kind |-> "prove",
                                  event |-> e, at |-> now]]
  /\ UNCHANGED <<tables, appendTail, now>>

\* A checkpoint is in hand: the answer, or what the path is computed for.
WithCheckpoint(c, size, stored) ==
  LET checkpoint == [size |-> size, root |-> stored.root, at |-> stored.at] IN
  IF call[c].kind = "checkpoint"
    THEN Reply(c, "OK", checkpoint)
    ELSE call' = [call EXCEPT ![c] = [pc |-> "proving", kind |-> "prove",
                                      event |-> call[c].event, checkpoint |-> checkpoint]]

Begin(c) ==
  /\ call[c].pc = "asked"
  /\ \/ /\ call[c].kind = "prove" /\ call[c].event \notin DOMAIN events
        /\ Reply(c, "NOT_FOUND", NULL)
     \/ /\ call[c].kind = "prove" => call[c].event \in DOMAIN events
        /\ treeSize \in DOMAIN checkpoints
        /\ WithCheckpoint(c, treeSize, checkpoints[treeSize])
     \/ /\ call[c].kind = "prove" => call[c].event \in DOMAIN events
        /\ treeSize \notin DOMAIN checkpoints
        /\ call' = [call EXCEPT ![c] = [pc |-> "rooting", kind |-> call[c].kind,
                                        event |-> call[c].event, at |-> call[c].at,
                                        size |-> treeSize]]
  /\ UNCHANGED <<tables, appendTail, now>>

\* (mutants) The last checkpoint of a size wins; the root is the present tree's.
StoredOver(size, at) == Put(checkpoints, size, [root |-> TreeRoot(nodes, size), at |-> at])

StoredPresent(size, at) ==
  PutNew(checkpoints, size, [root |-> TreeRoot(nodes, treeSize), at |-> at])

\* The first checkpoint of a size is kept.
Stored(size, at) == PutNew(checkpoints, size, [root |-> TreeRoot(nodes, size), at |-> at])

\* The tree has been hashed for the size read before the awaits.
StoreCheckpoint(c) ==
  /\ call[c].pc = "rooting"
  /\ checkpoints' = Stored(call[c].size, call[c].at)
  /\ WithCheckpoint(c, call[c].size, checkpoints'[call[c].size])
  /\ UNCHANGED <<events, treeSize, nodes, appendTail, now>>

\* (mutant) The path is computed in the tree as it is now.
ProofPathPresent(c) == InclusionProof(nodes, events[call[c].event], treeSize)

ProofPath(c) == InclusionProof(nodes, events[call[c].event], call[c].checkpoint.size)

Prove(c) ==
  /\ call[c].pc = "proving"
  /\ Reply(c, "OK", [leaf |-> events[call[c].event], auditPath |-> ProofPath(c),
                     checkpoint |-> call[c].checkpoint])
  /\ UNCHANGED <<tables, appendTail, now>>

-----------------------------------------------------------------------------

\* The object is evicted: requests in flight fail, the tables stay.
Restart ==
  /\ \E c \in Callers : ~Free(c)
  /\ call' = [c \in Callers |-> IF Free(c) THEN call[c] ELSE Idle]
  /\ appendTail' = << >>
  /\ UNCHANGED <<tables, now>>

Tick ==
  /\ now < MaxTime
  /\ now' = now + 1
  /\ UNCHANGED <<tables, appendTail, call>>

Request(c) ==
  \/ \E e \in Events : RequestAppend(c, e) \/ RequestProof(c, e)
  \/ RequestCheckpoint(c)

\* The next step of a request that is waiting for nothing but its own awaits.
Proceed(c) ==
  \/ BeginAppend(c) \/ HashParent(c) \/ CommitAppend(c)
  \/ Begin(c) \/ StoreCheckpoint(c) \/ Prove(c)

ShardInit ==
  /\ events = << >>
  /\ treeSize = 0
  /\ nodes = << >>
  /\ checkpoints = << >>
  /\ appendTail = << >>
  /\ call = [c \in Callers |-> Idle]
  /\ now = 0

-----------------------------------------------------------------------------
(* Correctness *)

\* The leaves in order.
Leaves == [i \in 1..treeSize |-> CHOOSE e \in DOMAIN events : events[e] = i - 1]

\* Every event is one leaf, the stored nodes are those of the tree over the
\* leaves, and every checkpoint ever stated is the root of a prefix of them:
\* two checkpoints never contradict each other.
LogIsTheTree ==
  /\ Cardinality(DOMAIN events) = treeSize
  /\ {events[e] : e \in DOMAIN events} = 0..(treeSize - 1)
  /\ nodes = NodesOf(Leaves)
  /\ \A n \in DOMAIN checkpoints :
       n <= treeSize /\ checkpoints[n].root = MTH(SubSeq(Leaves, 1, n))

\* A proof verifies against the checkpoint it comes with, although events are
\* appended between the checkpoint and the path.
ProofsVerify ==
  \A c \in Callers :
    LET body == call[c].body IN
    call[c].pc = "replied" /\ call[c].kind = "prove" /\ call[c].code = "OK" =>
      VerifyInclusionProof(call[c].event, body.leaf, body.checkpoint.size,
                           body.auditPath, body.checkpoint.root)

\* No append is refused by the keys of the tables, whatever is appended at the
\* same time, and each is told the one leaf of its event.
AppendsAreAcknowledged ==
  \A c \in Callers :
    call[c].pc = "replied" /\ call[c].kind = "append" =>
      /\ call[c].code = "OK"
      /\ call[c].event \in DOMAIN events
      /\ events[call[c].event] = call[c].body.leaf
      /\ call[c].body.leaf < call[c].body.treeSize
      /\ call[c].body.treeSize <= treeSize

=============================================================================
