----------------------------- MODULE SessionTree -----------------------------
(* The record SessionStore keeps of a session (storage/sessions.py): a         *)
(* transcript that only grows, and a tree of turn nodes over it that is        *)
(* navigated like commits.  A node covers the messages first .. last of the    *)
(* transcript; a compaction node covers none and carries the number of         *)
(* messages its summary stands for.  The branch of a node is what the nodes    *)
(* from its root down to it cover.  Everything here is a function of records.  *)
EXTENDS Integers, Sequences, SequencesExt, FiniteSetsExt

\* Node ids (uuids) are numbers no record has used before; 0 is None.
NoNode == 0

NewRecord == [messages |-> <<>>, nodes |-> <<>>, head |-> NoNode, summary |-> 0,
              pending |-> FALSE, queued |-> 0, next |-> 1]

Ids(r) == {r.nodes[i].id : i \in DOMAIN r.nodes}
NodeOf(r, n) == r.nodes[CHOOSE i \in DOMAIN r.nodes : r.nodes[i].id = n]

\* A parent is older than its child, so the walk to the root ends; it also ends at a
\* parent that is no longer there.
Branch(r, head) ==
    LET told[n \in 0 .. head] ==
            IF n \notin Ids(r) THEN <<>>
            ELSE LET x == NodeOf(r, n)
                 IN  told[x.parent] \o SubSeq(r.messages, x.first, x.last)
    IN  told[head]

\* The node, its ancestors, and the parent where the walk stops.
Lineage(r, node) ==
    LET line[n \in 0 .. node] ==
            IF n = NoNode THEN {}
            ELSE {n} \union (IF n \in Ids(r) THEN line[NodeOf(r, n).parent] ELSE {})
    IN  line[node]

IsDescendant(r, node, ancestor) == ancestor = NoNode \/ ancestor \in Lineage(r, node)

\* The summary of the nearest compaction node at or above the head; 0 is none.
SummaryAt(r, head) ==
    LET state[n \in 0 .. head] ==
            IF n \notin Ids(r) THEN 0
            ELSE IF NodeOf(r, n).summary # 0 THEN NodeOf(r, n).summary
            ELSE state[NodeOf(r, n).parent]
    IN  state[head]

-----------------------------------------------------------------------------
\* Mutant of Segments: the bounds are subtracted one time too many.
SegmentsShort(ms) ==
    LET starts == SelectSeq([i \in DOMAIN ms |-> i], LAMBDA i : ms[i].user)
    IN  IF starts = <<>> THEN <<[from |-> 1, to |-> Len(ms)]>>
        ELSE [k \in DOMAIN starts |->
                [from |-> starts[k],
                 to |-> IF k = Len(starts) THEN Len(ms) ELSE starts[k + 1] - 2]]

\* A turn starts at a user's message; what stands before the first is in no segment.
Segments(ms) ==
    LET starts == SelectSeq([i \in DOMAIN ms |-> i], LAMBDA i : ms[i].user)
    IN  IF starts = <<>> THEN <<[from |-> 1, to |-> Len(ms)]>>
        ELSE [k \in DOMAIN starts |->
                [from |-> starts[k],
                 to |-> IF k = Len(starts) THEN Len(ms) ELSE starts[k + 1] - 1]]

TurnNode(id, parent, first, last, draft) ==
    [id |-> id, parent |-> parent, first |-> first, last |-> last, draft |-> draft,
     summary |-> 0]

\* _append_turn_node for every segment of ms, which stand after the first `offset`
\* messages: a chain from parent, whose last node is the head.
Grow(r, parent, offset, ms, draft) ==
    LET cut == Segments(ms)
        node(k) == TurnNode(r.next + k - 1, IF k = 1 THEN parent ELSE r.next + k - 2,
                            offset + cut[k].from, offset + cut[k].to, draft /\ k = Len(cut))
    IN  [r EXCEPT !.nodes = @ \o [k \in DOMAIN cut |-> node(k)],
                  !.head = r.next + Len(cut) - 1,
                  !.next = @ + Len(cut)]

AppendCompaction(r, summary) ==
    [r EXCEPT !.nodes = Append(@, [TurnNode(r.next, r.head, 1, 0, FALSE)
                                     EXCEPT !.summary = summary]),
              !.head = r.next, !.summary = summary, !.next = @ + 1]

\* _normalized_record, step by step: nodes for a bare transcript, or a head ...
LastNode(r) == IF r.nodes = <<>> THEN NoNode ELSE Last(r.nodes).id

WithNodes(r) ==
    IF r.nodes = <<>> /\ r.messages # <<>> THEN Grow(r, NoNode, 0, r.messages, FALSE)
    ELSE IF r.head = NoNode THEN [r EXCEPT !.head = LastNode(r)]
    ELSE r

\* ... a node for a summary no node carries ...
WithSummaryNode(r) ==
    IF /\ r.summary # 0 /\ r.nodes # <<>>
       /\ \A i \in DOMAIN r.nodes : r.nodes[i].summary = 0
      THEN AppendCompaction(r, r.summary)
    ELSE r

\* ... the summary of the head ...
WithSummaryOfHead(r) ==
    IF r.nodes # <<>> THEN [r EXCEPT !.summary = SummaryAt(r, r.head)] ELSE r

\* ... and a head that exists.
WithHead(r) == IF r.head \in Ids(r) THEN r ELSE [r EXCEPT !.head = LastNode(r)]

Normalized(r) == WithHead(WithSummaryOfHead(WithSummaryNode(WithNodes(r))))

-----------------------------------------------------------------------------
\* sync_branch_state raises ValueError unless the base's branch begins ms.
CanSync(r, base, ms) == IsPrefix(Branch(Normalized(r), base), ms)

\* The drafts below the base go; what ms adds to the base's branch is appended to the
\* transcript and becomes the head's new turns, the last of them a draft if pending.
Pruned(r, base) ==
    [r EXCEPT !.nodes = SelectSeq(@, LAMBDA x : ~(x.draft /\ IsDescendant(r, x.id, base)))]

Extend(r, base, tail, pending) ==
    IF tail = <<>> THEN [r EXCEPT !.head = base]
    ELSE Grow([r EXCEPT !.messages = @ \o tail], base, Len(r.messages), tail, pending)

SyncOnto(n, base, ms, pending) ==
    Extend(Pruned(n, base), base, SubSeq(ms, Len(Branch(n, base)) + 1, Len(ms)), pending)

SyncBranch(r, base, ms, pending) == Normalized(SyncOnto(Normalized(r), base, ms, pending))

\* best_base_head_id, of a normalized record: the first of the nodes whose non-empty
\* branch begins ms the furthest.
Reach(n, i) == Len(Branch(n, n.nodes[i].id))

\* Mutant of Fitting: the lengths are compared the wrong way round.
FittingLonger(n, ms) == {i \in DOMAIN n.nodes : IsPrefix(ms, Branch(n, n.nodes[i].id))}
Fitting(n, ms) ==
    {i \in DOMAIN n.nodes : Reach(n, i) > 0 /\ IsPrefix(Branch(n, n.nodes[i].id), ms)}

Furthest(n, fits) ==
    IF fits = {} THEN NoNode
    ELSE n.nodes[CHOOSE i \in fits : \A j \in fits :
                    \/ Reach(n, j) < Reach(n, i)
                    \/ Reach(n, j) = Reach(n, i) /\ i <= j].id

BestBase(n, ms) == Furthest(n, Fitting(n, ms))

-----------------------------------------------------------------------------
\* _prepare_record_for_save: when exactly the end of the transcript is in no node, it is
\* synced onto the head, which may raise, and then its messages are there twice.
Covered(r) == UNION {r.nodes[i].first .. r.nodes[i].last : i \in DOMAIN r.nodes}
EndsUncovered(r) ==
    LET uncovered == DOMAIN r.messages \ Covered(r)
    IN  uncovered # {} /\ \A i \in uncovered, j \in Covered(r) : j < i

Savable(n) == EndsUncovered(n) => CanSync(n, n.head, n.messages)
CanSave(r) == Savable(Normalized(r))

Repaired(n) ==
    IF EndsUncovered(n) THEN SyncBranch(n, n.head, n.messages, n.pending) ELSE n

\* _sync_compaction_to_entries: a node for a summary the head does not carry.
SyncCompaction(n) ==
    IF n.summary \in {0, SummaryAt(n, n.head)}
      THEN [n EXCEPT !.summary = SummaryAt(n, n.head)]
    ELSE AppendCompaction(n, n.summary)

\* save: the snapshot that is appended to the session's file.
Prepared(r) ==
    SyncCompaction(Normalized([Repaired(Normalized(r)) EXCEPT !.summary = r.summary]))
Saved(r) == Normalized(Prepared(r))

\* fork_from_head, and rewind by a number of messages: another session, saved, over a
\* branch of this one or its first messages.
Spawned(ms, summary) ==
    Saved(Normalized([NewRecord EXCEPT !.messages = ms, !.summary = summary]))
Forked(r, head) == Spawned(Branch(r, head), SummaryAt(r, head))

\* Mutant of Rewound: counts in the transcript, not in the branch.
RewoundTranscript(r, count) == Spawned(SubSeq(r.messages, 1, count), 0)

Rewound(r, count) == Spawned(SubSeq(Branch(r, r.head), 1, count), 0)
==============================================================================
