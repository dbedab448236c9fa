------------------------------ MODULE CoreMemory ------------------------------
(* Core Memory governance: CoreMemoryService turns a candidate into a row of a *)
(* SQLite ledger and, on approval, into a bullet of a Markdown file, which is  *)
(* what the model reads.  Callers are the threads and processes that share     *)
(* both; a call is a chain of separate transactions and file accesses, so      *)
(* that two calls interleave and a crash leaves any prefix of one behind.      *)
EXTENDS Integers, Sequences, FiniteSets

CONSTANTS
    Facts,        \* what a memory can say
    Unsafe,       \* the facts that scan_memory_candidate refuses
    Callers,      \* the threads and processes that call the service
    MaxEarlier,   \* how many rows the ledger may hold at the start
    MaxMemories,  \* how many rows the ledger gets
    MaxCalls,     \* how many calls begin
    MaxFaults     \* how many calls die, and how often somebody else edits the file

ASSUME FactsAssumption == Unsafe \subseteq Facts
ASSUME BoundsAssumption ==
    {MaxEarlier, MaxMemories, MaxCalls, MaxFaults} \subseteq Nat /\ MaxEarlier <= MaxMemories

VARIABLES
    rows,       \* core_memories, in the order of insertion
    audited,    \* for each row, the after_status values of the changes core_memory_audit records
    file,       \* the bullets of the Markdown file
    call,       \* the call each caller has under way
    consented,  \* the rows a user approved or entered by replace
    held,       \* the facts that were ever active
    retired,    \* the facts a user gave up: memories of them were rejected, archived or replaced,
                \* or a summary was approved that leaves them out of its sources
    spoiled,    \* the file was edited by hand, or written by two at once, or cut off by a crash
    calls, edits, crashes

history == <<consented, held, retired, spoiled>>
counters == <<calls, edits, crashes>>
vars == <<rows, audited, file, call, history, counters>>

Statuses == {"pending", "active", "rejected", "archived"}
Ids == 1 .. MaxMemories
Contents == [summary : BOOLEAN, facts : SUBSET Facts]
Rows == [content : Contents, status : Statuses, applied : {"yes", "no"},
         auto : {"no", "merge", "compact"}, sources : SUBSET Ids]
Bullets == [id : Ids \union {0}, content : Contents]
Steps == {"idle", "insert", "preview", "check", "truncate", "fill", "log", "update", "store", "audit",
          "sources", "exports"}

Says(f) == [summary |-> FALSE, facts |-> {f}]
NewRow(content, status) ==
    [content |-> content, status |-> status, applied |-> "no", auto |-> "no", sources |-> {}]
NoRow == NewRow([summary |-> FALSE, facts |-> {}], "rejected")
\* The call of an idle caller: "row" is the row to insert or to store, "file" the text its
\* patch was built from, "todo" the rows still to visit, "audits" the records to write.
Idle == [op |-> "none", step |-> "idle", id |-> 0, row |-> NoRow, file |-> {}, todo |-> {}, audits |-> <<>>]

Calls(n) == [op : {"none", "change", "transition", "approve", "export"}, step : Steps, id : 0 .. n,
             row : Rows, file : SUBSET Bullets, todo : SUBSET (1 .. n), audits : Seq((1 .. n) \X Statuses)]

TypeOK ==
    /\ rows \in Seq(Rows) /\ Len(rows) <= MaxMemories
    /\ audited \in Seq(SUBSET Statuses) /\ Len(audited) = Len(rows)
    /\ file \subseteq Bullets
    /\ call \in [Callers -> Calls(Len(rows))]
    /\ consented \subseteq 1 .. Len(rows)
    /\ held \subseteq Facts /\ retired \subseteq Facts /\ spoiled \in BOOLEAN
    /\ calls \in 0 .. MaxCalls /\ edits \in Nat /\ crashes \in Nat /\ edits + crashes <= MaxFaults

\* The ledger that earlier calls left: rows of different facts, proposed or approved.
Earlier == {<<"pending", "no">>, <<"active", "yes">>}

Init ==
    /\ \E n \in 0 .. MaxEarlier : \E says \in [1 .. n -> Facts \ Unsafe], kind \in [1 .. n -> Earlier] :
          /\ \A i, j \in 1 .. n : i # j => says[i] # says[j]
          /\ rows = [i \in 1 .. n |-> [NewRow(Says(says[i]), kind[i][1]) EXCEPT !.applied = kind[i][2]]]
          /\ audited = [i \in 1 .. n |-> {kind[i][1]}]
          /\ file = {[id |-> i, content |-> Says(says[i])] : i \in {j \in 1 .. n : kind[j][2] = "yes"}}
          /\ consented = {i \in 1 .. n : kind[i][1] = "active"}
          /\ held = {says[i] : i \in consented}
    /\ call = [c \in Callers |-> Idle]
    /\ retired = {} /\ spoiled = FALSE
    /\ calls = 0 /\ edits = 0 /\ crashes = 0

-----------------------------------------------------------------------------
(* Governance: the safety scan, the lists and the matching of contents.         *)

Allowed(content) == content.facts \cap Unsafe = {}
Active == {i \in DOMAIN rows : rows[i].status = "active"}
Live == {i \in DOMAIN rows : rows[i].status \in {"active", "pending"}}
Twins(content) == {i \in Live : rows[i].content = content}

\* The normalised text of a memory occurs in the text of a bullet: a fact is found in
\* every summary of it, a summary only in itself.
Occurs(content, bullet) ==
    \/ bullet.content = content
    \/ ~content.summary /\ bullet.content.summary /\ content.facts \subseteq bullet.content.facts

\* build_markdown_patch: duplicate_without_marker.
Unmarked(id, text) ==
    /\ \E b \in text : Occurs(rows[id].content, b)
    /\ ~\E b \in text : b.id = id

-----------------------------------------------------------------------------
(* Calls.                                                                       *)

At(c, step) == call[c].step = step
Goto(c, next) == call' = [call EXCEPT ![c] = next]
Ends(c) == Goto(c, Idle)

Begin(c, begun) ==
    /\ At(c, "idle") /\ calls < MaxCalls /\ calls' = calls + 1
    /\ Goto(c, begun)

\* _initial_status with require_approval on, as it is by default.
InitialStatus(content) == IF Allowed(content) THEN "pending" ELSE "rejected"

\* list_for_governance and the duplicate check. Adding the row is a transaction of its own.
Propose(c, f) ==
    /\ Len(rows) < MaxMemories
    /\ IF Twins(Says(f)) # {}
       THEN Begin(c, Idle)
       ELSE Begin(c, [Idle EXCEPT !.op = "change", !.step = "insert",
                                  !.row = NewRow(Says(f), InitialStatus(Says(f)))])
    /\ UNCHANGED <<rows, audited, file, history, edits, crashes>>

\* Groups of active memories: merge takes those of one content, compact any that the
\* budget leaves out or that are not sure.
Group(kind, group) ==
    /\ Cardinality(group) > 1 /\ group \subseteq Active
    /\ kind = "merge" => \A i, j \in group : rows[i].content = rows[j].content

AllFacts(group) == UNION {rows[i].content.facts : i \in group}

\* _summarize_memories: the memories one after the other, until they fill half of their
\* section, and cut at its limit. What it keeps depends on their lengths.
Summary(kept) == [summary |-> TRUE, facts |-> kept]

\* _existing_automation_candidate: the source_hash identifies the group.
Candidates(kind, group) == {i \in Live : rows[i].auto = kind /\ rows[i].sources = group}

\* merge_apply and compact_apply on one group, of which the summary keeps some facts.
Automate(c, kind, group, kept) ==
    /\ Len(rows) < MaxMemories /\ Group(kind, group)
    /\ IF Candidates(kind, group) # {}
       THEN Begin(c, Idle)
       ELSE Begin(c, [Idle EXCEPT !.op = "change", !.step = "insert",
                                  !.row = [NewRow(Summary(kept), InitialStatus(Summary(kept)))
                                           EXCEPT !.auto = kind, !.sources = group]])
    /\ UNCHANGED <<rows, audited, file, history, edits, crashes>>

\* Mutant of Insert: a candidate of the automation archives its sources at once.
InsertRetiresSources(c) ==
    /\ At(c, "insert") /\ Len(rows) < MaxMemories
    /\ rows' = Append([i \in DOMAIN rows |-> IF i \in call[c].row.sources
                                             THEN [rows[i] EXCEPT !.status = "archived"] ELSE rows[i]],
                      call[c].row)
    /\ audited' = Append(audited, {})
    /\ Goto(c, [call[c] EXCEPT !.step = "audit", !.audits = <<<<Len(rows'), call[c].row.status>>>>])
    /\ UNCHANGED <<file, history, counters>>

\* CoreMemoryStore._insert, after which the proposal is audited.
Insert(c) ==
    /\ At(c, "insert") /\ Len(rows) < MaxMemories
    /\ rows' = Append(rows, call[c].row) /\ audited' = Append(audited, {})
    /\ Goto(c, [call[c] EXCEPT !.step = "audit", !.audits = <<<<Len(rows'), call[c].row.status>>>>])
    /\ UNCHANGED <<file, history, counters>>

\* What a summary does not say of the rows it is about to replace.
LeftOut(id) == AllFacts(rows[id].sources) \ rows[id].content.facts

\* approve looks at the content, not at the status: any row can be approved.
Approve(c, id) ==
    /\ Begin(c, IF Allowed(rows[id].content)
                THEN [Idle EXCEPT !.op = "approve", !.step = "preview", !.id = id, !.todo = rows[id].sources,
                                  !.row = [rows[id] EXCEPT !.status = "active", !.applied = "yes"]]
                ELSE [Idle EXCEPT !.op = "change", !.step = "update", !.id = id,
                                  !.row = [rows[id] EXCEPT !.status = "rejected"]])
    /\ consented' = consented \union {id}
    /\ retired' = retired \union (IF Allowed(rows[id].content) THEN LeftOut(id) ELSE {})
    /\ UNCHANGED <<rows, audited, file, held, spoiled, edits, crashes>>

\* reject and archive: _status_transition. The Markdown file is not touched.
Transition(c, id, status) ==
    /\ Begin(c, [Idle EXCEPT !.op = "transition", !.step = "update", !.id = id,
                             !.row = [rows[id] EXCEPT !.status = status]])
    /\ retired' = retired \union rows[id].content.facts
    /\ UNCHANGED <<rows, audited, file, consented, held, spoiled, edits, crashes>>

\* replace: neither scanned nor compared with the other rows; one transaction adds the
\* new row and archives the old one.
Replace(c, id, f) ==
    /\ Len(rows) < MaxMemories
    /\ rows' = Append([rows EXCEPT ![id].status = "archived"], NewRow(Says(f), "active"))
    /\ audited' = Append(audited, {})
    /\ Begin(c, [Idle EXCEPT !.op = "change", !.step = "audit",
                             !.audits = <<<<Len(rows'), "active">>, <<id, "archived">>>>])
    /\ consented' = consented \union {Len(rows')}
    /\ held' = held \union {f}
    /\ retired' = retired \union rows[id].content.facts
    /\ UNCHANGED <<file, spoiled, edits, crashes>>

\* export_active_core_memories_to_markdown: the list is read once.
Export(c) ==
    /\ \E i \in Active : rows[i].applied = "no"
    /\ Begin(c, [Idle EXCEPT !.op = "export", !.step = "exports", !.todo = {i \in Active : rows[i].applied = "no"}])
    /\ UNCHANGED <<rows, audited, file, history, edits, crashes>>

\* markdown_apply of the next row of the list.
ExportNext(c) ==
    /\ At(c, "exports")
    /\ \/ call[c].todo = {} /\ Ends(c)
       \/ \E i \in call[c].todo :
             Goto(c, [call[c] EXCEPT !.step = "preview", !.id = i, !.todo = @ \ {i},
                                     !.row = [rows[i] EXCEPT !.applied = "yes"]])
    /\ UNCHANGED <<rows, audited, file, history, counters>>

\* Mutant of Preview: the bullet is built without the second scan.
PreviewUnscanned(c) ==
    /\ At(c, "preview")
    /\ Goto(c, [call[c] EXCEPT !.step = "check", !.file = file])
    /\ UNCHANGED <<rows, audited, file, history, counters>>

\* markdown_preview reads the file. _bullet_for_memory scans once more and raises: that
\* ends an export with the rest of its list undone.
Preview(c) ==
    /\ At(c, "preview")
    /\ IF Allowed(rows[call[c].id].content)
       THEN Goto(c, [call[c] EXCEPT !.step = "check", !.file = file])
       ELSE Ends(c)
    /\ UNCHANGED <<rows, audited, file, history, counters>>

\* apply_markdown_patch refuses a text it would repeat and a file that is not the one the
\* patch was built from: approve audits that and returns, an export ends.
Check(c) ==
    /\ At(c, "check")
    /\ IF Unmarked(call[c].id, call[c].file) \/ file # call[c].file
       THEN Ends(c)
       ELSE Goto(c, [call[c] EXCEPT !.step = "truncate"])
    /\ UNCHANGED <<rows, audited, file, history, counters>>

Others(c) == Callers \ {c}
Writing(c) == call[c].step \in {"truncate", "fill"}

\* path.write_text: opening the file empties it.
Truncate(c) ==
    /\ At(c, "truncate")
    /\ file' = {}
    /\ spoiled' = (spoiled \/ \E d \in Others(c) : Writing(d))
    /\ Goto(c, [call[c] EXCEPT !.step = "fill"])
    /\ UNCHANGED <<rows, audited, consented, held, retired, counters>>

\* The patched text: the bullet with the row's marker is replaced, or one is inserted.
Patched(id, text) ==
    IF \E b \in text : b.id = id
    THEN {IF b.id = id THEN [id |-> id, content |-> rows[id].content] ELSE b : b \in text}
    ELSE text \union {[id |-> id, content |-> rows[id].content]}

Fill(c) ==
    /\ At(c, "fill")
    /\ file' = Patched(call[c].id, call[c].file)
    /\ spoiled' = (spoiled \/ \E d \in Others(c) : Writing(d))
    /\ Goto(c, [call[c] EXCEPT !.step = IF call[c].op = "approve" THEN "log" ELSE "update", !.file = {}])
    /\ UNCHANGED <<rows, audited, consented, held, retired, counters>>

\* update: the whole row is read in one transaction and written back in another. A
\* transition keeps the metadata it reads, an export the status.
Update(c) ==
    /\ At(c, "update")
    /\ LET read == rows[call[c].id]
           row == [call[c].row EXCEPT !.applied = IF call[c].op = "transition" THEN read.applied ELSE @,
                                      !.status = IF call[c].op = "export" THEN read.status ELSE @]
       IN  Goto(c, [call[c] EXCEPT !.step = "store", !.row = row])
    /\ UNCHANGED <<rows, audited, file, history, counters>>

\* Mutant of Store: reject and archive leave no record.
StoreSilently(c) ==
    /\ At(c, "store")
    /\ LET id == call[c].id
           row == call[c].row
       IN  /\ rows' = [rows EXCEPT ![id] = row]
           /\ held' = IF row.status = "active" THEN held \union row.content.facts ELSE held
           /\ IF call[c].op = "transition" THEN Ends(c)
              ELSE Goto(c, [call[c] EXCEPT !.step = "audit", !.audits = <<<<id, row.status>>>>])
    /\ UNCHANGED <<audited, file, consented, retired, spoiled, counters>>

Store(c) ==
    /\ At(c, "store")
    /\ LET id == call[c].id
           row == call[c].row
       IN  /\ rows' = [rows EXCEPT ![id] = row]
           /\ held' = IF row.status = "active" THEN held \union row.content.facts ELSE held
           /\ Goto(c, [call[c] EXCEPT !.step = "audit",
                                      !.audits = IF call[c].op = "export" THEN <<<<id, row.status>>, <<id, "active">>>>
                                                 ELSE <<<<id, row.status>>>>])
    /\ UNCHANGED <<audited, file, consented, retired, spoiled, counters>>

\* approve audits the Markdown write before it stores the row.
Log(c) ==
    /\ At(c, "log")
    /\ audited' = [audited EXCEPT ![call[c].id] = @ \union {"active"}]
    /\ Goto(c, [call[c] EXCEPT !.step = "update"])
    /\ UNCHANGED <<rows, file, history, counters>>

\* record_audit; then approve turns to the sources and an export to its next row.
Audit(c) ==
    /\ At(c, "audit")
    /\ LET record == Head(call[c].audits)
           rest == Tail(call[c].audits)
       IN  /\ audited' = [audited EXCEPT ![record[1]] = @ \union {record[2]}]
           /\ \/ rest # <<>> /\ Goto(c, [call[c] EXCEPT !.audits = rest])
              \/ rest = <<>> /\ call[c].op = "approve" /\ Goto(c, [call[c] EXCEPT !.audits = rest, !.step = "sources"])
              \/ rest = <<>> /\ call[c].op = "export" /\ Goto(c, [call[c] EXCEPT !.audits = rest, !.step = "exports"])
              \/ rest = <<>> /\ call[c].op \in {"change", "transition"} /\ Ends(c)
    /\ UNCHANGED <<rows, file, history, counters>>

\* _archive_sources_on_approve: one source after the other, unless it is archived already.
ArchiveNext(c) ==
    /\ At(c, "sources")
    /\ \/ call[c].todo = {} /\ Ends(c)
       \/ \E i \in call[c].todo :
             Goto(c, IF rows[i].status = "archived" THEN [call[c] EXCEPT !.todo = @ \ {i}]
                     ELSE [call[c] EXCEPT !.step = "update", !.id = i, !.todo = @ \ {i},
                                          !.row = [rows[i] EXCEPT !.status = "archived"]])
    /\ UNCHANGED <<rows, audited, file, history, counters>>

\* The process dies, or one of its accesses raises.
Crash(c) ==
    /\ ~At(c, "idle") /\ edits + crashes < MaxFaults
    /\ crashes' = crashes + 1
    /\ spoiled' = (spoiled \/ At(c, "fill"))
    /\ Ends(c)
    /\ UNCHANGED <<rows, audited, file, consented, held, retired, calls, edits>>

\* The user's editor and the learning manager write the same file.
Edit ==
    /\ edits + crashes < MaxFaults /\ edits' = edits + 1
    /\ spoiled' = TRUE
    /\ \/ \E b \in file : file' = file \ {b}
       \/ \E f \in Facts : file' = file \union {[id |-> 0, content |-> Says(f)]}
    /\ UNCHANGED <<rows, audited, call, consented, held, retired, calls, crashes>>

Step(c) ==
    \/ Insert(c) \/ Preview(c) \/ Check(c) \/ Truncate(c) \/ Fill(c) \/ Log(c)
    \/ Update(c) \/ Store(c) \/ Audit(c) \/ ArchiveNext(c) \/ ExportNext(c)

Request(c) ==
    \/ \E f \in Facts : Propose(c, f)
    \/ \E kind \in {"merge", "compact"}, group \in SUBSET Active :
          \E kept \in SUBSET AllFacts(group) : Automate(c, kind, group, kept)
    \/ \E id \in DOMAIN rows : Approve(c, id)
    \/ \E id \in DOMAIN rows, status \in {"rejected", "archived"} : Transition(c, id, status)
    \/ \E id \in DOMAIN rows, f \in Facts : Replace(c, id, f)
    \/ Export(c)

Next == Edit \/ \E c \in Callers : Request(c) \/ Step(c) \/ Crash(c)

Spec == Init /\ [][Next]_vars

-----------------------------------------------------------------------------
(* Properties.                                                                  *)

Governed(text) == {b \in text : b.id # 0}

\* What the model reads as memory was consented to and is safe: a bullet with a marker
\* belongs to a row that a user approved or entered by replace - never to a proposal, a
\* candidate of the automation or a row that became active behind the user's back - and
\* says nothing the safety scan refuses, although replace does not scan.  And no fact
\* gets two bullets: neither by the approval of a twin, nor by the archival of a memory
\* (which leaves its bullet) followed by a new proposal of the same fact, nor by a second
\* approval after a crash that writes it again.
MarkdownIsGoverned ==
    /\ TypeOK
    /\ \A b \in Governed(file) : b.id \in consented /\ Allowed(b.content)
    /\ \A a, b \in Governed(file) : ~a.content.summary /\ a.content = b.content => a.id = b.id

\* The ledger does not claim a write that is not there: a row marked markdown_applied has
\* its bullet in the file, whatever other callers applied meanwhile, unless the file was
\* edited by hand, two callers were writing at once or a crash cut a write off.
AppliedIsWritten ==
    spoiled \/ (\E c \in Callers : At(c, "fill"))
            \/ \A i \in DOMAIN rows : rows[i].applied = "yes" => \E b \in file : b.id = i

\* Every change of status is on record, but for those whose caller is still on its way to
\* record them and those of a call that died, which are two at most (replace).
ChangesAreAudited ==
    LET silent == {i \in DOMAIN rows : rows[i].status \notin audited[i]}
        under == {i \in DOMAIN rows : \E c \in Callers : \E k \in DOMAIN call[c].audits : call[c].audits[k][1] = i}
    IN  Cardinality(silent \ under) <= 2 * crashes

\* The ledger tells the truth about the file and about its own past.
LedgerIsTruthful == AppliedIsWritten /\ ChangesAreAudited

\* Automation loses nothing behind the user's back: a fact that was active once is in some
\* active row, unless a user rejected, archived or replaced a memory that says it, or
\* approved a summary that leaves it out. Summaries are cut (_summarize_memories) and all
\* their sources are archived all the same (_archive_sources_on_approve), but not before
\* the summary is approved and active, at whatever point the call dies.
AutomationKeepsFacts ==
    \A f \in (held \ retired) \ Unsafe : \E i \in Active : f \in rows[i].content.facts
================================================================================
