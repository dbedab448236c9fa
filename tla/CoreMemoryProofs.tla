--------------------------- MODULE CoreMemoryProofs ---------------------------
(* The theorems of CoreMemory: what is written to the file the model reads is   *)
(* governed, the ledger is truthful about it, and automation loses no fact that *)
(* its user did not give up.                                                    *)
EXTENDS CoreMemory, FiniteSetTheorems, SequenceTheorems, TLAPS

-----------------------------------------------------------------------------
(* The inductive invariant.                                                     *)

Before == {"preview", "check", "truncate", "fill", "log"}
\* The steps at which a call holds a copy of a row.
Holding == Before \union {"update", "store"}

\* A summary that the scan refuses; no row of this kind becomes active.
Barred(content) == content.summary /\ ~Allowed(content)

\* A row to stand at place n: a memory says one fact, and the sources of a summary are
\* rows before it.
Sound(row, n) ==
    /\ ~row.content.summary => \E f \in Facts : row.content.facts = {f}
    /\ \A s \in row.sources : s \in 1 .. Len(rows) /\ s < n

\* A row that was or may be active was consented to.
Cleared(i) == i \in consented /\ ~Barred(rows[i].content)
Ledger == \A i \in DOMAIN rows : Sound(rows[i], i) /\ (rows[i].status = "active" => Cleared(i))

\* A call's step belongs to its operation, its copy is of the row it names, and it has
\* records to write exactly when it is about to.
Shaped(c) ==
    /\ call[c].step \in {"preview", "check", "truncate", "fill"} => call[c].op \in {"approve", "export"}
    /\ call[c].step \in {"log", "sources"} => call[c].op = "approve"
    /\ call[c].step = "exports" => call[c].op = "export"
    /\ call[c].step = "audit" <=> call[c].audits # <<>>
    /\ Len(call[c].audits) <= 2
    /\ call[c].step \in Holding =>
          /\ call[c].id \in DOMAIN rows
          /\ call[c].row.content = rows[call[c].id].content /\ call[c].row.sources = rows[call[c].id].sources
    /\ call[c].step = "insert" =>
          /\ call[c].op = "change"
          /\ call[c].row.status # "active" /\ call[c].row.applied = "no" /\ Sound(call[c].row, Len(rows) + 1)

\* What a user has not retired and the scan lets pass is said by an active row after i.
Covered(i) ==
    \A f \in rows[i].content.facts \ (retired \union Unsafe) :
        \E j \in Active : j > i /\ f \in rows[j].content.facts

\* An approval holds an active copy until it is stored; then it archives rows that the
\* approved one, or a later one, says all of but what the user gave up with the approval.
Approving(c) ==
    call[c].op = "approve" =>
        IF call[c].step \in Holding /\ call[c].row.status = "active"
        THEN /\ Cleared(call[c].id) /\ Allowed(call[c].row.content)
             /\ call[c].todo \subseteq rows[call[c].id].sources
             /\ \A s \in rows[call[c].id].sources :
                   rows[s].content.facts \subseteq rows[call[c].id].content.facts \union retired
        ELSE call[c].step \notin Before /\ \A i \in call[c].todo : Covered(i)

\* An export lists rows that were active, and knows them to be cleared.
Listed(c) == call[c].todo \union (IF call[c].step \in Holding THEN {call[c].id} ELSE {})
Exporting(c) ==
    call[c].op = "export" =>
        \A i \in Listed(c) : Cleared(i) /\ (rows[i].status = "active" \/ Covered(i))

\* Who takes a row out of use has seen to it that nothing is lost.
Threat(c) ==
    \/ call[c].step = "store" /\ call[c].row.status # "active"
    \/ call[c].step = "update" /\ call[c].row.status # "active" /\ call[c].op # "export"
Replaced(c) ==
    /\ Threat(c) => Covered(call[c].id) \/ Barred(rows[call[c].id].content)
    /\ call[c].step \in {"update", "store"} /\ call[c].row.status = "active" => call[c].op \in {"approve", "export"}

FactsKept == \A f \in (held \ retired) \ Unsafe : \E i \in Active : f \in rows[i].content.facts

\* A text of the file: its bullets are of consented rows and say what the rows say.
GoodText(text) ==
    /\ \A b \in Governed(text) : b.id \in consented /\ b.content = rows[b.id].content /\ Allowed(b.content)
    /\ \A a, b \in Governed(text) : ~a.content.summary /\ a.content = b.content => a.id = b.id

\* A caller writes the text it read, and has seen that the bullet is not in it twice.
Checked(c) ==
    /\ call[c].step \in {"check", "truncate", "fill"} =>
          /\ GoodText(call[c].file) /\ Allowed(rows[call[c].id].content) /\ Cleared(call[c].id)
    /\ call[c].step \in {"truncate", "fill"} => ~Unmarked(call[c].id, call[c].file)

\* What is in the file, or was until a caller emptied it to write it anew.
Written(i) ==
    \/ \E c \in Callers : At(c, "fill") /\ \E b \in call[c].file : b.id = i
    \/ (\A c \in Callers : ~At(c, "fill")) /\ \E b \in file : b.id = i
Claims(c) == call[c].step \in {"log", "update", "store"} /\ call[c].row.applied = "yes"
Truthful ==
    \/ spoiled
    \/ /\ \A c, d \in Callers : At(c, "fill") /\ At(d, "fill") => c = d
       /\ \A c \in Callers : At(c, "truncate") => file = call[c].file
       /\ \A i \in DOMAIN rows : rows[i].applied = "yes" => Written(i)
       /\ \A c \in Callers : Claims(c) => Written(call[c].id)

\* The rows whose status nobody has recorded or is about to.
Records(c) == {call[c].audits[k] : k \in DOMAIN call[c].audits}
Unrecorded == {i \in DOMAIN rows : /\ rows[i].status \notin audited[i]
                                   /\ \A c \in Callers : <<i, rows[i].status>> \notin Records(c)}
Recorded == Cardinality(Unrecorded) <= 2 * crashes

MemoryInv ==
    /\ TypeOK /\ Ledger /\ FactsKept /\ GoodText(file) /\ Truthful /\ Recorded
    /\ \A c \in Callers : Shaped(c) /\ Approving(c) /\ Exporting(c) /\ Replaced(c) /\ Checked(c)

-----------------------------------------------------------------------------
(* Types.                                                                       *)

\* Rows are numbered in the order of their insertion.
LEMMA RowFacts ==
    ASSUME TypeOK
    PROVE  /\ Len(rows) \in Nat /\ DOMAIN rows = 1 .. Len(rows) /\ Len(rows) <= MaxMemories
           /\ MaxMemories \in Nat
           /\ DOMAIN audited = 1 .. Len(rows)
           /\ \A i \in 1 .. Len(rows) : rows[i] \in Rows /\ audited[i] \subseteq Statuses
           /\ 1 .. Len(rows) \subseteq Ids
  BY BoundsAssumption DEF TypeOK, Ids

\* Rows, and copies of a row with another status or mark.
LEMMA RowCopies ==
    /\ \A r \in Rows, s \in Statuses : [r EXCEPT !.status = s] \in Rows
    /\ \A r \in Rows, a \in {"yes", "no"} : [r EXCEPT !.applied = a] \in Rows
    /\ \A r \in Rows, s \in Statuses, a \in {"yes", "no"} : [r EXCEPT !.status = s, !.applied = a] \in Rows
    /\ \A r \in Rows, s \in Statuses, a \in {"yes", "no"} : [r EXCEPT !.applied = a, !.status = s] \in Rows
    /\ \A x \in Contents, s \in Statuses : NewRow(x, s) \in Rows
    /\ \A f \in Facts : Says(f) \in Contents
    /\ NoRow \in Rows
  <1>1. \A x \in Contents, s \in Statuses : NewRow(x, s) \in Rows
    BY DEF NewRow, Rows
  <1>2. [summary |-> FALSE, facts |-> {}] \in Contents
    BY DEF Contents
  <1>3. NoRow \in Rows
    BY <1>1, <1>2 DEF NoRow, Statuses
  <1>4. \A f \in Facts : Says(f) \in Contents
    BY DEF Says, Contents
  <1> QED
    BY <1>1, <1>3, <1>4 DEF Rows

\* Every ledger length has room for a call that is idle, and a longer one for all calls
\* of a shorter one.
LEMMA CallTypes ==
    ASSUME NEW n \in Nat
    PROVE  /\ Idle \in Calls(n)
           /\ <<>> \in Seq((1 .. n) \X Statuses) /\ 0 \in 0 .. n /\ NoRow \in Rows
           /\ \A m \in Nat : m <= n => Calls(m) \subseteq Calls(n)
           /\ \A x \in (1 .. n) \X Statuses : <<x>> \in Seq((1 .. n) \X Statuses)
           /\ \A x, y \in (1 .. n) \X Statuses : <<x, y>> \in Seq((1 .. n) \X Statuses)
  <1>1. Idle \in Calls(n) /\ <<>> \in Seq((1 .. n) \X Statuses) /\ 0 \in 0 .. n /\ NoRow \in Rows
    <2>1. <<>> \in Seq((1 .. n) \X Statuses) /\ 0 \in 0 .. n
      BY EmptySeq
    <2> QED
      BY <2>1, RowCopies DEF Idle, Calls, Steps
  <1>2. ASSUME NEW m \in Nat, m <= n PROVE Calls(m) \subseteq Calls(n)
    <2>1. \A s \in Seq((1 .. m) \X Statuses) : s \in Seq((1 .. n) \X Statuses)
      <3> TAKE s \in Seq((1 .. m) \X Statuses)
      <3>1. (1 .. m) \X Statuses \subseteq (1 .. n) \X Statuses
        BY <1>2
      <3> QED
        BY <3>1, SeqMonotonic
    <2> QED
      BY <1>2, <2>1 DEF Calls
  <1> QED
    BY <1>1, <1>2

\* A caller's step leaves the other calls alone.
LEMMA CallStep ==
    ASSUME TypeOK, NEW c \in Callers, NEW next, Goto(c, next),
           Len(rows') \in Nat, Len(rows) <= Len(rows'), next \in Calls(Len(rows'))
    PROVE  call' \in [Callers -> Calls(Len(rows'))]
  <1>1. Calls(Len(rows)) \subseteq Calls(Len(rows'))
    BY CallTypes, RowFacts
  <1> QED
    BY <1>1 DEF TypeOK, Goto

-----------------------------------------------------------------------------
(* The ledger.                                                                  *)

\* The parts of what a caller knows of its call.
LEMMA CallFacts ==
    ASSUME TypeOK, NEW c \in Callers
    PROVE  /\ call[c] \in Calls(Len(rows))
           /\ call[c].row \in Rows /\ call[c].row.content \in Contents
           /\ call[c].row.status \in Statuses /\ call[c].row.applied \in {"yes", "no"}
           /\ call[c].id \in 0 .. Len(rows) /\ call[c].todo \subseteq 1 .. Len(rows)
           /\ call[c].file \subseteq Bullets /\ call[c].step \in Steps
           /\ call[c].audits \in Seq((1 .. Len(rows)) \X Statuses)
           /\ Len(call[c].audits) \in Nat /\ DOMAIN call[c].audits = 1 .. Len(call[c].audits)
           /\ \A k \in 1 .. Len(call[c].audits) : call[c].audits[k] \in (1 .. Len(rows)) \X Statuses
  <1>1. call[c] \in Calls(Len(rows))
    BY DEF TypeOK
  <1>2. /\ call[c].row \in Rows
        /\ call[c].id \in 0 .. Len(rows) /\ call[c].todo \subseteq 1 .. Len(rows)
        /\ call[c].file \subseteq Bullets /\ call[c].step \in Steps
        /\ call[c].audits \in Seq((1 .. Len(rows)) \X Statuses)
    BY <1>1 DEF Calls
  <1> QED
    BY <1>1, <1>2, LenProperties, ElementOfSeq DEF Rows

\* A row is added at the end, its record of changes still empty.
LEMMA Appended ==
    ASSUME TypeOK, Len(rows) < MaxMemories, NEW old \in Seq(Rows), Len(old) = Len(rows), NEW r \in Rows,
           rows' = Append(old, r), audited' = Append(audited, {})
    PROVE  /\ rows' \in Seq(Rows) /\ Len(rows') = Len(rows) + 1 /\ Len(rows') <= MaxMemories
           /\ \A i \in 1 .. Len(rows) : rows'[i] = old[i] /\ audited'[i] = audited[i]
           /\ rows'[Len(rows) + 1] = r /\ audited'[Len(rows) + 1] = {}
           /\ audited' \in Seq(SUBSET Statuses) /\ Len(audited') = Len(rows')
  <1>1. Len(rows) \in Nat /\ MaxMemories \in Nat
    BY RowFacts
  <1>2. /\ rows' \in Seq(Rows) /\ Len(rows') = Len(rows) + 1
        /\ \A i \in 1 .. Len(rows) : rows'[i] = old[i]
        /\ rows'[Len(rows) + 1] = r
    BY <1>1, AppendProperties
  <1>3. /\ audited' \in Seq(SUBSET Statuses) /\ Len(audited') = Len(rows) + 1
        /\ \A i \in 1 .. Len(rows) : audited'[i] = audited[i]
        /\ audited'[Len(rows) + 1] = {}
    <2>1. audited \in Seq(SUBSET Statuses) /\ Len(audited) = Len(rows) /\ {} \in SUBSET Statuses
      BY DEF TypeOK
    <2> QED
      BY <1>1, <2>1, AppendProperties
  <1> QED
    BY <1>1, <1>2, <1>3

\* A new memory or summary is a row.
LEMMA NewRows ==
    ASSUME TypeOK
    PROVE  /\ \A f \in Facts : NewRow(Says(f), InitialStatus(Says(f))) \in Rows /\ NewRow(Says(f), "active") \in Rows
           /\ \A kind \in {"merge", "compact"}, group \in SUBSET Active : \A kept \in SUBSET AllFacts(group) :
                 /\ Summary(kept) \in Contents
                 /\ [NewRow(Summary(kept), InitialStatus(Summary(kept)))
                        EXCEPT !.auto = kind, !.sources = group] \in Rows
  <1>1. \A x : InitialStatus(x) \in Statuses
    BY DEF InitialStatus, Statuses
  <1>2. ASSUME NEW kind \in {"merge", "compact"}, NEW group \in SUBSET Active, NEW kept \in SUBSET AllFacts(group)
        PROVE  /\ Summary(kept) \in Contents
               /\ [NewRow(Summary(kept), InitialStatus(Summary(kept)))
                      EXCEPT !.auto = kind, !.sources = group] \in Rows
    <2>1. group \subseteq 1 .. Len(rows) /\ group \subseteq Ids
      BY RowFacts DEF Active
    <2>2. \A i \in group : rows[i].content.facts \subseteq Facts
      BY <2>1, RowFacts DEF Rows, Contents
    <2>3. Summary(kept) \in Contents
      BY <2>2 DEF Summary, Contents, AllFacts
    <2>4. NewRow(Summary(kept), InitialStatus(Summary(kept))) \in Rows
      BY <1>1, <2>3, RowCopies
    <2> QED
      BY <2>1, <2>3, <2>4 DEF Rows
  <1>3. \A f \in Facts : NewRow(Says(f), InitialStatus(Says(f))) \in Rows /\ NewRow(Says(f), "active") \in Rows
    BY <1>1, RowCopies DEF Statuses
  <1> QED
    BY <1>2, <1>3

\* What no step of anybody changes: what a row says and where it comes from; and who
\* consented, or retired a fact, has done so for good.
Grows ==
    /\ rows' \in Seq(Rows) /\ Len(rows') \in Nat /\ Len(rows) <= Len(rows') /\ Len(rows') <= MaxMemories
    /\ audited' \in Seq(SUBSET Statuses) /\ Len(audited') = Len(rows')
    /\ \A i \in 1 .. Len(rows) : rows'[i].content = rows[i].content /\ rows'[i].sources = rows[i].sources
    /\ consented \subseteq consented' /\ retired \subseteq retired'

\* The steps that change neither a row nor what was consented to, held or retired.
Quiet == /\ UNCHANGED <<rows, consented, held, retired>>
         /\ audited' \in Seq(SUBSET Statuses) /\ Len(audited') = Len(audited)
Acts(c) == Request(c) \/ Step(c) \/ Crash(c)

\* A step that leaves the ledger alone loses nothing of it.
LEMMA QuietGrows == TypeOK /\ Quiet => Grows
  BY RowFacts DEF TypeOK, Quiet, Grows

\* The rows after an insertion, a replacement and an update.
LEMMA InsertRows ==
    ASSUME TypeOK, NEW c \in Callers, Insert(c)
    PROVE  /\ Grows /\ Len(rows') = Len(rows) + 1 /\ Len(rows) \in Nat
           /\ \A i \in 1 .. Len(rows) : rows'[i] = rows[i] /\ audited'[i] = audited[i]
           /\ rows'[Len(rows) + 1] = call[c].row
  <1>1. Len(rows) < MaxMemories /\ rows' = Append(rows, call[c].row) /\ audited' = Append(audited, {})
        /\ Len(rows) \in Nat /\ UNCHANGED <<consented, retired>>
    BY RowFacts DEF Insert, history
  <1>2. call[c].row \in Rows /\ rows \in Seq(Rows)
    BY CallFacts DEF TypeOK
  <1>3. /\ rows' \in Seq(Rows) /\ Len(rows') = Len(rows) + 1 /\ Len(rows') <= MaxMemories
        /\ \A i \in 1 .. Len(rows) : rows'[i] = rows[i] /\ audited'[i] = audited[i]
        /\ rows'[Len(rows) + 1] = call[c].row
        /\ audited' \in Seq(SUBSET Statuses) /\ Len(audited') = Len(rows')
    BY <1>1, <1>2, Appended
  <1> QED
    BY <1>1, <1>3 DEF Grows

\* A replacement archives one row and adds an active one.
LEMMA ReplaceRows ==
    ASSUME TypeOK, NEW c \in Callers, NEW id \in DOMAIN rows, NEW f \in Facts, Replace(c, id, f)
    PROVE  /\ Grows /\ Len(rows') = Len(rows) + 1 /\ Len(rows) \in Nat /\ id \in 1 .. Len(rows)
           /\ \A i \in 1 .. Len(rows) : /\ i # id => rows'[i] = rows[i]
                                        /\ rows'[i].applied = rows[i].applied /\ audited'[i] = audited[i]
           /\ rows'[id].status = "archived"
           /\ rows'[Len(rows) + 1] = NewRow(Says(f), "active")
  <1> DEFINE row == [rows[id] EXCEPT !.status = "archived"]
  <1>1. id \in 1 .. Len(rows) /\ Len(rows) \in Nat /\ Len(rows) < MaxMemories /\ rows \in Seq(Rows)
        /\ consented \subseteq consented' /\ retired \subseteq retired'
    BY RowFacts DEF Replace, TypeOK
  <1>2. row \in Rows /\ row.content = rows[id].content /\ row.sources = rows[id].sources
        /\ row.applied = rows[id].applied /\ row.status = "archived"
    BY <1>1, RowFacts DEF Rows, Statuses
  <1>3. /\ rows' = Append([rows EXCEPT ![id] = row], NewRow(Says(f), "active"))
        /\ audited' = Append(audited, {})
    BY DEF Replace, TypeOK
  <1> HIDE DEF row
  <1>4. /\ [rows EXCEPT ![id] = row] \in Seq(Rows) /\ Len([rows EXCEPT ![id] = row]) = Len(rows)
        /\ \A i \in 1 .. Len(rows) : [rows EXCEPT ![id] = row][i] = IF i = id THEN row ELSE rows[i]
    BY <1>1, <1>2, ExceptSeq
  <1> DEFINE old == [rows EXCEPT ![id] = row]
  <1>5. /\ old \in Seq(Rows) /\ Len(old) = Len(rows) /\ rows' = Append(old, NewRow(Says(f), "active"))
        /\ \A i \in 1 .. Len(rows) : old[i] = IF i = id THEN row ELSE rows[i]
    BY <1>3, <1>4
  <1> HIDE DEF old
  <1>6. NewRow(Says(f), "active") \in Rows
    BY NewRows
  <1>7. /\ rows' \in Seq(Rows) /\ Len(rows') = Len(rows) + 1 /\ Len(rows') <= MaxMemories
        /\ \A i \in 1 .. Len(rows) : rows'[i] = old[i] /\ audited'[i] = audited[i]
        /\ rows'[Len(rows) + 1] = NewRow(Says(f), "active")
        /\ audited' \in Seq(SUBSET Statuses) /\ Len(audited') = Len(rows')
    BY <1>1, <1>3, <1>5, <1>6, Appended
  <1>8. \A i \in 1 .. Len(rows) : rows'[i] = IF i = id THEN row ELSE rows[i]
    BY <1>5, <1>7
  <1>9. Grows
    BY <1>1, <1>2, <1>7, <1>8 DEF Grows
  <1> QED
    BY <1>1, <1>2, <1>7, <1>8, <1>9

\* An update writes the caller's copy over its row, which says the same.
LEMMA StoreRows ==
    ASSUME TypeOK, NEW c \in Callers, Shaped(c), Store(c)
    PROVE  /\ Grows /\ Len(rows') = Len(rows) /\ Len(rows) \in Nat /\ call[c].id \in 1 .. Len(rows)
           /\ \A i \in 1 .. Len(rows) : rows'[i] = IF i = call[c].id THEN call[c].row ELSE rows[i]
           /\ call[c].row.content = rows[call[c].id].content
  <1> DEFINE id == call[c].id
             row == call[c].row
  <1>1. id \in 1 .. Len(rows) /\ row \in Rows /\ Len(rows) \in Nat
        /\ row.content = rows[id].content /\ row.sources = rows[id].sources /\ rows \in Seq(Rows)
    BY RowFacts, CallFacts DEF Store, At, Shaped, Holding, TypeOK
  <1>2. rows' = [rows EXCEPT ![id] = row] /\ UNCHANGED <<audited, consented, retired>>
    BY DEF Store
  <1> HIDE DEF id, row
  <1>3. /\ rows' \in Seq(Rows) /\ Len(rows') = Len(rows)
        /\ \A i \in 1 .. Len(rows) : rows'[i] = IF i = id THEN row ELSE rows[i]
    BY <1>1, <1>2, ExceptSeq
  <1>4. Grows
    BY <1>1, <1>2, <1>3, RowFacts DEF Grows, TypeOK
  <1> QED
    BY <1>1, <1>3, <1>4 DEF id, row

\* What a step of a caller leaves alone, and the types of what it changes.
Advances(c) ==
    /\ Grows /\ call' \in [Callers -> Calls(Len(rows'))]
    /\ \A d \in Callers \ {c} : call'[d] = call[d]

\* A caller that turns to a well-formed call advances.
LEMMA GotoAdvances ==
    ASSUME TypeOK, NEW c \in Callers, Grows, NEW next \in Calls(Len(rows')), Goto(c, next)
    PROVE  Advances(c) /\ call'[c] = next
  <1>1. call' \in [Callers -> Calls(Len(rows'))]
    BY CallStep DEF Grows
  <1> QED
    BY <1>1 DEF Advances, Goto, TypeOK

\* Nothing is begun from a call that is under way.
LEMMA BeginsQuiet ==
    ASSUME TypeOK, NEW c \in Callers, UNCHANGED <<rows, audited, held>>, retired \subseteq retired',
           consented' = consented \/ \E i \in 1 .. Len(rows) : consented' = consented \union {i}
    PROVE  Grows
  BY RowFacts DEF Grows, TypeOK

\* Every request begins a well-formed call.
LEMMA RequestAdvances ==
    ASSUME TypeOK, Ledger, NEW c \in Callers, Request(c)
    PROVE  Advances(c)
  <1>1. ASSUME NEW f \in Facts, Propose(c, f) PROVE Advances(c)
    <2>1. Grows /\ Len(rows') = Len(rows) /\ Len(rows) \in Nat
      BY <1>1, QuietGrows, RowFacts DEF Propose, history, Quiet, TypeOK
    <2>2. PICK next : Goto(c, next) /\ (next = Idle \/
                 next = [Idle EXCEPT !.op = "change", !.step = "insert",
                                     !.row = NewRow(Says(f), InitialStatus(Says(f)))])
      BY <1>1 DEF Propose, Begin
    <2>3. next \in Calls(Len(rows'))
      <3>1. Idle \in Calls(Len(rows')) /\ NewRow(Says(f), InitialStatus(Says(f))) \in Rows
        BY <2>1, CallTypes, NewRows
      <3> QED
        BY <2>2, <3>1 DEF Calls, Steps
    <2> QED
      BY <2>1, <2>2, <2>3, GotoAdvances
  <1>2. ASSUME NEW kind \in {"merge", "compact"}, NEW group \in SUBSET Active,
               NEW kept \in SUBSET AllFacts(group), Automate(c, kind, group, kept)
        PROVE  Advances(c)
    <2>1. Grows /\ Len(rows') = Len(rows) /\ Len(rows) \in Nat
      BY <1>2, QuietGrows, RowFacts DEF Automate, history, Quiet, TypeOK
    <2>2. PICK next : Goto(c, next) /\ (next = Idle \/
                 next = [Idle EXCEPT !.op = "change", !.step = "insert",
                                     !.row = [NewRow(Summary(kept), InitialStatus(Summary(kept)))
                                              EXCEPT !.auto = kind, !.sources = group]])
      BY <1>2 DEF Automate, Begin
    <2>3. next \in Calls(Len(rows'))
      <3> DEFINE row == [NewRow(Summary(kept), InitialStatus(Summary(kept)))
                           EXCEPT !.auto = kind, !.sources = group]
      <3>1. row \in Rows /\ Idle \in Calls(Len(rows'))
        BY <2>1, CallTypes, NewRows
      <3>2. next = Idle \/ next = [Idle EXCEPT !.op = "change", !.step = "insert", !.row = row]
        BY <2>2
      <3> HIDE DEF row
      <3> QED
        BY <3>1, <3>2 DEF Calls, Steps
    <2> QED
      BY <2>1, <2>2, <2>3, GotoAdvances
  <1>3. ASSUME NEW id \in DOMAIN rows, Approve(c, id) PROVE Advances(c)
    <2>1. Grows /\ Len(rows') = Len(rows) /\ Len(rows) \in Nat /\ id \in 1 .. Len(rows) /\ rows[id] \in Rows
      BY <1>3, BeginsQuiet, RowFacts DEF Approve
    <2>2. PICK next : Goto(c, next) /\
                 (\/ next = [Idle EXCEPT !.op = "approve", !.step = "preview", !.id = id, !.todo = rows[id].sources,
                                  !.row = [rows[id] EXCEPT !.status = "active", !.applied = "yes"]]
                  \/ next = [Idle EXCEPT !.op = "change", !.step = "update", !.id = id,
                                  !.row = [rows[id] EXCEPT !.status = "rejected"]])
      BY <1>3 DEF Approve, Begin
    <2>3. next \in Calls(Len(rows'))
      <3> DEFINE active == [rows[id] EXCEPT !.status = "active", !.applied = "yes"]
                 rejected == [rows[id] EXCEPT !.status = "rejected"]
                 sources == rows[id].sources
      <3>1. active \in Rows /\ rejected \in Rows /\ id \in 0 .. Len(rows') /\ sources \in SUBSET (1 .. Len(rows'))
        <4>1. active \in Rows /\ rejected \in Rows
          BY <2>1 DEF Rows, Statuses
        <4>2. sources \subseteq 1 .. Len(rows)
          BY DEF Ledger, Sound
        <4> QED
          BY <2>1, <4>1, <4>2
      <3>2. Idle \in Calls(Len(rows'))
        BY <2>1, CallTypes
      <3>3. \/ next = [Idle EXCEPT !.op = "approve", !.step = "preview", !.id = id, !.todo = sources, !.row = active]
            \/ next = [Idle EXCEPT !.op = "change", !.step = "update", !.id = id, !.row = rejected]
        BY <2>2
      <3> HIDE DEF active, rejected, sources
      <3> QED
        BY <3>1, <3>2, <3>3 DEF Calls, Steps
    <2> QED
      BY <2>1, <2>2, <2>3, GotoAdvances
  <1>4. ASSUME NEW id \in DOMAIN rows, NEW status \in {"rejected", "archived"}, Transition(c, id, status)
        PROVE  Advances(c)
    <2>1. Grows /\ Len(rows') = Len(rows) /\ Len(rows) \in Nat /\ id \in 1 .. Len(rows) /\ rows[id] \in Rows
      BY <1>4, RowFacts DEF Transition, Grows, TypeOK
    <2>2. Goto(c, [Idle EXCEPT !.op = "transition", !.step = "update", !.id = id,
                               !.row = [rows[id] EXCEPT !.status = status]])
      BY <1>4 DEF Transition, Begin
    <2>3. [Idle EXCEPT !.op = "transition", !.step = "update", !.id = id,
                       !.row = [rows[id] EXCEPT !.status = status]] \in Calls(Len(rows'))
      <3> DEFINE row == [rows[id] EXCEPT !.status = status]
      <3>1. row \in Rows /\ id \in 0 .. Len(rows') /\ Idle \in Calls(Len(rows'))
        <4>1. row \in Rows
          BY <2>1 DEF Rows, Statuses
        <4> QED
          BY <2>1, <4>1, CallTypes
      <3> HIDE DEF row
      <3>2. [Idle EXCEPT !.op = "transition", !.step = "update", !.id = id, !.row = row] \in Calls(Len(rows'))
        BY <3>1 DEF Calls, Steps
      <3> QED
        BY <3>2 DEF row
    <2> QED
      BY <2>1, <2>2, <2>3, GotoAdvances
  <1>5. ASSUME NEW id \in DOMAIN rows, NEW f \in Facts, Replace(c, id, f)
        PROVE  Advances(c)
    <2> DEFINE next == [Idle EXCEPT !.op = "change", !.step = "audit",
                                    !.audits = <<<<Len(rows'), "active">>, <<id, "archived">>>>]
    <2>1. Grows /\ Len(rows') = Len(rows) + 1 /\ Len(rows) \in Nat /\ id \in 1 .. Len(rows)
      BY <1>5, ReplaceRows
    <2>2. Goto(c, next)
      BY <1>5 DEF Replace, Begin
    <2>3. next \in Calls(Len(rows'))
      <3>1. <<<<Len(rows'), "active">>, <<id, "archived">>>> \in Seq((1 .. Len(rows')) \X Statuses)
        <4>1. <<Len(rows'), "active">> \in (1 .. Len(rows')) \X Statuses /\ <<id, "archived">> \in (1 .. Len(rows')) \X Statuses
          BY <2>1 DEF Statuses
        <4> QED
          BY <4>1, <2>1, CallTypes
      <3> DEFINE audits == <<<<Len(rows'), "active">>, <<id, "archived">>>>
      <3>2. audits \in Seq((1 .. Len(rows')) \X Statuses) /\ Idle \in Calls(Len(rows'))
        BY <2>1, <3>1, CallTypes
      <3> HIDE DEF audits
      <3>3. [Idle EXCEPT !.op = "change", !.step = "audit", !.audits = audits] \in Calls(Len(rows'))
        BY <3>2 DEF Calls, Steps
      <3> QED
        BY <3>3 DEF audits
    <2> HIDE DEF next
    <2> QED
      BY <2>1, <2>2, <2>3, GotoAdvances
  <1>6. ASSUME Export(c) PROVE Advances(c)
    <2>1. Grows /\ Len(rows') = Len(rows) /\ Len(rows) \in Nat
      BY <1>6, QuietGrows, RowFacts DEF Export, history, Quiet, TypeOK
    <2>2. Goto(c, [Idle EXCEPT !.op = "export", !.step = "exports", !.todo = {i \in Active : rows[i].applied = "no"}])
      BY <1>6 DEF Export, Begin
    <2>3. [Idle EXCEPT !.op = "export", !.step = "exports", !.todo = {i \in Active : rows[i].applied = "no"}]
              \in Calls(Len(rows'))
      BY <2>1, CallTypes, RowFacts DEF Idle, Calls, Steps, Active
    <2> QED
      BY <2>1, <2>2, <2>3, GotoAdvances
  <1> QED
    BY <1>1, <1>2, <1>3, <1>4, <1>5, <1>6 DEF Request

\* Every step leads to a well-formed call.
LEMMA StepAdvances ==
    ASSUME TypeOK, Ledger, NEW c \in Callers, Shaped(c), Step(c)
    PROVE  Advances(c)
  <1>1. CASE Insert(c)
    <2>1. Grows /\ Len(rows') = Len(rows) + 1 /\ Len(rows) \in Nat /\ Len(rows') \in Nat
      BY <1>1, InsertRows
    <2>2. call[c].row.status \in Statuses
      BY CallFacts
    <2> DEFINE audits == <<<<Len(rows'), call[c].row.status>>>>
               next == [call[c] EXCEPT !.step = "audit", !.audits = audits]
    <2>3. audits \in Seq((1 .. Len(rows')) \X Statuses)
      <3>1. <<Len(rows'), call[c].row.status>> \in (1 .. Len(rows')) \X Statuses
        BY <2>1, <2>2
      <3> QED
        BY <3>1, <2>1, CallTypes
    <2>4. call[c] \in Calls(Len(rows'))
      BY <2>1, CallFacts, CallTypes
    <2>5. next \in Calls(Len(rows'))
      <3> HIDE DEF audits
      <3> QED
        BY <2>3, <2>4 DEF Calls, Steps
    <2>6. Goto(c, next)
      BY <1>1 DEF Insert
    <2> HIDE DEF next
    <2> QED
      BY <2>1, <2>5, <2>6, GotoAdvances
  <1>2. CASE Preview(c)
    <2>1. Grows /\ Len(rows') = Len(rows) /\ Len(rows) \in Nat
      BY <1>2, QuietGrows, RowFacts DEF Preview, history, Quiet, TypeOK
    <2>2. call[c] \in Calls(Len(rows')) /\ Idle \in Calls(Len(rows'))
      BY <2>1, CallFacts, CallTypes
    <2>3. file \subseteq Bullets
      BY DEF TypeOK
    <2>4. PICK next : Goto(c, next) /\ (next = Idle \/ next = [call[c] EXCEPT !.step = "check", !.file = file])
      BY <1>2 DEF Preview, Ends
    <2>5. next \in Calls(Len(rows'))
      BY <2>2, <2>4, <2>3 DEF Calls, Steps
    <2> QED
      BY <2>1, <2>4, <2>5, GotoAdvances
  <1>3. CASE Check(c)
    <2>1. Grows /\ Len(rows') = Len(rows) /\ Len(rows) \in Nat
      BY <1>3, QuietGrows, RowFacts DEF Check, history, Quiet, TypeOK
    <2>2. call[c] \in Calls(Len(rows')) /\ Idle \in Calls(Len(rows'))
      BY <2>1, CallFacts, CallTypes
    <2>4. PICK next : Goto(c, next) /\ (next = Idle \/ next = [call[c] EXCEPT !.step = "truncate"])
      BY <1>3 DEF Check, Ends
    <2>5. next \in Calls(Len(rows'))
      BY <2>2, <2>4 DEF Calls, Steps
    <2> QED
      BY <2>1, <2>4, <2>5, GotoAdvances
  <1>4. CASE Truncate(c)
    <2>1. Grows /\ Len(rows') = Len(rows) /\ Len(rows) \in Nat
      BY <1>4, QuietGrows, RowFacts DEF Truncate, history, Quiet, TypeOK
    <2>2. call[c] \in Calls(Len(rows')) /\ Idle \in Calls(Len(rows'))
      BY <2>1, CallFacts, CallTypes
    <2>4. PICK next : Goto(c, next) /\ (next = [call[c] EXCEPT !.step = "fill"])
      BY <1>4 DEF Truncate, Ends
    <2>5. next \in Calls(Len(rows'))
      BY <2>2, <2>4 DEF Calls, Steps
    <2> QED
      BY <2>1, <2>4, <2>5, GotoAdvances
  <1>5. CASE Fill(c)
    <2>1. Grows /\ Len(rows') = Len(rows) /\ Len(rows) \in Nat
      BY <1>5, QuietGrows, RowFacts DEF Fill, history, Quiet, TypeOK
    <2>2. call[c] \in Calls(Len(rows')) /\ Idle \in Calls(Len(rows'))
      BY <2>1, CallFacts, CallTypes
    <2>4. PICK next : Goto(c, next) /\ (\E step \in {"log", "update"} : next = [call[c] EXCEPT !.step = step, !.file = {}])
      BY <1>5 DEF Fill, Ends
    <2>5. next \in Calls(Len(rows'))
      BY <2>2, <2>4 DEF Calls, Steps
    <2> QED
      BY <2>1, <2>4, <2>5, GotoAdvances
  <1>6. CASE Log(c)
    <2>1. audited' \in Seq(SUBSET Statuses) /\ Len(audited') = Len(audited)
      <3>1. call[c].id \in 1 .. Len(rows) /\ audited \in Seq(SUBSET Statuses) /\ Len(audited) = Len(rows)
        BY <1>6, RowFacts DEF Log, At, Shaped, Holding, Before, TypeOK
      <3>2. audited[call[c].id] \union {"active"} \in SUBSET Statuses
        BY <3>1, RowFacts DEF Statuses
      <3>3. audited' = [audited EXCEPT ![call[c].id] = audited[call[c].id] \union {"active"}]
        BY <1>6 DEF Log
      <3> QED
        BY <3>1, <3>2, <3>3, ExceptSeq
    <2>2. Grows /\ Len(rows') = Len(rows) /\ Len(rows) \in Nat
      BY <1>6, <2>1, QuietGrows, RowFacts DEF Log, history, Quiet
    <2>3. call[c] \in Calls(Len(rows'))
      BY <2>2, CallFacts
    <2>4. Goto(c, [call[c] EXCEPT !.step = "update"]) /\ [call[c] EXCEPT !.step = "update"] \in Calls(Len(rows'))
      BY <1>6, <2>3 DEF Log, Calls, Steps
    <2> QED
      BY <2>2, <2>4, GotoAdvances
  <1>7. CASE Update(c)
    <2>1. Grows /\ Len(rows') = Len(rows) /\ Len(rows) \in Nat
      BY <1>7, QuietGrows, RowFacts DEF Update, history, Quiet, TypeOK
    <2>2. call[c] \in Calls(Len(rows')) /\ call[c].row \in Rows
      BY <2>1, CallFacts
    <2>3. rows[call[c].id] \in Rows
      BY <1>7, RowFacts DEF Update, At, Shaped, Holding
    <2> DEFINE row == [call[c].row EXCEPT
                          !.applied = IF call[c].op = "transition" THEN rows[call[c].id].applied ELSE @,
                          !.status = IF call[c].op = "export" THEN rows[call[c].id].status ELSE @]
    <2>4. row \in Rows
      BY <2>2, <2>3 DEF Rows
    <2>5. Goto(c, [call[c] EXCEPT !.step = "store", !.row = row])
      BY <1>7 DEF Update
    <2>6. [call[c] EXCEPT !.step = "store", !.row = row] \in Calls(Len(rows'))
      <3> HIDE DEF row
      <3> QED
        BY <2>2, <2>4 DEF Calls, Steps
    <2> HIDE DEF row
    <2> QED
      BY <2>1, <2>5, <2>6, GotoAdvances
  <1>8. CASE Store(c)
    <2> DEFINE id == call[c].id
               row == call[c].row
    <2>1. id \in 1 .. Len(rows) /\ row.status \in Statuses /\ Len(rows) \in Nat
      BY <1>8, StoreRows, CallFacts
    <2>2. Grows /\ Len(rows') = Len(rows)
      BY <1>8, StoreRows
    <2> HIDE DEF id, row
    <2> DEFINE audits == IF call[c].op = "export" THEN <<<<id, row.status>>, <<id, "active">>>>
                         ELSE <<<<id, row.status>>>>
               next == [call[c] EXCEPT !.step = "audit", !.audits = audits]
    <2>3. audits \in Seq((1 .. Len(rows')) \X Statuses)
      <3>1. <<id, row.status>> \in (1 .. Len(rows')) \X Statuses /\ <<id, "active">> \in (1 .. Len(rows')) \X Statuses
        BY <2>1, <2>2 DEF Statuses
      <3> QED
        BY <2>1, <2>2, <3>1, CallTypes
    <2>4. call[c] \in Calls(Len(rows'))
      BY <2>2, CallFacts
    <2>5. next \in Calls(Len(rows'))
      <3> HIDE DEF audits
      <3> QED
        BY <2>3, <2>4 DEF Calls, Steps
    <2>6. Goto(c, next)
      BY <1>8 DEF Store, id, row
    <2> HIDE DEF next
    <2> QED
      BY <2>2, <2>5, <2>6, GotoAdvances
  <1>9. CASE Audit(c)
    <2> DEFINE record == Head(call[c].audits)
               rest == Tail(call[c].audits)
    <2>1. /\ record \in (1 .. Len(rows)) \X Statuses /\ rest \in Seq((1 .. Len(rows)) \X Statuses)
      BY <1>9, CallFacts, HeadTailProperties DEF Audit, At, Shaped
    <2>2. audited' = [audited EXCEPT ![record[1]] = audited[record[1]] \union {record[2]}]
      BY <1>9 DEF Audit
    <2>3. PICK next : Goto(c, next) /\ (next = Idle \/ next = [call[c] EXCEPT !.audits = rest]
                   \/ \E step \in {"sources", "exports"} : next = [call[c] EXCEPT !.audits = rest, !.step = step])
      BY <1>9 DEF Audit, Ends
    <2> HIDE DEF record, rest
    <2>4. audited' \in Seq(SUBSET Statuses) /\ Len(audited') = Len(audited)
      <3>1. record[1] \in 1 .. Len(rows) /\ record[2] \in Statuses
        BY <2>1
      <3>2. audited \in Seq(SUBSET Statuses) /\ Len(audited) = Len(rows)
        BY DEF TypeOK
      <3>3. audited[record[1]] \union {record[2]} \in SUBSET Statuses
        BY <3>1, RowFacts
      <3> QED
        BY <2>2, <3>1, <3>2, <3>3, ExceptSeq
    <2>5. Grows /\ Len(rows') = Len(rows) /\ Len(rows) \in Nat
      BY <1>9, <2>4, QuietGrows, RowFacts DEF Audit, history, Quiet
    <2>6. call[c] \in Calls(Len(rows')) /\ Idle \in Calls(Len(rows'))
      BY <2>5, CallFacts, CallTypes
    <2>7. next \in Calls(Len(rows'))
      BY <2>1, <2>3, <2>5, <2>6 DEF Calls, Steps
    <2> QED
      BY <2>3, <2>5, <2>7, GotoAdvances
  <1>10. CASE ArchiveNext(c)
    <2>1. Grows /\ Len(rows') = Len(rows) /\ Len(rows) \in Nat
      BY <1>10, QuietGrows, RowFacts DEF ArchiveNext, history, Quiet, TypeOK
    <2>2. call[c] \in Calls(Len(rows')) /\ Idle \in Calls(Len(rows'))
      BY <2>1, CallFacts, CallTypes
    <2>3. \A i \in call[c].todo : i \in 0 .. Len(rows') /\ [rows[i] EXCEPT !.status = "archived"] \in Rows
      <3> TAKE i \in call[c].todo
      <3>1. i \in 1 .. Len(rows) /\ rows[i] \in Rows
        BY CallFacts, RowFacts
      <3>2. [rows[i] EXCEPT !.status = "archived"] \in Rows
        BY <3>1 DEF Rows, Statuses
      <3> QED
        BY <2>1, <3>1, <3>2
    <2>4. \/ Goto(c, Idle)
          \/ \E i \in call[c].todo, row \in Rows : \E next \in {[call[c] EXCEPT !.todo = call[c].todo \ {i}],
                 [call[c] EXCEPT !.step = "update", !.id = i, !.todo = call[c].todo \ {i}, !.row = row]} : Goto(c, next)
      BY <1>10, <2>3 DEF ArchiveNext, Ends
    <2>5. CASE Goto(c, Idle)
      BY <2>1, <2>2, <2>5, GotoAdvances
    <2>6. ASSUME NEW i \in call[c].todo, NEW row \in Rows, NEW next, Goto(c, next),
                 next \in {[call[c] EXCEPT !.todo = call[c].todo \ {i}],
                    [call[c] EXCEPT !.step = "update", !.id = i, !.todo = call[c].todo \ {i}, !.row = row]}
          PROVE  Advances(c)
      <3>1. i \in 0 .. Len(rows') /\ call[c].todo \ {i} \in SUBSET (1 .. Len(rows'))
        BY <2>1, <2>3, CallFacts
      <3>2. next \in Calls(Len(rows'))
        BY <2>2, <2>6, <3>1 DEF Calls, Steps
      <3> QED
        BY <2>1, <2>6, <3>2, GotoAdvances
    <2> QED
      BY <2>4, <2>5, <2>6
  <1>11. CASE ExportNext(c)
    <2>1. Grows /\ Len(rows') = Len(rows) /\ Len(rows) \in Nat
      BY <1>11, QuietGrows, RowFacts DEF ExportNext, history, Quiet, TypeOK
    <2>2. call[c] \in Calls(Len(rows')) /\ Idle \in Calls(Len(rows'))
      BY <2>1, CallFacts, CallTypes
    <2>3. \A i \in call[c].todo : i \in 0 .. Len(rows') /\ [rows[i] EXCEPT !.applied = "yes"] \in Rows
      <3> TAKE i \in call[c].todo
      <3>1. i \in 1 .. Len(rows) /\ rows[i] \in Rows
        BY CallFacts, RowFacts
      <3>2. [rows[i] EXCEPT !.applied = "yes"] \in Rows
        BY <3>1 DEF Rows
      <3> QED
        BY <2>1, <3>1, <3>2
    <2>4. \/ Goto(c, Idle)
          \/ \E i \in call[c].todo, row \in Rows : Goto(c,
                 [call[c] EXCEPT !.step = "preview", !.id = i, !.todo = call[c].todo \ {i}, !.row = row])
      BY <1>11, <2>3 DEF ExportNext, Ends
    <2>5. CASE Goto(c, Idle)
      BY <2>1, <2>2, <2>5, GotoAdvances
    <2>6. ASSUME NEW i \in call[c].todo, NEW row \in Rows, NEW next, Goto(c, next),
                 next = [call[c] EXCEPT !.step = "preview", !.id = i, !.todo = call[c].todo \ {i}, !.row = row]
          PROVE  Advances(c)
      <3>1. i \in 0 .. Len(rows') /\ call[c].todo \ {i} \in SUBSET (1 .. Len(rows'))
        BY <2>1, <2>3, CallFacts
      <3>2. next \in Calls(Len(rows'))
        BY <2>2, <2>6, <3>1 DEF Calls, Steps
      <3> QED
        BY <2>1, <2>6, <3>2, GotoAdvances
    <2> QED
      BY <2>4, <2>5, <2>6
  <1> QED
    BY <1>1, <1>2, <1>3, <1>4, <1>5, <1>6, <1>7, <1>8, <1>9, <1>10, <1>11 DEF Step

\* A call that dies leaves its caller idle and the ledger as it is.
LEMMA CrashAdvances ==
    ASSUME TypeOK, NEW c \in Callers, Crash(c)
    PROVE  Advances(c) /\ call'[c] = Idle
  <1>1. Grows /\ Len(rows') \in Nat
    BY QuietGrows, RowFacts DEF Crash, Quiet, TypeOK
  <1>2. Idle \in Calls(Len(rows')) /\ Goto(c, Idle)
    BY <1>1, CallTypes DEF Crash, Ends
  <1> QED
    BY <1>1, <1>2, GotoAdvances

\* A patched text consists of bullets.
LEMMA PatchedType ==
    ASSUME TypeOK, NEW id \in 1 .. Len(rows), NEW text \in SUBSET Bullets
    PROVE  Patched(id, text) \subseteq Bullets
  <1>1. [id |-> id, content |-> rows[id].content] \in Bullets
    BY RowFacts DEF Bullets, Rows
  <1> QED
    BY <1>1 DEF Patched

\* Whatever a caller does keeps the types.
LEMMA CallerTypes ==
    ASSUME TypeOK, Ledger, NEW c \in Callers, Shaped(c), Acts(c)
    PROVE  TypeOK'
  <1> USE DEF history, counters
  <1>1. Advances(c)
    BY RequestAdvances, StepAdvances, CrashAdvances DEF Acts
  <1>2. file' \subseteq Bullets
    <2>1. CASE Fill(c)
      <3>1. call[c].id \in 1 .. Len(rows) /\ call[c].file \in SUBSET Bullets
        BY <2>1, RowFacts, CallFacts DEF Fill, At, Shaped, Holding, Before
      <3> QED
        BY <2>1, <3>1, PatchedType DEF Fill
    <2>2. CASE Truncate(c)
      BY <2>2 DEF Truncate
    <2>3. CASE UNCHANGED file
      BY <2>3 DEF TypeOK
    <2> QED
      BY <2>1, <2>2, <2>3 DEF Acts, Request, Step, Propose, Automate, Approve, Transition, Replace, Export,
         Insert, Preview, Check, Log, Update, Store, Audit, ArchiveNext, ExportNext, Crash
  <1>3. /\ consented' \subseteq 1 .. Len(rows') /\ held' \subseteq Facts /\ retired' \subseteq Facts
    <2>1. ASSUME NEW id \in DOMAIN rows, Approve(c, id)
          PROVE  consented' \subseteq 1 .. Len(rows') /\ held' \subseteq Facts /\ retired' \subseteq Facts
      <3>1. LeftOut(id) \subseteq Facts
        <4>1. \A s \in rows[id].sources : s \in 1 .. Len(rows) /\ rows[s].content.facts \subseteq Facts
          BY RowFacts DEF Ledger, Sound, Rows, Contents
        <4> QED
          BY <4>1 DEF LeftOut, AllFacts
      <3> QED
        BY <2>1, <3>1, RowFacts DEF Approve, TypeOK
    <2>2. ASSUME NEW id \in DOMAIN rows, NEW status \in {"rejected", "archived"}, Transition(c, id, status)
          PROVE  consented' \subseteq 1 .. Len(rows') /\ held' \subseteq Facts /\ retired' \subseteq Facts
      <3>1. rows[id].content.facts \subseteq Facts
        BY RowFacts DEF Rows, Contents
      <3> QED
        BY <2>2, <3>1 DEF Transition, TypeOK
    <2>3. ASSUME NEW id \in DOMAIN rows, NEW f \in Facts, Replace(c, id, f)
          PROVE  consented' \subseteq 1 .. Len(rows') /\ held' \subseteq Facts /\ retired' \subseteq Facts
      <3>1. rows[id].content.facts \subseteq Facts
        BY RowFacts DEF Rows, Contents
      <3>2. Len(rows') \in 1 .. Len(rows')
        BY <2>3, ReplaceRows
      <3> QED
        BY <1>1, <2>3, <3>1, <3>2, RowFacts DEF Replace, Advances, Grows, TypeOK
    <2>4. CASE Store(c)
      <3>1. call[c].row.content.facts \subseteq Facts
        BY CallFacts DEF Contents
      <3>2. consented' \subseteq 1 .. Len(rows')
        BY <1>1, <2>4, RowFacts DEF Store, Advances, Grows, TypeOK
      <3>3. retired' \subseteq Facts
        BY <2>4 DEF Store, TypeOK
      <3>4. held' = held \/ held' = held \union call[c].row.content.facts
        BY <2>4 DEF Store
      <3>5. held' \subseteq Facts
        BY <3>1, <3>4 DEF TypeOK
      <3> QED
        BY <3>2, <3>3, <3>5
    <2>5. CASE UNCHANGED <<consented, held, retired>>
      BY <1>1, <2>5, RowFacts DEF Advances, Grows, TypeOK
    <2> QED
      BY <2>1, <2>2, <2>3, <2>4, <2>5 DEF Acts, Request, Step, Propose, Automate, Export,
         Insert, Preview, Check, Truncate, Fill, Log, Update, Audit, ArchiveNext, ExportNext, Crash
  <1>4. calls' \in 0 .. MaxCalls /\ edits' \in Nat /\ crashes' \in Nat /\ edits' + crashes' <= MaxFaults
    <2>1. CASE Request(c)
      <3>1. calls < MaxCalls /\ calls' = calls + 1 /\ UNCHANGED <<edits, crashes>>
        BY <2>1 DEF Request, Propose, Automate, Approve, Transition, Replace, Export, Begin
      <3> QED
        BY <3>1, BoundsAssumption DEF TypeOK
    <2>2. CASE Step(c)
      <3>1. UNCHANGED <<calls, edits, crashes>>
        BY <2>2 DEF Step, Insert, Preview, Check, Truncate, Fill, Log, Update, Store, Audit, ArchiveNext, ExportNext
      <3> QED
        BY <3>1 DEF TypeOK
    <2>3. CASE Crash(c)
      <3>1. MaxFaults \in Nat
        BY BoundsAssumption
      <3> QED
        BY <2>3, <3>1 DEF Crash, TypeOK
    <2> QED
      BY <2>1, <2>2, <2>3 DEF Acts
  <1>5. spoiled' \in BOOLEAN
    <2>1. spoiled' = spoiled \/ spoiled' \in BOOLEAN
      BY DEF Acts, Request, Step, Propose, Automate, Approve, Transition, Replace, Export,
         Insert, Preview, Check, Truncate, Fill, Log, Update, Store, Audit, ArchiveNext, ExportNext, Crash
    <2> QED
      BY <2>1 DEF TypeOK
  <1> QED
    BY <1>1, <1>2, <1>3, <1>4, <1>5 DEF TypeOK, Advances, Grows

\* Somebody else's edit touches nothing but the file.
LEMMA EditTypes ==
    ASSUME TypeOK, Edit
    PROVE  TypeOK'
  <1>1. file' \subseteq Bullets
    <2>1. \A f \in Facts : [id |-> 0, content |-> Says(f)] \in Bullets
      BY RowCopies DEF Bullets
    <2> QED
      BY <2>1 DEF Edit, TypeOK
  <1>2. edits' \in Nat /\ edits' + crashes' <= MaxFaults /\ crashes' = crashes
    BY BoundsAssumption DEF Edit, TypeOK
  <1>3. UNCHANGED <<rows, audited, call, consented, held, retired, calls, crashes>> /\ spoiled' = TRUE
    BY DEF Edit
  <1> QED
    BY <1>1, <1>2, <1>3 DEF TypeOK

-----------------------------------------------------------------------------
(* Nothing is lost.                                                             *)

\* A fact of an active row that is neither retired nor refused stays in an active row,
\* of the same place or a later one.
Stays ==
    \A j \in Active : \A f \in rows[j].content.facts \ (retired' \union Unsafe) :
        \E k \in Active' : k >= j /\ f \in rows'[k].content.facts

\* Rows that only grow in number lose no fact.
LEMMA SameRowsStay ==
    ASSUME TypeOK, Grows, \A i \in 1 .. Len(rows) : rows'[i] = rows[i]
    PROVE  Stays
  BY RowFacts DEF Stays, Active, Grows

\* An update takes a row out of use only when its facts are said elsewhere or retired.
LEMMA StoreStays ==
    ASSUME TypeOK, Ledger, NEW c \in Callers, Shaped(c), Replaced(c), Store(c)
    PROVE  Stays
  <1> DEFINE id == call[c].id
  <1>1. /\ id \in 1 .. Len(rows) /\ Len(rows') = Len(rows) /\ Len(rows) \in Nat
        /\ \A i \in 1 .. Len(rows) : rows'[i] = IF i = id THEN call[c].row ELSE rows[i]
        /\ DOMAIN rows' = 1 .. Len(rows) /\ retired' = retired
        /\ call[c].row.content = rows[id].content
    <2>1. Grows /\ Len(rows') = Len(rows) /\ Len(rows) \in Nat
      BY StoreRows
    <2>2. DOMAIN rows' = 1 .. Len(rows)
      BY <2>1 DEF Grows
    <2> QED
      BY <2>1, <2>2, StoreRows DEF Store
  <1> SUFFICES ASSUME NEW j \in Active, NEW f \in rows[j].content.facts \ (retired \union Unsafe)
               PROVE  \E k \in Active' : k >= j /\ f \in rows'[k].content.facts
    BY <1>1 DEF Stays
  <1>2. j \in 1 .. Len(rows)
    BY RowFacts DEF Active
  <1>3. CASE j # id \/ call[c].row.status = "active"
    <2>1. j \in Active' /\ rows'[j].content = rows[j].content
      BY <1>1, <1>2, <1>3 DEF Active
    <2> QED
      BY <1>2, <2>1
  <1>4. CASE j = id /\ call[c].row.status # "active"
    <2>1. Covered(id)
      <3>1. ~Barred(rows[id].content)
        BY <1>4 DEF Ledger, Cleared, Active
      <3>2. Threat(c)
        BY <1>4 DEF Threat, Store, At
      <3> QED
        BY <3>1, <3>2 DEF Replaced
    <2>2. PICK k \in Active : k > id /\ f \in rows[k].content.facts
      BY <1>4, <2>1 DEF Covered
    <2>3. k \in 1 .. Len(rows) /\ k # id
      BY <1>1, <2>2, RowFacts DEF Active
    <2>4. k \in Active' /\ rows'[k] = rows[k]
      BY <1>1, <2>2, <2>3 DEF Active
    <2> QED
      BY <1>1, <1>4, <2>2, <2>3, <2>4
  <1> QED
    BY <1>3, <1>4

\* A replacement retires the facts of the row it archives.
LEMMA ReplaceStays ==
    ASSUME TypeOK, NEW c \in Callers, NEW id \in DOMAIN rows, NEW f \in Facts, Replace(c, id, f)
    PROVE  Stays
  <1>1. /\ Grows /\ Len(rows) \in Nat
        /\ \A i \in 1 .. Len(rows) : i # id => rows'[i] = rows[i]
        /\ retired' = retired \union rows[id].content.facts
    BY ReplaceRows DEF Replace
  <1> SUFFICES ASSUME NEW j \in Active, NEW g \in rows[j].content.facts \ (retired' \union Unsafe)
               PROVE  \E k \in Active' : k >= j /\ g \in rows'[k].content.facts
    BY DEF Stays
  <1>2. j \in 1 .. Len(rows) /\ j # id
    BY <1>1, RowFacts DEF Active
  <1>3. j \in Active'
    BY <1>1, <1>2 DEF Active, Grows
  <1> QED
    BY <1>1, <1>2, <1>3

\* Rows are changed by three steps only.
LEMMA RowsFrame ==
    ASSUME NEW c \in Callers, Acts(c)
    PROVE  \/ Insert(c) \/ Store(c) \/ (\E id \in DOMAIN rows, f \in Facts : Replace(c, id, f))
           \/ UNCHANGED <<rows, held>>
  BY DEF Acts, Request, Step, Propose, Automate, Approve, Transition, Export, history,
         Preview, Check, Truncate, Fill, Log, Update, Audit, ArchiveNext, ExportNext, Crash

\* No fact is lost, whatever a caller does.
LEMMA StaysStep ==
    ASSUME TypeOK, Ledger, NEW c \in Callers, Shaped(c), Replaced(c), Acts(c)
    PROVE  Stays
  <1>1. Grows
    BY RequestAdvances, StepAdvances, CrashAdvances DEF Acts, Advances
  <1>2. CASE Insert(c)
    BY <1>1, <1>2, InsertRows, SameRowsStay
  <1>3. CASE UNCHANGED <<rows, held>>
    BY <1>1, <1>3, SameRowsStay
  <1> QED
    BY <1>2, <1>3, StoreStays, ReplaceStays, RowsFrame

\* What is covered stays covered.
LEMMA CoveredStays ==
    ASSUME TypeOK, Grows, Stays
    PROVE  \A i \in 1 .. Len(rows) : Covered(i) => Covered(i)'
  <1> SUFFICES ASSUME NEW i \in 1 .. Len(rows), Covered(i),
                      NEW f \in rows'[i].content.facts \ (retired' \union Unsafe)
               PROVE  \E k \in Active' : k > i /\ f \in rows'[k].content.facts
    BY DEF Covered
  <1>1. f \in rows[i].content.facts \ (retired \union Unsafe)
    BY DEF Grows
  <1>2. PICK j \in Active : j > i /\ f \in rows[j].content.facts
    BY <1>1 DEF Covered
  <1>3. PICK k \in Active' : k >= j /\ f \in rows'[k].content.facts
    BY <1>2 DEF Stays
  <1>4. j \in Int /\ k \in Int /\ i \in Int
    <2>1. DOMAIN rows' = 1 .. Len(rows')
      BY DEF Grows
    <2> QED
      BY <1>2, <1>3, <2>1, RowFacts DEF Active
  <1> QED
    BY <1>2, <1>3, <1>4

\* So does what is active or covered, and what is cleared.
LEMMA KeptStays ==
    ASSUME TypeOK, Grows, Stays
    PROVE  \A i \in 1 .. Len(rows) : rows[i].status = "active" => rows'[i].status = "active" \/ Covered(i)'
  <1> SUFFICES ASSUME NEW i \in 1 .. Len(rows), rows[i].status = "active", rows'[i].status # "active"
               PROVE  Covered(i)'
    OBVIOUS
  <1> SUFFICES ASSUME NEW f \in rows'[i].content.facts \ (retired' \union Unsafe)
               PROVE  \E k \in Active' : k > i /\ f \in rows'[k].content.facts
    BY DEF Covered
  <1>1. i \in Active /\ f \in rows[i].content.facts
    BY RowFacts DEF Active, Grows
  <1>2. PICK k \in Active' : k >= i /\ f \in rows'[k].content.facts
    BY <1>1 DEF Stays
  <1>3. k # i /\ k \in Int
    <2>1. DOMAIN rows' = 1 .. Len(rows')
      BY DEF Grows
    <2> QED
      BY <1>2, <2>1 DEF Active
  <1> QED
    BY <1>2, <1>3

\* Who consented has done so for good.
LEMMA ClearedStays ==
    ASSUME Grows
    PROVE  \A i \in 1 .. Len(rows) : Cleared(i) => Cleared(i)'
  BY DEF Cleared, Barred, Allowed, Grows

\* Every fact that was active is still said after any step of a caller.
LEMMA FactsKeptStep ==
    ASSUME TypeOK, Ledger, FactsKept, NEW c \in Callers, Shaped(c), Replaced(c), Acts(c)
    PROVE  FactsKept'
  <1>1. Stays /\ Grows
    BY StaysStep, RequestAdvances, StepAdvances, CrashAdvances DEF Acts, Advances
  <1>2. \A f \in (held \ retired') \ Unsafe : \E i \in Active' : f \in rows'[i].content.facts
    BY <1>1 DEF FactsKept, Stays, Grows
  <1>3. \A f \in held' \ held : \E i \in Active' : f \in rows'[i].content.facts
    <2>1. CASE Store(c)
      <3>1. /\ call[c].id \in 1 .. Len(rows) /\ Len(rows') = Len(rows) /\ rows'[call[c].id] = call[c].row
        BY <2>1, StoreRows
      <3>2. held' # held => call[c].row.status = "active" /\ held' = held \union call[c].row.content.facts
        BY <2>1 DEF Store
      <3>3. DOMAIN rows' = 1 .. Len(rows')
        BY <1>1 DEF Grows
      <3> QED
        BY <3>1, <3>2, <3>3 DEF Active
    <2>2. ASSUME NEW id \in DOMAIN rows, NEW f \in Facts, Replace(c, id, f)
          PROVE  \A g \in held' \ held : \E i \in Active' : g \in rows'[i].content.facts
      <3>1. Len(rows') = Len(rows) + 1 /\ Len(rows) \in Nat /\ rows'[Len(rows) + 1] = NewRow(Says(f), "active")
        BY <2>2, ReplaceRows
      <3>2. Len(rows) + 1 \in Active'
        BY <1>1, <3>1 DEF Active, Grows, NewRow
      <3>3. held' = held \union {f}
        BY <2>2 DEF Replace
      <3> QED
        BY <3>1, <3>2, <3>3 DEF NewRow, Says
    <2>3. CASE UNCHANGED held
      BY <2>3
    <2>4. Insert(c) => UNCHANGED held
      BY DEF Insert, history
    <2> QED
      BY <2>1, <2>2, <2>3, <2>4, RowsFrame
  <1> QED
    BY <1>2, <1>3 DEF FactsKept

\* A row that fits a place goes on fitting it.
LEMMA SoundStays ==
    ASSUME TypeOK, Grows
    PROVE  \A r, n : Sound(r, n) =>
              /\ ~r.content.summary => \E f \in Facts : r.content.facts = {f}
              /\ \A s \in r.sources : s \in 1 .. Len(rows') /\ s < n
  BY RowFacts DEF Sound, Grows

\* Rows stay sound, and only cleared rows are active.
LEMMA LedgerStep ==
    ASSUME TypeOK, Ledger, NEW c \in Callers, Shaped(c), Approving(c), Exporting(c), Replaced(c), Acts(c)
    PROVE  Ledger'
  <1>1. Grows /\ DOMAIN rows' = 1 .. Len(rows') /\ DOMAIN rows = 1 .. Len(rows)
    BY RequestAdvances, StepAdvances, CrashAdvances, RowFacts DEF Acts, Advances, Grows
  <1>2. \A i \in 1 .. Len(rows) : Sound(rows[i], i)'
    <2> TAKE i \in 1 .. Len(rows)
    <2>1. rows'[i].content = rows[i].content /\ rows'[i].sources = rows[i].sources /\ Sound(rows[i], i)
      BY <1>1 DEF Grows, Ledger
    <2> QED
      BY <1>1, <2>1, SoundStays DEF Sound
  <1>3. \A i \in 1 .. Len(rows) : rows[i].status = "active" => Cleared(i)'
    BY <1>1, ClearedStays DEF Ledger
  <1>4. CASE Insert(c)
    <2>1. /\ Len(rows') = Len(rows) + 1 /\ Len(rows) \in Nat
          /\ \A i \in 1 .. Len(rows) : rows'[i] = rows[i]
          /\ rows'[Len(rows) + 1] = call[c].row
      BY <1>4, InsertRows
    <2>2. call[c].row.status # "active" /\ Sound(call[c].row, Len(rows) + 1)
      BY <1>4 DEF Insert, At, Shaped
    <2>3. \A i : i = Len(rows) + 1 => Sound(rows[i], i)'
      BY <1>1, <2>1, <2>2, SoundStays DEF Sound
    <2>4. \A i \in 1 .. Len(rows') : i \in 1 .. Len(rows) \/ i = Len(rows) + 1
      BY <2>1
    <2> QED
      BY <1>1, <1>2, <1>3, <2>1, <2>2, <2>3, <2>4 DEF Ledger
  <1>5. ASSUME NEW id \in DOMAIN rows, NEW f \in Facts, Replace(c, id, f) PROVE Ledger'
    <2>1. /\ Len(rows') = Len(rows) + 1 /\ Len(rows) \in Nat
          /\ \A i \in 1 .. Len(rows) : i # id => rows'[i] = rows[i]
          /\ rows'[id].status = "archived"
          /\ rows'[Len(rows) + 1] = NewRow(Says(f), "active")
      BY <1>5, ReplaceRows
    <2>2. \A i : i = Len(rows) + 1 => Sound(rows[i], i)'
      BY <2>1 DEF Sound, NewRow, Says
    <2>3. \A i : i = Len(rows) + 1 => Cleared(i)'
      BY <1>5, <2>1 DEF Cleared, Barred, NewRow, Says, Replace
    <2>4. \A i \in 1 .. Len(rows') : i \in 1 .. Len(rows) \/ i = Len(rows) + 1
      BY <2>1
    <2> QED
      BY <1>1, <1>2, <1>3, <2>1, <2>2, <2>3, <2>4 DEF Ledger
  <1>6. CASE Store(c)
    <2>1. /\ call[c].id \in 1 .. Len(rows) /\ Len(rows') = Len(rows)
          /\ \A i \in 1 .. Len(rows) : rows'[i] = IF i = call[c].id THEN call[c].row ELSE rows[i]
      BY <1>6, StoreRows
    <2>2. call[c].row.status = "active" => Cleared(call[c].id)
      BY <1>6 DEF Store, At, Replaced, Approving, Exporting, Listed, Holding
    <2>3. \A i : i = call[c].id /\ call[c].row.status = "active" => Cleared(i)'
      BY <1>1, <2>1, <2>2, ClearedStays
    <2> QED
      BY <1>1, <1>2, <1>3, <2>1, <2>3 DEF Ledger
  <1>7. CASE UNCHANGED <<rows, held>>
    BY <1>1, <1>2, <1>3, <1>7 DEF Ledger
  <1> QED
    BY <1>4, <1>5, <1>6, <1>7, RowsFrame

-----------------------------------------------------------------------------
(* What a call knows stays true while others move.                              *)

CallOK(c) == Shaped(c) /\ Approving(c) /\ Exporting(c) /\ Replaced(c) /\ Checked(c)

\* A text that was read stays good, as rows keep their contents.
LEMMA GoodTextStays ==
    ASSUME TypeOK, Grows
    PROVE  \A text : GoodText(text) =>
              \A b \in Governed(text) :
                 b.id \in 1 .. Len(rows) /\ b.id \in consented' /\ b.content = rows'[b.id].content
  BY DEF TypeOK, Grows, GoodText

\* Whether a bullet is in a text already does not change with the ledger.
LEMMA UnmarkedStays ==
    ASSUME Grows
    PROVE  \A i \in 1 .. Len(rows) : \A text :
              Unmarked(i, text) <=> /\ \E b \in text : Occurs(rows'[i].content, b)
                                    /\ ~\E b \in text : b.id = i
  BY DEF Grows, Unmarked

\* A call knows what it knew when somebody else takes a step.
LEMMA OthersKeep ==
    ASSUME TypeOK, Ledger, Grows, Stays, NEW d \in Callers, CallOK(d), call'[d] = call[d]
    PROVE  CallOK(d)'
  <1> USE DEF CallOK
  <1>1. /\ call[d].step \in Holding => call[d].id \in 1 .. Len(rows)
        /\ call[d].todo \subseteq 1 .. Len(rows)
        /\ DOMAIN rows = 1 .. Len(rows) /\ DOMAIN rows' = 1 .. Len(rows')
        /\ \A i \in 1 .. Len(rows) : i \in 1 .. Len(rows')
    BY RowFacts, CallFacts DEF Shaped, Grows
  <1>2. \A i \in 1 .. Len(rows) : /\ rows'[i].content = rows[i].content /\ rows'[i].sources = rows[i].sources
                                  /\ (Cleared(i) => Cleared(i)') /\ (Covered(i) => Covered(i)')
                                  /\ (rows[i].status = "active" => rows'[i].status = "active" \/ Covered(i)')
    BY ClearedStays, CoveredStays, KeptStays DEF Grows
  <1>3. Shaped(d)'
    <2>1. call[d].step = "insert" => Sound(call[d].row, Len(rows) + 1)'
      <3>1. call[d].step = "insert" =>
              /\ ~call[d].row.content.summary => \E f \in Facts : call[d].row.content.facts = {f}
              /\ \A s \in call[d].row.sources : s \in 1 .. Len(rows')
        BY SoundStays DEF Shaped
      <3>2. \A s \in 1 .. Len(rows') : s < Len(rows') + 1
        BY DEF Grows
      <3> QED
        BY <3>1, <3>2 DEF Sound
    <2> QED
      BY <1>1, <1>2, <2>1 DEF Shaped
  <1>4. Approving(d)'
    <2>1. CASE call[d].op = "approve" /\ call[d].step \in Holding /\ call[d].row.status = "active"
      <3>1. /\ Cleared(call[d].id) /\ Allowed(call[d].row.content) /\ call[d].id \in 1 .. Len(rows)
            /\ call[d].todo \subseteq rows[call[d].id].sources
            /\ \A s \in rows[call[d].id].sources :
                  rows[s].content.facts \subseteq rows[call[d].id].content.facts \union retired
        BY <1>1, <2>1 DEF Approving
      <3>2. \A s \in rows[call[d].id].sources : s \in 1 .. Len(rows)
        BY <1>1, <3>1 DEF Ledger, Sound
      <3>3. \A s \in rows'[call[d].id].sources :
                  rows'[s].content.facts \subseteq rows'[call[d].id].content.facts \union retired'
        BY <1>2, <3>1, <3>2 DEF Grows
      <3> QED
        BY <1>2, <2>1, <3>1, <3>3 DEF Approving, Allowed
    <2>2. CASE call[d].op = "approve" /\ ~(call[d].step \in Holding /\ call[d].row.status = "active")
      BY <1>1, <1>2, <2>2 DEF Approving
    <2> QED
      BY <2>1, <2>2 DEF Approving
  <1>5. Exporting(d)'
    <2>1. Listed(d)' = Listed(d) /\ Listed(d) \subseteq 1 .. Len(rows)
      BY <1>1 DEF Listed
    <2> QED
      BY <1>2, <2>1 DEF Exporting
  <1>6. Replaced(d)'
    <2>1. Threat(d)' <=> Threat(d)
      BY DEF Threat
    <2>2. Threat(d) => call[d].id \in 1 .. Len(rows)
      BY <1>1 DEF Threat, Holding
    <2>3. Threat(d) => Covered(call[d].id)' \/ Barred(rows[call[d].id].content)'
      BY <1>2, <2>2 DEF Replaced, Barred, Allowed
    <2> QED
      BY <2>1, <2>3 DEF Replaced
  <1>7. Checked(d)'
    <2>1. call[d].step \in {"check", "truncate", "fill"} =>
             /\ GoodText(call[d].file)' /\ Allowed(rows[call[d].id].content)' /\ Cleared(call[d].id)'
      <3> SUFFICES ASSUME call[d].step \in {"check", "truncate", "fill"}
                   PROVE  GoodText(call[d].file)' /\ Allowed(rows[call[d].id].content)' /\ Cleared(call[d].id)'
        OBVIOUS
      <3>1. GoodText(call[d].file)'
        BY GoodTextStays DEF Checked, GoodText
      <3>2. call[d].id \in 1 .. Len(rows)
        BY <1>1 DEF Holding, Before
      <3> QED
        BY <1>2, <3>1, <3>2 DEF Checked, Allowed
    <2>2. call[d].step \in {"truncate", "fill"} => ~Unmarked(call[d].id, call[d].file)'
      <3>1. call[d].step \in {"truncate", "fill"} => call[d].id \in 1 .. Len(rows)
        BY <1>1 DEF Holding, Before
      <3> QED
        BY <3>1, UnmarkedStays DEF Checked, Unmarked
    <2> QED
      BY <2>1, <2>2 DEF Checked
  <1> QED
    BY <1>3, <1>4, <1>5, <1>6, <1>7

-----------------------------------------------------------------------------
(* What a caller's own step makes it know.                                      *)

\* An idle caller has nothing to know.
LEMMA IdleOK ==
    ASSUME NEW c \in Callers, call'[c] = Idle
    PROVE  CallOK(c)'
  <1>1. Idle.step = "idle" /\ Idle.op = "none" /\ Idle.audits = <<>> /\ Len(<<>>) = 0
    BY DEF Idle
  <1>2. Shaped(c)'
    BY <1>1 DEF Shaped, Holding, Before
  <1>3. Approving(c)' /\ Exporting(c)' /\ Replaced(c)' /\ Checked(c)'
    BY <1>1 DEF Approving, Exporting, Replaced, Threat, Checked
  <1> QED
    BY <1>2, <1>3 DEF CallOK

\* Where the ledger stands still, so does what is said about it.
LEMMA StillLedger ==
    ASSUME UNCHANGED <<rows, consented, retired>>
    PROVE  /\ \A i : (Covered(i)' <=> Covered(i)) /\ (Cleared(i)' <=> Cleared(i))
           /\ \A text : GoodText(text)' <=> GoodText(text)
           /\ \A i, text : Unmarked(i, text)' <=> Unmarked(i, text)
  BY DEF Covered, Cleared, Barred, Allowed, Active, GoodText, Governed, Unmarked, Occurs

\* A request begins a call that knows what it needs to.
LEMMA RequestOK ==
    ASSUME TypeOK, Ledger, NEW c \in Callers, Request(c)
    PROVE  CallOK(c)'
  <1>0. Advances(c) /\ DOMAIN rows = 1 .. Len(rows) /\ Len(rows) \in Nat /\ \A i \in 1 .. Len(rows) : rows[i] \in Rows
    BY RequestAdvances, RowFacts
  <1>1. ASSUME NEW f \in Facts, Propose(c, f) PROVE CallOK(c)'
    <2> DEFINE row == NewRow(Says(f), InitialStatus(Says(f)))
    <2>1. /\ UNCHANGED <<rows, consented, retired>>
          /\ call'[c] = Idle \/ call'[c] = [Idle EXCEPT !.op = "change", !.step = "insert", !.row = row]
      BY <1>1 DEF Propose, Begin, Goto, history, TypeOK
    <2>2. /\ row.status # "active" /\ row.applied = "no" /\ ~row.content.summary
          /\ row.content.facts = {f} /\ row.sources = {}
      BY DEF NewRow, Says, InitialStatus
    <2> HIDE DEF row
    <2>3. CASE call'[c] = Idle
      BY <2>3, IdleOK
    <2>4. CASE call'[c] = [Idle EXCEPT !.op = "change", !.step = "insert", !.row = row]
      <3>1. call'[c].op = "change" /\ call'[c].step = "insert" /\ call'[c].row = row /\ call'[c].audits = <<>> /\ Len(<<>>) = 0
        BY <2>4 DEF Idle
      <3> QED
        BY <2>2, <3>1 DEF CallOK, Shaped, Holding, Before, Sound, Approving, Exporting, Replaced, Threat, Checked
    <2> QED
      BY <2>1, <2>3, <2>4
  <1>2. ASSUME NEW kind \in {"merge", "compact"}, NEW group \in SUBSET Active,
               NEW kept \in SUBSET AllFacts(group), Automate(c, kind, group, kept)
        PROVE  CallOK(c)'
    <2> DEFINE row == [NewRow(Summary(kept), InitialStatus(Summary(kept)))
                         EXCEPT !.auto = kind, !.sources = group]
    <2>1. /\ UNCHANGED <<rows, consented, retired>>
          /\ call'[c] = Idle \/ call'[c] = [Idle EXCEPT !.op = "change", !.step = "insert", !.row = row]
      BY <1>2 DEF Automate, Begin, Goto, history, TypeOK
    <2>2. /\ row.status # "active" /\ row.applied = "no" /\ row.content.summary
          /\ row.sources = group
      BY DEF NewRow, Summary, InitialStatus
    <2> HIDE DEF row
    <2>3. \A s \in row.sources : s \in 1 .. Len(rows) /\ s < Len(rows) + 1
      BY <1>0, <2>2 DEF Active
    <2>4. CASE call'[c] = Idle
      BY <2>4, IdleOK
    <2>5. CASE call'[c] = [Idle EXCEPT !.op = "change", !.step = "insert", !.row = row]
      <3>1. call'[c].op = "change" /\ call'[c].step = "insert" /\ call'[c].row = row /\ call'[c].audits = <<>> /\ Len(<<>>) = 0
        BY <2>5 DEF Idle
      <3> QED
        BY <2>1, <2>2, <2>3, <3>1 DEF CallOK, Shaped, Holding, Before, Sound, Approving, Exporting, Replaced, Threat, Checked
    <2> QED
      BY <2>1, <2>4, <2>5
  <1>3. ASSUME NEW id \in DOMAIN rows, Approve(c, id) PROVE CallOK(c)'
    <2>1. /\ UNCHANGED rows /\ consented' = consented \union {id} /\ rows[id] \in Rows
          /\ retired' = retired \union (IF Allowed(rows[id].content) THEN LeftOut(id) ELSE {})
      BY <1>0, <1>3 DEF Approve
    <2>2. CASE Allowed(rows[id].content)
      <3>1. call'[c] = [Idle EXCEPT !.op = "approve", !.step = "preview", !.id = id, !.todo = rows[id].sources,
                                  !.row = [rows[id] EXCEPT !.status = "active", !.applied = "yes"]]
        BY <1>3, <2>2 DEF Approve, Begin, Goto, TypeOK
      <3>2. /\ call'[c].op = "approve" /\ call'[c].step = "preview" /\ call'[c].id = id
            /\ call'[c].todo = rows[id].sources /\ call'[c].audits = <<>> /\ Len(<<>>) = 0
            /\ call'[c].row = [rows[id] EXCEPT !.status = "active", !.applied = "yes"]
        BY <3>1 DEF Idle
      <3>3. /\ call'[c].row.content = rows[id].content /\ call'[c].row.sources = rows[id].sources
            /\ call'[c].row.status = "active"
        BY <2>1, <3>2 DEF Rows
      <3>4. Shaped(c)'
        BY <2>1, <3>2, <3>3 DEF Shaped, Holding, Before
      <3>5. Approving(c)'
        <4>1. \A s \in rows[id].sources : rows[s].content.facts \subseteq rows[id].content.facts \union retired'
          BY <2>1, <2>2 DEF LeftOut, AllFacts
        <4> QED
          BY <2>1, <2>2, <3>2, <3>3, <4>1 DEF Approving, Cleared, Barred, Allowed, Holding, Before
      <3> QED
        BY <3>2, <3>4, <3>5 DEF CallOK, Exporting, Replaced, Threat, Checked
    <2>3. CASE ~Allowed(rows[id].content)
      <3>1. call'[c] = [Idle EXCEPT !.op = "change", !.step = "update", !.id = id,
                                  !.row = [rows[id] EXCEPT !.status = "rejected"]]
        BY <1>3, <2>3 DEF Approve, Begin, Goto, TypeOK
      <3>2. /\ call'[c].op = "change" /\ call'[c].step = "update" /\ call'[c].id = id
            /\ call'[c].audits = <<>> /\ Len(<<>>) = 0
            /\ call'[c].row = [rows[id] EXCEPT !.status = "rejected"]
        BY <3>1 DEF Idle
      <3>3. /\ call'[c].row.content = rows[id].content /\ call'[c].row.sources = rows[id].sources
            /\ call'[c].row.status = "rejected"
        BY <2>1, <3>2 DEF Rows
      <3>4. Shaped(c)'
        BY <2>1, <3>2, <3>3 DEF Shaped, Holding, Before
      <3>5. Covered(id)' \/ Barred(rows[id].content)'
        <4>1. CASE rows[id].content.summary
          BY <2>1, <2>3, <4>1 DEF Barred, Allowed
        <4>2. CASE ~rows[id].content.summary
          <5>1. rows[id].content.facts \subseteq Unsafe
            BY <2>3, <4>2 DEF Ledger, Sound, Allowed
          <5> QED
            BY <2>1, <5>1 DEF Covered
        <4> QED
          BY <4>1, <4>2
      <3>6. Replaced(c)'
        BY <3>2, <3>3, <3>5 DEF Replaced
      <3> QED
        BY <3>2, <3>4, <3>6 DEF CallOK, Approving, Exporting, Checked
    <2> QED
      BY <2>2, <2>3
  <1>4. ASSUME NEW id \in DOMAIN rows, NEW status \in {"rejected", "archived"}, Transition(c, id, status)
        PROVE  CallOK(c)'
    <2>1. /\ UNCHANGED <<rows, consented>> /\ retired' = retired \union rows[id].content.facts /\ rows[id] \in Rows
      BY <1>0, <1>4 DEF Transition
    <2>2. call'[c] = [Idle EXCEPT !.op = "transition", !.step = "update", !.id = id,
                                !.row = [rows[id] EXCEPT !.status = status]]
      BY <1>4 DEF Transition, Begin, Goto, TypeOK
    <2>3. /\ call'[c].op = "transition" /\ call'[c].step = "update" /\ call'[c].id = id
          /\ call'[c].audits = <<>> /\ Len(<<>>) = 0
          /\ call'[c].row = [rows[id] EXCEPT !.status = status]
      BY <2>2 DEF Idle
    <2>4. /\ call'[c].row.content = rows[id].content /\ call'[c].row.sources = rows[id].sources
          /\ call'[c].row.status # "active"
      BY <2>1, <2>3 DEF Rows
    <2>5. Shaped(c)'
      BY <2>1, <2>3, <2>4 DEF Shaped, Holding, Before
    <2>6. Covered(id)'
      BY <2>1 DEF Covered
    <2>7. Replaced(c)'
      BY <2>3, <2>4, <2>6 DEF Replaced
    <2> QED
      BY <2>3, <2>5, <2>7 DEF CallOK, Approving, Exporting, Checked
  <1>5. ASSUME NEW id \in DOMAIN rows, NEW f \in Facts, Replace(c, id, f) PROVE CallOK(c)'
    <2> DEFINE audits == <<<<Len(rows'), "active">>, <<id, "archived">>>>
    <2>1. call'[c] = [Idle EXCEPT !.op = "change", !.step = "audit", !.audits = audits]
      BY <1>5 DEF Replace, Begin, Goto, TypeOK
    <2>2. Len(audits) = 2 /\ audits # <<>>
      OBVIOUS
    <2> HIDE DEF audits
    <2>3. call'[c].op = "change" /\ call'[c].step = "audit" /\ call'[c].audits = audits
      BY <2>1 DEF Idle
    <2>4. Len(call'[c].audits) = 2 /\ call'[c].audits # <<>>
      BY <2>2, <2>3
    <2> QED
      BY <2>3, <2>4 DEF CallOK, Shaped, Holding, Before, Approving, Exporting, Replaced, Threat, Checked
  <1>6. ASSUME Export(c) PROVE CallOK(c)'
    <2>1. /\ UNCHANGED <<rows, consented, retired>>
          /\ call'[c] = [Idle EXCEPT !.op = "export", !.step = "exports", !.todo = {i \in Active : rows[i].applied = "no"}]
      BY <1>6 DEF Export, Begin, Goto, history, TypeOK
    <2>2. /\ call'[c].op = "export" /\ call'[c].step = "exports" /\ call'[c].audits = <<>> /\ Len(<<>>) = 0
          /\ call'[c].todo \subseteq Active
      BY <2>1 DEF Idle
    <2>3. Exporting(c)'
      <3>1. Listed(c)' \subseteq Active
        BY <2>2 DEF Listed, Holding, Before
      <3>2. \A i \in Active : Cleared(i) /\ rows[i].status = "active"
        BY DEF Active, Ledger
      <3> QED
        BY <2>1, <3>1, <3>2, StillLedger DEF Exporting
    <2> QED
      BY <2>2, <2>3 DEF CallOK, Shaped, Holding, Before, Approving, Replaced, Threat, Checked
  <1> QED
    BY <1>1, <1>2, <1>3, <1>4, <1>5, <1>6 DEF Request

\* A call that stores its row goes on to record it, and an approval to archive what it replaces.
LEMMA StoreOK ==
    ASSUME TypeOK, Ledger, NEW c \in Callers, CallOK(c), Store(c)
    PROVE  CallOK(c)'
  <1> USE DEF CallOK
  <1> DEFINE id == call[c].id
             audits == IF call[c].op = "export" THEN <<<<id, call[c].row.status>>, <<id, "active">>>>
                       ELSE <<<<id, call[c].row.status>>>>
  <1>1. Len(audits) <= 2 /\ audits # <<>>
    OBVIOUS
  <1>2. call'[c] = [call[c] EXCEPT !.step = "audit", !.audits = audits]
    BY DEF Store, Goto, TypeOK
  <1> HIDE DEF audits
  <1>3. /\ call'[c].op = call[c].op /\ call'[c].step = "audit" /\ call'[c].todo = call[c].todo
        /\ Len(call'[c].audits) <= 2 /\ call'[c].audits # <<>>
    BY <1>1, <1>2, CallFacts DEF Calls
  <1>4. /\ Grows /\ Stays /\ Len(rows') = Len(rows) /\ Len(rows) \in Nat /\ id \in 1 .. Len(rows)
        /\ rows'[id] = call[c].row /\ call[c].row.content = rows[id].content
        /\ call[c].todo \subseteq 1 .. Len(rows) /\ call[c].step = "store"
    BY StoreRows, StoreStays, CallFacts DEF Store, At
  <1>5. Shaped(c)'
    BY <1>3 DEF Shaped, Holding, Before
  <1>6. ASSUME call[c].op = "approve", NEW i \in call[c].todo PROVE Covered(i)'
    <2>1. CASE call[c].row.status = "active"
      <3>1. i \in rows[id].sources
        BY <1>4, <1>6, <2>1 DEF Approving, Holding
      <3>2. i \in 1 .. Len(rows) /\ i < id /\ rows[i].content.facts \subseteq rows[id].content.facts \union retired
        BY <1>4, <1>6, <2>1, <3>1, RowFacts DEF Ledger, Sound, Approving, Holding
      <3>3. rows'[i].content = rows[i].content
        BY <1>4, <3>2 DEF Grows
      <3>4. id \in Active'
        BY <1>4, <2>1 DEF Active, Grows
      <3> QED
        BY <1>4, <3>2, <3>3, <3>4 DEF Covered, Grows
    <2>2. CASE call[c].row.status # "active"
      <3>1. Covered(i) /\ i \in 1 .. Len(rows)
        BY <1>4, <1>6, <2>2 DEF Approving
      <3> QED
        BY <1>4, <3>1, CoveredStays
    <2> QED
      BY <2>1, <2>2
  <1>7. Approving(c)'
    BY <1>3, <1>6 DEF Approving, Holding, Before
  <1>8. Exporting(c)'
    <2>1. Listed(c)' = call[c].todo
      BY <1>3 DEF Listed, Holding, Before
    <2>2. call[c].op = "export" => \A i \in call[c].todo : Cleared(i) /\ (rows[i].status = "active" \/ Covered(i))
      BY DEF Exporting, Listed
    <2>3. call[c].op = "export" =>
            \A i \in call[c].todo : Cleared(i)' /\ (rows'[i].status = "active" \/ Covered(i)')
      BY <1>4, <2>2, ClearedStays, CoveredStays, KeptStays
    <2> QED
      BY <1>3, <2>1, <2>3 DEF Exporting
  <1>9. Replaced(c)' /\ Checked(c)'
    BY <1>3 DEF Replaced, Threat, Checked
  <1> QED
    BY <1>5, <1>7, <1>8, <1>9

\* A call reads the row again before it stores its own copy.
LEMMA UpdateOK ==
    ASSUME TypeOK, Ledger, NEW c \in Callers, CallOK(c), Update(c)
    PROVE  CallOK(c)'
  <1> USE DEF CallOK
  <1> DEFINE id == call[c].id
             row == [call[c].row EXCEPT
                        !.applied = IF call[c].op = "transition" THEN rows[id].applied ELSE @,
                        !.status = IF call[c].op = "export" THEN rows[id].status ELSE @]
  <1>1. UNCHANGED <<rows, consented, retired>> /\ call[c].step = "update"
    BY DEF Update, history, At
  <1>2. /\ row.content = call[c].row.content /\ row.sources = call[c].row.sources
        /\ row.status = IF call[c].op = "export" THEN rows[id].status ELSE call[c].row.status
    BY CallFacts DEF Rows
  <1>3. call'[c] = [call[c] EXCEPT !.step = "store", !.row = row]
    BY DEF Update, Goto, TypeOK
  <1> HIDE DEF row
  <1>4. /\ call'[c].op = call[c].op /\ call'[c].step = "store" /\ call'[c].todo = call[c].todo
        /\ call'[c].audits = call[c].audits /\ call'[c].row = row /\ call'[c].id = id
    BY <1>3, CallFacts DEF Calls
  <1>5. Shaped(c)'
    BY <1>1, <1>2, <1>4 DEF Shaped, Holding, Before
  <1>6. Approving(c)'
    BY <1>1, <1>2, <1>4, StillLedger DEF Approving, Holding, Before, Allowed
  <1>7. Exporting(c)'
    <2>1. Listed(c)' = Listed(c)
      BY <1>1, <1>4 DEF Listed, Holding
    <2> QED
      BY <1>1, <1>4, <2>1, StillLedger DEF Exporting
  <1>8. Replaced(c)'
    <2>1. CASE call[c].op = "export"
      <3>1. rows[id].status = "active" \/ Covered(id)
        BY <1>1, <2>1 DEF Exporting, Listed, Holding
      <3> QED
        BY <1>1, <1>2, <1>4, <2>1, <3>1, StillLedger DEF Replaced, Threat
    <2>2. CASE call[c].op # "export"
      <3>1. row.status = call[c].row.status
        BY <1>2, <2>2
      <3>2. row.status # "active" => Covered(id) \/ Barred(rows[id].content)
        BY <1>1, <2>2, <3>1 DEF Replaced, Threat
      <3> QED
        BY <1>1, <1>4, <2>2, <3>1, <3>2, StillLedger DEF Replaced, Threat, Barred, Allowed
    <2> QED
      BY <2>1, <2>2
  <1>9. Checked(c)'
    BY <1>4 DEF Checked
  <1> QED
    BY <1>5, <1>6, <1>7, <1>8, <1>9

\* A source that is about to be archived is said by what was approved.
LEMMA ArchiveOK ==
    ASSUME TypeOK, NEW c \in Callers, CallOK(c), ArchiveNext(c)
    PROVE  CallOK(c)'
  <1> USE DEF CallOK
  <1>1. UNCHANGED <<rows, consented, retired>> /\ call[c].step = "sources" /\ call[c].op = "approve"
    BY DEF ArchiveNext, history, At, Shaped
  <1>2. /\ \A i \in call[c].todo : Covered(i) /\ i \in 1 .. Len(rows) /\ rows[i] \in Rows
        /\ call[c].audits = <<>>
    BY <1>1, CallFacts, RowFacts DEF Approving, Holding, Before, Shaped
  <1>3. CASE call'[c] = Idle
    BY <1>3, IdleOK
  <1>4. ASSUME NEW i \in call[c].todo, call'[c] = [call[c] EXCEPT !.todo = call[c].todo \ {i}]
        PROVE  CallOK(c)'
    <2>1. /\ call'[c].op = "approve" /\ call'[c].step = "sources" /\ call'[c].todo \subseteq call[c].todo
          /\ call'[c].audits = <<>> /\ Len(<<>>) = 0
      BY <1>1, <1>2, <1>4, CallFacts DEF Calls
    <2>2. Shaped(c)' /\ Exporting(c)' /\ Replaced(c)' /\ Checked(c)'
      BY <2>1 DEF Shaped, Holding, Before, Exporting, Replaced, Threat, Checked
    <2>3. Approving(c)'
      BY <1>1, <1>2, <2>1, StillLedger DEF Approving, Holding, Before
    <2> QED
      BY <2>2, <2>3
  <1>5. ASSUME NEW i \in call[c].todo,
               call'[c] = [call[c] EXCEPT !.step = "update", !.id = i, !.todo = call[c].todo \ {i},
                                          !.row = [rows[i] EXCEPT !.status = "archived"]]
        PROVE  CallOK(c)'
    <2>1. /\ call'[c].op = "approve" /\ call'[c].step = "update" /\ call'[c].todo \subseteq call[c].todo
          /\ call'[c].audits = <<>> /\ Len(<<>>) = 0 /\ call'[c].id = i
          /\ call'[c].row = [rows[i] EXCEPT !.status = "archived"]
      BY <1>1, <1>2, <1>5, CallFacts DEF Calls
    <2>2. /\ call'[c].row.content = rows[i].content /\ call'[c].row.sources = rows[i].sources
          /\ call'[c].row.status = "archived" /\ i \in DOMAIN rows
      BY <1>2, <2>1, RowFacts DEF Rows
    <2>3. Shaped(c)'
      BY <1>1, <2>1, <2>2 DEF Shaped, Holding, Before
    <2>4. Approving(c)'
      BY <1>1, <1>2, <2>1, <2>2, StillLedger DEF Approving, Before
    <2>5. Replaced(c)'
      BY <1>1, <1>2, <2>1, <2>2, StillLedger DEF Replaced
    <2>6. Exporting(c)' /\ Checked(c)'
      BY <2>1 DEF Exporting, Checked
    <2> QED
      BY <2>3, <2>4, <2>5, <2>6
  <1>6. \/ call'[c] = Idle
        \/ \E i \in call[c].todo :
              \/ call'[c] = [call[c] EXCEPT !.todo = call[c].todo \ {i}]
              \/ call'[c] = [call[c] EXCEPT !.step = "update", !.id = i, !.todo = call[c].todo \ {i},
                                            !.row = [rows[i] EXCEPT !.status = "archived"]]
    BY DEF ArchiveNext, Ends, Goto, TypeOK
  <1> QED
    BY <1>3, <1>4, <1>5, <1>6

\* An export turns to a row of its list, as it is by now.
LEMMA ExportNextOK ==
    ASSUME TypeOK, NEW c \in Callers, CallOK(c), ExportNext(c)
    PROVE  CallOK(c)'
  <1> USE DEF CallOK
  <1>1. UNCHANGED <<rows, consented, retired>> /\ call[c].step = "exports" /\ call[c].op = "export"
    BY DEF ExportNext, history, At, Shaped
  <1>2. /\ \A i \in call[c].todo : /\ Cleared(i) /\ (rows[i].status = "active" \/ Covered(i))
                                   /\ i \in 1 .. Len(rows) /\ rows[i] \in Rows
        /\ call[c].audits = <<>>
    BY <1>1, CallFacts, RowFacts DEF Exporting, Listed, Shaped
  <1>3. CASE call'[c] = Idle
    BY <1>3, IdleOK
  <1>4. ASSUME NEW i \in call[c].todo,
               call'[c] = [call[c] EXCEPT !.step = "preview", !.id = i, !.todo = call[c].todo \ {i},
                                          !.row = [rows[i] EXCEPT !.applied = "yes"]]
        PROVE  CallOK(c)'
    <2>1. /\ call'[c].op = "export" /\ call'[c].step = "preview" /\ call'[c].todo \subseteq call[c].todo
          /\ call'[c].audits = <<>> /\ Len(<<>>) = 0 /\ call'[c].id = i
          /\ call'[c].row = [rows[i] EXCEPT !.applied = "yes"]
      BY <1>1, <1>2, <1>4, CallFacts DEF Calls
    <2>2. call'[c].row.content = rows[i].content /\ call'[c].row.sources = rows[i].sources /\ i \in DOMAIN rows
      BY <1>2, <2>1, RowFacts DEF Rows
    <2>3. Shaped(c)'
      BY <1>1, <2>1, <2>2 DEF Shaped, Holding, Before
    <2>4. Exporting(c)'
      <3>1. Listed(c)' \subseteq call[c].todo
        BY <2>1 DEF Listed
      <3> QED
        BY <1>1, <1>2, <3>1, StillLedger DEF Exporting
    <2>5. Approving(c)' /\ Replaced(c)' /\ Checked(c)'
      BY <2>1 DEF Approving, Replaced, Threat, Checked
    <2> QED
      BY <2>3, <2>4, <2>5
  <1>5. \/ call'[c] = Idle
        \/ \E i \in call[c].todo :
              call'[c] = [call[c] EXCEPT !.step = "preview", !.id = i, !.todo = call[c].todo \ {i},
                                         !.row = [rows[i] EXCEPT !.applied = "yes"]]
    BY DEF ExportNext, Ends, Goto, TypeOK
  <1> QED
    BY <1>3, <1>4, <1>5

\* A change is recorded; an approval has covered its sources by then.
LEMMA AuditOK ==
    ASSUME TypeOK, NEW c \in Callers, CallOK(c), Audit(c)
    PROVE  CallOK(c)'
  <1> USE DEF CallOK
  <1> DEFINE rest == Tail(call[c].audits)
  <1>1. UNCHANGED <<rows, consented, retired>> /\ call[c].step = "audit"
    BY DEF Audit, history, At
  <1>2. Len(rest) <= 2 /\ Len(<<>>) = 0
    BY <1>1, CallFacts, HeadTailProperties DEF Shaped
  <1>3. \/ call'[c] = Idle
        \/ rest # <<>> /\ call'[c] = [call[c] EXCEPT !.audits = rest]
        \/ rest = <<>> /\ call[c].op = "approve" /\ call'[c] = [call[c] EXCEPT !.audits = rest, !.step = "sources"]
        \/ rest = <<>> /\ call[c].op = "export" /\ call'[c] = [call[c] EXCEPT !.audits = rest, !.step = "exports"]
    BY DEF Audit, Ends, Goto, TypeOK
  <1> HIDE DEF rest
  <1>4. CASE call'[c] = Idle
    BY <1>4, IdleOK
  <1>5. CASE call'[c] # Idle
    <2>1. /\ call'[c].op = call[c].op /\ call'[c].todo = call[c].todo /\ call'[c].audits = rest
          /\ \/ rest # <<>> /\ call'[c].step = "audit"
             \/ rest = <<>> /\ call[c].op = "approve" /\ call'[c].step = "sources"
             \/ rest = <<>> /\ call[c].op = "export" /\ call'[c].step = "exports"
      BY <1>1, <1>3, <1>5, CallFacts DEF Calls
    <2>2. Shaped(c)'
      BY <1>2, <2>1 DEF Shaped, Holding, Before
    <2>3. Approving(c)'
      BY <1>1, <2>1, StillLedger DEF Approving, Holding, Before
    <2>4. Exporting(c)'
      <3>1. Listed(c)' = call[c].todo /\ call[c].todo \subseteq Listed(c)
        BY <2>1 DEF Listed, Holding, Before
      <3> QED
        BY <1>1, <2>1, <3>1, StillLedger DEF Exporting
    <2>5. Replaced(c)' /\ Checked(c)'
      BY <2>1 DEF Replaced, Threat, Checked
    <2> QED
      BY <2>2, <2>3, <2>4, <2>5
  <1> QED
    BY <1>4, <1>5

\* A step that turns to another one, its copy and its list as they were.
LEMMA TurnOK ==
    ASSUME TypeOK, NEW c \in Callers, CallOK(c), UNCHANGED <<rows, consented, retired>>,
           call[c].step \in Before,
           call'[c].step \in Before \union {"update"}, call'[c].op = call[c].op, call'[c].id = call[c].id,
           call'[c].row = call[c].row, call'[c].todo = call[c].todo, call'[c].audits = call[c].audits,
           call'[c].step \in {"preview", "check", "truncate", "fill"} => call[c].op \in {"approve", "export"},
           call'[c].step = "log" => call[c].op = "approve",
           call[c].op \in {"approve", "export"}
    PROVE  Shaped(c)' /\ Approving(c)' /\ Exporting(c)' /\ Replaced(c)'
  <1> USE DEF CallOK
  <1>1. call[c].step \in Holding /\ call'[c].step \in Holding /\ call[c].audits = <<>> /\ Len(<<>>) = 0
    BY DEF Shaped, Holding, Before
  <1>2. Shaped(c)'
    BY <1>1 DEF Shaped, Holding, Before
  <1>3. call[c].op = "approve" => call[c].row.status = "active"
    BY DEF Approving
  <1>4. Approving(c)'
    BY <1>1, <1>3, StillLedger DEF Approving, Allowed
  <1>5. Exporting(c)'
    <2>1. Listed(c)' = Listed(c)
      BY <1>1 DEF Listed
    <2> QED
      BY <2>1, StillLedger DEF Exporting
  <1>6. Replaced(c)'
    BY <1>3 DEF Replaced, Threat, Before
  <1> QED
    BY <1>2, <1>4, <1>5, <1>6

\* The steps that read and write the file.
LEMMA FileStepOK ==
    ASSUME TypeOK, Ledger, GoodText(file), NEW c \in Callers, CallOK(c),
           Preview(c) \/ Check(c) \/ Truncate(c) \/ Fill(c) \/ Log(c)
    PROVE  CallOK(c)'
  <1>0. UNCHANGED <<rows, consented, retired>>
    BY DEF Preview, Check, Truncate, Fill, Log, history
  <1>1. CASE call'[c] = Idle
    BY <1>1, IdleOK
  <1>2. CASE Preview(c) /\ call'[c] # Idle
    <2>1. /\ call'[c] = [call[c] EXCEPT !.step = "check", !.file = file] /\ call[c].step = "preview"
          /\ Allowed(rows[call[c].id].content)
      BY <1>2 DEF Preview, Ends, Goto, At, TypeOK
    <2>2. /\ call'[c].step = "check" /\ call'[c].op = call[c].op /\ call'[c].id = call[c].id
          /\ call'[c].row = call[c].row /\ call'[c].todo = call[c].todo /\ call'[c].audits = call[c].audits
          /\ call'[c].file = file
      BY <2>1, CallFacts DEF Calls
    <2>3. call[c].op \in {"approve", "export"}
      BY <2>1 DEF CallOK, Shaped
    <2>4. Shaped(c)' /\ Approving(c)' /\ Exporting(c)' /\ Replaced(c)'
      BY <1>0, <2>1, <2>2, <2>3, TurnOK DEF Before
    <2>5. Cleared(call[c].id)
      BY <2>1, <2>3 DEF CallOK, Approving, Exporting, Listed, Holding, Before
    <2>6. Checked(c)'
      BY <1>0, <2>1, <2>2, <2>5, StillLedger DEF Checked, Allowed
    <2> QED
      BY <2>4, <2>6 DEF CallOK
  <1>3. CASE (Check(c) \/ Truncate(c)) /\ call'[c] # Idle
    <2>1. \E step \in {"truncate", "fill"} : call'[c] = [call[c] EXCEPT !.step = step]
      BY <1>3 DEF Check, Truncate, Ends, Goto, TypeOK
    <2>2. /\ call[c].step \in {"check", "truncate"} /\ ~Unmarked(call[c].id, call[c].file)
      BY <1>3 DEF Check, Truncate, Ends, Goto, At, TypeOK, CallOK, Checked
    <2>3. /\ call'[c].step \in {"truncate", "fill"} /\ call'[c].op = call[c].op /\ call'[c].id = call[c].id
          /\ call'[c].row = call[c].row /\ call'[c].todo = call[c].todo /\ call'[c].audits = call[c].audits
          /\ call'[c].file = call[c].file
      BY <2>1, CallFacts DEF Calls
    <2>4. call[c].op \in {"approve", "export"}
      BY <2>2 DEF CallOK, Shaped
    <2>5. Shaped(c)' /\ Approving(c)' /\ Exporting(c)' /\ Replaced(c)'
      BY <1>0, <2>2, <2>3, <2>4, TurnOK DEF Before
    <2>6. Checked(c)'
      BY <1>0, <2>2, <2>3, StillLedger DEF CallOK, Checked, Allowed
    <2> QED
      BY <2>5, <2>6 DEF CallOK
  <1>4. CASE Fill(c) \/ Log(c)
    <2>1. /\ call[c].step \in {"fill", "log"} /\ call[c].op \in {"approve", "export"}
          /\ \E step \in {"log", "update"} : /\ step = "log" => call[c].op = "approve"
                /\ \E text \in {{}, call[c].file} : call'[c] = [call[c] EXCEPT !.step = step, !.file = text]
      <3>1. CASE Fill(c)
        BY <3>1 DEF Fill, Goto, At, TypeOK, CallOK, Shaped
      <3>2. CASE Log(c)
        <4>1. call[c] = [call[c] EXCEPT !.file = call[c].file]
          BY CallFacts DEF Calls
        <4>2. call[c].step = "log" /\ call[c].op = "approve" /\ call'[c] = [call[c] EXCEPT !.step = "update"]
          BY <3>2 DEF Log, Goto, At, TypeOK, CallOK, Shaped
        <4>3. [call[c] EXCEPT !.step = "update", !.file = call[c].file] = [call[c] EXCEPT !.step = "update"]
          BY CallFacts DEF Calls
        <4> QED
          BY <4>2, <4>3
      <3> QED
        BY <1>4, <3>1, <3>2
    <2>2. /\ call'[c].step \in {"log", "update"} /\ call'[c].op = call[c].op /\ call'[c].id = call[c].id
          /\ call'[c].row = call[c].row /\ call'[c].todo = call[c].todo /\ call'[c].audits = call[c].audits
          /\ call'[c].step = "log" => call[c].op = "approve"
      BY <2>1, CallFacts DEF Calls
    <2>3. Shaped(c)' /\ Approving(c)' /\ Exporting(c)' /\ Replaced(c)'
      BY <1>0, <2>1, <2>2, TurnOK DEF Before
    <2>4. Checked(c)'
      BY <2>2 DEF Checked
    <2> QED
      BY <2>3, <2>4 DEF CallOK
  <1> QED
    BY <1>1, <1>2, <1>3, <1>4

\* An inserted candidate is about to be recorded.
LEMMA InsertOK ==
    ASSUME TypeOK, NEW c \in Callers, CallOK(c), Insert(c)
    PROVE  CallOK(c)'
  <1> DEFINE audits == <<<<Len(rows'), call[c].row.status>>>>
  <1>1. Len(audits) = 1 /\ audits # <<>>
    OBVIOUS
  <1>2. call'[c] = [call[c] EXCEPT !.step = "audit", !.audits = audits] /\ call[c].step = "insert"
    BY DEF Insert, Goto, At, TypeOK
  <1> HIDE DEF audits
  <1>3. call'[c].op = call[c].op /\ call'[c].step = "audit" /\ call'[c].audits = audits
    BY <1>2, CallFacts DEF Calls
  <1>4. Len(call'[c].audits) = 1 /\ call'[c].audits # <<>> /\ call'[c].op = "change"
    BY <1>1, <1>2, <1>3 DEF CallOK, Shaped
  <1> QED
    BY <1>3, <1>4 DEF CallOK, Shaped, Holding, Before, Approving, Exporting, Replaced, Threat, Checked

\* Whatever a caller does, every call goes on knowing what it needs to.
LEMMA CallsOK ==
    ASSUME TypeOK, Ledger, GoodText(file), \A d \in Callers : CallOK(d), NEW c \in Callers, Acts(c)
    PROVE  \A d \in Callers : CallOK(d)'
  <1>1. Advances(c)
    BY RequestAdvances, StepAdvances, CrashAdvances DEF Acts, CallOK
  <1>2. Stays
    BY StaysStep DEF CallOK
  <1>3. \A d \in Callers \ {c} : CallOK(d)'
    BY <1>1, <1>2, OthersKeep DEF Advances
  <1>4. CallOK(c)'
    BY RequestOK, InsertOK, FileStepOK, UpdateOK, StoreOK, AuditOK, ArchiveOK, ExportNextOK, CrashAdvances, IdleOK
       DEF Acts, Step
  <1> QED
    BY <1>3, <1>4

\* Patching a good text with a row that is not in it unmarked gives a good text.
LEMMA PatchedGood ==
    ASSUME TypeOK, NEW id \in 1 .. Len(rows), NEW text \in SUBSET Bullets, GoodText(text),
           Allowed(rows[id].content), Cleared(id), ~Unmarked(id, text)
    PROVE  GoodText(Patched(id, text))
  <1> DEFINE bullet == [id |-> id, content |-> rows[id].content]
  <1>0. id # 0 /\ Len(rows) \in Nat
    BY RowFacts
  <1>1. CASE \E b \in text : b.id = id
    <2>1. bullet \in text
      <3>1. PICK b \in text : b.id = id
        BY <1>1
      <3>2. b.content = rows[id].content
        BY <1>0, <3>1 DEF GoodText, Governed
      <3>3. b = bullet
        BY <3>1, <3>2 DEF Bullets
      <3> QED
        BY <3>1, <3>3
    <2>2. Patched(id, text) \subseteq text
      BY <1>1, <2>1 DEF Patched
    <2> QED
      BY <2>2 DEF GoodText, Governed
  <1>2. CASE ~\E b \in text : b.id = id
    <2>1. Patched(id, text) = text \union {bullet}
      BY <1>2 DEF Patched
    <2>2. \A b \in text : b.content # bullet.content
      BY <1>2 DEF Unmarked, Occurs
    <2>3. bullet.id = id /\ bullet.content = rows[id].content
      OBVIOUS
    <2> HIDE DEF bullet
    <2> QED
      BY <2>1, <2>2, <2>3 DEF GoodText, Governed, Cleared
  <1> QED
    BY <1>1, <1>2

\* The steps that write the file.
LEMMA FileFrame ==
    ASSUME NEW c \in Callers, Acts(c)
    PROVE  Fill(c) \/ Truncate(c) \/ UNCHANGED <<file, spoiled>> \/ (UNCHANGED file /\ Crash(c))
  BY DEF Acts, Request, Step, Propose, Automate, Approve, Transition, Replace, Export, history,
         Insert, Preview, Check, Log, Update, Store, Audit, ArchiveNext, ExportNext, Crash

\* The file stays good whoever writes it.
LEMMA GoodStep ==
    ASSUME TypeOK, GoodText(file), Grows, NEW c \in Callers, CallOK(c), Acts(c)
    PROVE  GoodText(file)'
  <1>1. CASE Fill(c)
    <2>1. /\ call[c].step = "fill" /\ file' = Patched(call[c].id, call[c].file)
          /\ UNCHANGED <<rows, consented, retired>>
      BY <1>1 DEF Fill, At, history
    <2>2. call[c].id \in 1 .. Len(rows) /\ call[c].file \in SUBSET Bullets
      BY <2>1, RowFacts, CallFacts DEF CallOK, Shaped, Holding, Before
    <2>3. GoodText(file')
      BY <2>1, <2>2, PatchedGood DEF CallOK, Checked
    <2>4. \A text : text = file' => GoodText(text)'
      BY <2>1, <2>3, StillLedger
    <2> QED
      BY <2>4 DEF GoodText, Governed
  <1>2. CASE Truncate(c)
    BY <1>2 DEF Truncate, GoodText, Governed
  <1>3. CASE UNCHANGED file
    <2>1. \A b \in Governed(file) : b.id \in consented' /\ b.content = rows'[b.id].content
      BY GoodTextStays
    <2> QED
      BY <1>3, <2>1 DEF GoodText, Governed, Allowed
  <1> QED
    BY <1>1, <1>2, <1>3, FileFrame

\* An edit by hand removes a bullet, or adds one without a marker.
LEMMA GoodEdit ==
    ASSUME TypeOK, GoodText(file), Edit
    PROVE  GoodText(file)'
  <1>1. Governed(file)' \subseteq Governed(file)
    <2>1. CASE \E b \in file : file' = file \ {b}
      BY <2>1 DEF Governed
    <2>2. CASE \E f \in Facts : file' = file \union {[id |-> 0, content |-> Says(f)]}
      BY <2>2 DEF Governed
    <2> QED
      BY <2>1, <2>2 DEF Edit
  <1> QED
    BY <1>1 DEF Edit, GoodText, Allowed

\* What is written stays written while nobody writes the file.
LEMMA WrittenStays ==
    ASSUME NEW c \in Callers, \A d \in Callers \ {c} : call'[d] = call[d],
           UNCHANGED file, ~At(c, "fill"), ~At(c, "fill")'
    PROVE  \A i : Written(i)' <=> Written(i)
  <1>1. \A d \in Callers : At(d, "fill")' <=> At(d, "fill")
    BY DEF At
  <1>2. \A d \in Callers : At(d, "fill") => call'[d] = call[d]
    BY DEF At
  <1> QED
    BY <1>1, <1>2 DEF Written

\* Nobody claims a write that is not there, as long as a caller that does not write
\* claims what it claimed before, or what the ledger does.
LEMMA TruthfulQuiet ==
    ASSUME TypeOK, Truthful, NEW c \in Callers, Advances(c), UNCHANGED <<file, spoiled>>,
           ~At(c, "fill"), ~At(c, "fill")',
           At(c, "truncate")' => file = call'[c].file,
           \A i \in 1 .. Len(rows') : rows'[i].applied = "yes" =>
               (i \in 1 .. Len(rows) /\ rows[i].applied = "yes") \/ (Claims(c) /\ i = call[c].id),
           Claims(c)' => \/ Claims(c) /\ call'[c].id = call[c].id
                         \/ call'[c].id \in 1 .. Len(rows) /\ rows[call'[c].id].applied = "yes"
    PROVE  Truthful'
  <1> SUFFICES ASSUME ~spoiled
               PROVE  /\ \A d, e \in Callers : At(d, "fill")' /\ At(e, "fill")' => d = e
                      /\ \A d \in Callers : At(d, "truncate")' => file' = call'[d].file
                      /\ \A i \in DOMAIN rows' : rows'[i].applied = "yes" => Written(i)'
                      /\ \A d \in Callers : Claims(d)' => \A i : i = call'[d].id => Written(i)'
    BY DEF Truthful, Claims, Written, At
  <1>1. \A i : Written(i)' <=> Written(i)
    BY WrittenStays DEF Advances
  <1>2. \A d \in Callers \ {c} : call'[d] = call[d]
    BY DEF Advances
  <1>3. \A d \in Callers \ {c} : Claims(d)' => Claims(d) /\ call'[d].id = call[d].id
    BY <1>2 DEF Claims
  <1>4. DOMAIN rows' = 1 .. Len(rows') /\ DOMAIN rows = 1 .. Len(rows)
    BY RowFacts DEF Advances, Grows
  <1>5. \A d, e \in Callers : At(d, "fill")' /\ At(e, "fill")' => d = e
    BY <1>2 DEF Truthful, At
  <1>6. \A d \in Callers : At(d, "truncate")' => file' = call'[d].file
    BY <1>2 DEF Truthful, At
  <1>7. \A i \in DOMAIN rows' : rows'[i].applied = "yes" => Written(i)'
    BY <1>1, <1>4 DEF Truthful
  <1>8. \A d \in Callers : Claims(d)' => \A i : i = call'[d].id => Written(i)'
    BY <1>1, <1>3, <1>4 DEF Truthful
  <1> QED
    BY <1>5, <1>6, <1>7, <1>8

\* Patching adds the row's bullet and drops nobody else's.
LEMMA PatchedIds ==
    ASSUME NEW id, NEW text
    PROVE  /\ \E b \in Patched(id, text) : b.id = id
           /\ \A a \in text : \E b \in Patched(id, text) : b.id = a.id
  <1> DEFINE bullet == [id |-> id, content |-> rows[id].content]
  <1>1. bullet.id = id
    OBVIOUS
  <1>2. bullet \in Patched(id, text)
    BY DEF Patched
  <1>3. ASSUME NEW a \in text, a.id # id PROVE a \in Patched(id, text)
    <2>1. CASE \E b \in text : b.id = id
      <3>1. a = IF a.id = id THEN bullet ELSE a
        BY <1>3
      <3> QED
        BY <2>1, <3>1 DEF Patched
    <2>2. CASE ~\E b \in text : b.id = id
      BY <1>3, <2>2 DEF Patched
    <2> QED
      BY <2>1, <2>2
  <1> HIDE DEF bullet
  <1> QED
    BY <1>1, <1>2, <1>3

\* Emptying the file, alone: the text is in the caller's hands.
LEMMA TruthfulTruncate ==
    ASSUME TypeOK, Truthful, NEW c \in Callers, Advances(c), Truncate(c)
    PROVE  Truthful'
  <1> SUFFICES ASSUME ~spoiled' PROVE Truthful'
    BY DEF Truthful
  <1>1. /\ ~spoiled /\ \A d \in Callers \ {c} : call[d].step \notin {"truncate", "fill"}
        /\ UNCHANGED rows /\ call[c].step = "truncate" /\ call'[c] = [call[c] EXCEPT !.step = "fill"]
    BY DEF Truncate, Others, Writing, At, Goto, TypeOK
  <1>2. call'[c].step = "fill" /\ call'[c].file = call[c].file
    BY <1>1, CallFacts DEF Calls
  <1>3. \A d \in Callers \ {c} : call'[d] = call[d]
    BY DEF Advances
  <1>4. file = call[c].file
    BY <1>1 DEF Truthful, At
  <1>5. \A i : Written(i) => Written(i)'
    BY <1>1, <1>2, <1>4 DEF Written, At
  <1>6. \A d \in Callers : Claims(d)' => Claims(d) /\ call'[d].id = call[d].id
    BY <1>2, <1>3 DEF Claims
  <1>7. /\ \A d, e \in Callers : At(d, "fill")' /\ At(e, "fill")' => d = e
        /\ \A d \in Callers : ~At(d, "truncate")'
    <2>1. \A d \in Callers \ {c} : call'[d].step \notin {"truncate", "fill"}
      BY <1>1, <1>3
    <2> QED
      BY <1>2, <2>1 DEF At
  <1>8. \A d \in Callers : Claims(d)' => \A i : i = call'[d].id => Written(i)'
    BY <1>1, <1>5, <1>6 DEF Truthful
  <1>9. \A i \in DOMAIN rows' : rows'[i].applied = "yes" => Written(i)'
    BY <1>1, <1>5 DEF Truthful
  <1> QED
    BY <1>7, <1>8, <1>9 DEF Truthful, Claims, Written, At

\* Filling the file puts back what was in it, and the caller's bullet.
LEMMA TruthfulFill ==
    ASSUME TypeOK, Truthful, NEW c \in Callers, CallOK(c), Advances(c), Fill(c)
    PROVE  Truthful'
  <1> SUFFICES ASSUME ~spoiled' PROVE Truthful'
    BY DEF Truthful
  <1>1. /\ ~spoiled /\ \A d \in Callers \ {c} : call[d].step \notin {"truncate", "fill"}
        /\ UNCHANGED rows /\ call[c].step = "fill" /\ file' = Patched(call[c].id, call[c].file)
        /\ call'[c] = [call[c] EXCEPT !.step = IF call[c].op = "approve" THEN "log" ELSE "update", !.file = {}]
    BY DEF Fill, Others, Writing, At, Goto, TypeOK
  <1>2. call'[c].step \in {"log", "update"} /\ call'[c].id = call[c].id
    BY <1>1, CallFacts DEF Calls
  <1>3. \A d \in Callers \ {c} : call'[d] = call[d]
    BY DEF Advances
  <1>4. \A i : (\E b \in call[c].file : b.id = i) => \E b \in file' : b.id = i
    BY <1>1, PatchedIds
  <1>5. \E b \in file' : b.id = call[c].id
    BY <1>1, PatchedIds
  <1>6. \A d \in Callers : ~At(d, "fill")' /\ ~At(d, "truncate")'
    <2>1. \A d \in Callers \ {c} : call'[d].step \notin {"truncate", "fill"}
      BY <1>1, <1>3
    <2> QED
      BY <1>2, <2>1 DEF At
  <1>7. \A i : Written(i) \/ i = call[c].id => Written(i)'
    BY <1>1, <1>4, <1>5, <1>6 DEF Written, At
  <1>8. \A d \in Callers : Claims(d)' => \A i : i = call'[d].id => Written(i)'
    <2>1. \A d \in Callers \ {c} : Claims(d)' => Claims(d)
      BY <1>3 DEF Claims
    <2>2. \A d \in Callers \ {c} : Claims(d)' => Written(call[d].id)
      BY <1>1, <2>1 DEF Truthful
    <2> QED
      BY <1>2, <1>3, <1>7, <2>2
  <1>9. \A i \in DOMAIN rows' : rows'[i].applied = "yes" => Written(i)'
    BY <1>1, <1>7 DEF Truthful
  <1> QED
    BY <1>6, <1>8, <1>9 DEF Truthful, Claims, Written, At

\* The steps of a call that leave the ledger and the file alone.
LEMMA TruthfulTurn ==
    ASSUME TypeOK, Truthful, NEW c \in Callers, Advances(c), UNCHANGED <<rows, file, spoiled>>,
           call[c].step # "fill", call'[c].step \notin {"truncate", "fill"},
           call'[c].step \in {"log", "update", "store"} =>
              \/ call[c].step \in {"log", "update"} /\ call'[c].row.applied = call[c].row.applied /\ call'[c].id = call[c].id
              \/ call'[c].id \in 1 .. Len(rows) /\ call'[c].row.applied = rows[call'[c].id].applied
    PROVE  Truthful'
  <1>1. /\ ~At(c, "fill") /\ ~At(c, "fill")' /\ ~At(c, "truncate")'
    BY DEF At
  <1>2. Claims(c)' => \/ Claims(c) /\ call'[c].id = call[c].id
                      \/ call'[c].id \in 1 .. Len(rows) /\ rows[call'[c].id].applied = "yes"
    BY DEF Claims
  <1> QED
    BY <1>1, <1>2, TruthfulQuiet

\* A request claims what the ledger does, if anything.
LEMMA TruthfulRequest ==
    ASSUME TypeOK, Truthful, NEW c \in Callers, Advances(c), Request(c)
    PROVE  Truthful'
  <1>0. /\ call[c].step = "idle" /\ Idle.step = "idle" /\ UNCHANGED <<file, spoiled>>
    BY DEF Request, Propose, Automate, Approve, Transition, Replace, Export, Begin, At, Idle, history
  <1>1. CASE \/ \E f \in Facts : Propose(c, f)
             \/ \E kind \in {"merge", "compact"}, group \in SUBSET Active :
                   \E kept \in SUBSET AllFacts(group) : Automate(c, kind, group, kept)
             \/ Export(c)
    <2>1. call'[c].step \in {"idle", "insert", "exports"} /\ UNCHANGED rows
      <3>1. CASE \E f \in Facts : Propose(c, f)
        <4>1. \/ call'[c] = Idle
              \/ \E row : call'[c] = [Idle EXCEPT !.op = "change", !.step = "insert", !.row = row]
          BY <3>1 DEF Propose, Begin, Goto, TypeOK
        <4>2. call'[c].step \in {"idle", "insert"}
          <5>1. CASE call'[c] = Idle
            BY <5>1 DEF Idle
          <5>2. ASSUME NEW row, call'[c] = [Idle EXCEPT !.op = "change", !.step = "insert", !.row = row]
                PROVE  call'[c].step = "insert"
            BY <5>2 DEF Idle
          <5> QED
            BY <4>1, <5>1, <5>2
        <4>3. UNCHANGED rows
          BY <3>1 DEF Propose
        <4> QED
          BY <4>2, <4>3
      <3>2. CASE \E kind \in {"merge", "compact"}, group \in SUBSET Active :
                     \E kept \in SUBSET AllFacts(group) : Automate(c, kind, group, kept)
        <4>1. \/ call'[c] = Idle
              \/ \E row : call'[c] = [Idle EXCEPT !.op = "change", !.step = "insert", !.row = row]
          BY <3>2 DEF Automate, Begin, Goto, TypeOK
        <4>2. call'[c].step \in {"idle", "insert"}
          <5>1. CASE call'[c] = Idle
            BY <5>1 DEF Idle
          <5>2. ASSUME NEW row, call'[c] = [Idle EXCEPT !.op = "change", !.step = "insert", !.row = row]
                PROVE  call'[c].step = "insert"
            BY <5>2 DEF Idle
          <5> QED
            BY <4>1, <5>1, <5>2
        <4>3. UNCHANGED rows
          BY <3>2 DEF Automate
        <4> QED
          BY <4>2, <4>3
      <3>3. CASE Export(c)
        BY <3>3 DEF Export, Begin, Goto, Idle, TypeOK
      <3> QED
        BY <1>1, <3>1, <3>2, <3>3
    <2> QED
      BY <1>0, <2>1, TruthfulTurn
  <1>2. ASSUME NEW id \in DOMAIN rows, Approve(c, id) PROVE Truthful'
    <2>1. UNCHANGED rows /\ id \in 1 .. Len(rows) /\ rows[id] \in Rows
      BY <1>2, RowFacts DEF Approve
    <2>2. \/ call'[c].step = "preview"
          \/ call'[c].step = "update" /\ call'[c].id = id /\ call'[c].row = [rows[id] EXCEPT !.status = "rejected"]
      BY <1>2 DEF Approve, Begin, Goto, Idle, TypeOK
    <2>3. [rows[id] EXCEPT !.status = "rejected"].applied = rows[id].applied
      BY <2>1 DEF Rows
    <2>4. \/ call'[c].step = "preview"
          \/ call'[c].step = "update" /\ call'[c].id = id /\ call'[c].row.applied = rows[id].applied
      BY <2>2, <2>3
    <2> QED
      BY <1>0, <2>1, <2>4, TruthfulTurn
  <1>3. ASSUME NEW id \in DOMAIN rows, NEW status \in {"rejected", "archived"}, Transition(c, id, status)
        PROVE  Truthful'
    <2>1. UNCHANGED rows /\ id \in 1 .. Len(rows) /\ rows[id] \in Rows
      BY <1>3, RowFacts DEF Transition
    <2>2. call'[c].step = "update" /\ call'[c].id = id /\ call'[c].row = [rows[id] EXCEPT !.status = status]
      BY <1>3 DEF Transition, Begin, Goto, Idle, TypeOK
    <2>3. [rows[id] EXCEPT !.status = status].applied = rows[id].applied
      BY <2>1 DEF Rows
    <2>4. call'[c].step = "update" /\ call'[c].id = id /\ call'[c].row.applied = rows[id].applied
      BY <2>2, <2>3
    <2> QED
      BY <1>0, <2>1, <2>4, TruthfulTurn
  <1>4. ASSUME NEW id \in DOMAIN rows, NEW f \in Facts, Replace(c, id, f)
        PROVE  Truthful'
    <2>1. call'[c].step = "audit"
      BY <1>4 DEF Replace, Begin, Goto, Idle, TypeOK
    <2>2. \A i \in 1 .. Len(rows') : rows'[i].applied = "yes" => i \in 1 .. Len(rows) /\ rows[i].applied = "yes"
      <3>1. NewRow(Says(f), "active").applied = "no"
        BY DEF NewRow
      <3>2. /\ Len(rows') = Len(rows) + 1 /\ Len(rows) \in Nat
            /\ rows'[Len(rows) + 1] = NewRow(Says(f), "active")
        BY <1>4, ReplaceRows
      <3>3. rows'[Len(rows) + 1].applied = "no"
        BY <3>1, <3>2
      <3>4. \A i \in 1 .. Len(rows) : /\ i # id => rows'[i] = rows[i]
                                      /\ rows'[i].applied = rows[i].applied /\ audited'[i] = audited[i]
        BY <1>4, ReplaceRows
      <3>5. ASSUME NEW i \in 1 .. Len(rows'), rows'[i].applied = "yes"
            PROVE  i \in 1 .. Len(rows) /\ rows[i].applied = "yes"
        <4>1. i # Len(rows) + 1
          BY <3>3, <3>5
        <4>2. i \in 1 .. Len(rows)
          BY <3>2, <4>1
        <4> QED
          <5>1. rows'[i].applied = rows[i].applied
            BY <3>4, <4>2
          <5> QED
            BY <3>5, <4>2, <5>1
      <3> QED
        BY <3>5
    <2>3. ~At(c, "fill") /\ ~At(c, "fill")' /\ ~At(c, "truncate")' /\ ~Claims(c)'
      BY <1>0, <2>1 DEF At, Claims
    <2> QED
      BY <1>0, <2>2, <2>3, TruthfulQuiet
  <1> QED
    BY <1>1, <1>2, <1>3, <1>4 DEF Request

\* The steps of a call claim nothing that was not written.
LEMMA TruthfulStep ==
    ASSUME TypeOK, Truthful, NEW c \in Callers, CallOK(c), Advances(c), Step(c)
    PROVE  Truthful'
  <1>0. Idle.step = "idle"
    BY DEF Idle
  <1>1. CASE Truncate(c) \/ Fill(c)
    BY <1>1, TruthfulTruncate, TruthfulFill
  <1>2. CASE Insert(c)
    <2>1. call[c].step = "insert" /\ call'[c].step = "audit" /\ call[c].row.applied = "no" /\ UNCHANGED <<file, spoiled>>
      <3>1. call'[c] = [call[c] EXCEPT !.step = "audit", !.audits = <<<<Len(rows'), call[c].row.status>>>>]
        BY <1>2 DEF Insert, Goto, TypeOK
      <3>2. call'[c].step = "audit"
        BY <3>1, CallFacts DEF Calls
      <3> QED
        BY <1>2, <3>2 DEF Insert, At, CallOK, Shaped, history
    <2>2. \A i \in 1 .. Len(rows') : rows'[i].applied = "yes" => i \in 1 .. Len(rows) /\ rows[i].applied = "yes"
      BY <1>2, <2>1, InsertRows
    <2>3. ~At(c, "fill") /\ ~At(c, "fill")' /\ ~At(c, "truncate")' /\ ~Claims(c)'
      BY <2>1 DEF At, Claims
    <2> QED
      BY <2>1, <2>2, <2>3, TruthfulQuiet
  <1>3. CASE Preview(c)
    <2>1. /\ call[c].step = "preview" /\ UNCHANGED <<rows, file, spoiled>>
          /\ call'[c] = Idle \/ call'[c] = [call[c] EXCEPT !.step = "check", !.file = file]
      BY <1>3 DEF Preview, At, Ends, Goto, TypeOK, history
    <2>2. call'[c].step \in {"idle", "check"}
      BY <1>0, <2>1, CallFacts DEF Calls
    <2> QED
      BY <2>1, <2>2, TruthfulTurn
  <1>4. CASE Check(c)
    <2>1. /\ call[c].step = "check" /\ UNCHANGED <<rows, file, spoiled>>
          /\ \/ call'[c] = Idle
             \/ call'[c] = [call[c] EXCEPT !.step = "truncate"] /\ file = call[c].file
      BY <1>4 DEF Check, At, Ends, Goto, TypeOK, history
    <2>2. \/ call'[c].step = "idle"
          \/ call'[c].step = "truncate" /\ file = call'[c].file
      BY <1>0, <2>1, CallFacts DEF Calls
    <2>3. ~At(c, "fill") /\ ~At(c, "fill")' /\ (At(c, "truncate")' => file = call'[c].file) /\ ~Claims(c)'
      BY <2>1, <2>2 DEF At, Claims
    <2>4. \A i \in 1 .. Len(rows') : rows'[i].applied = "yes" => i \in 1 .. Len(rows) /\ rows[i].applied = "yes"
      BY <2>1
    <2> QED
      BY <2>1, <2>3, <2>4, TruthfulQuiet
  <1>5. CASE Log(c)
    <2>1. /\ call[c].step = "log" /\ UNCHANGED <<rows, file, spoiled>>
          /\ call'[c] = [call[c] EXCEPT !.step = "update"]
      BY <1>5 DEF Log, At, Goto, TypeOK, history
    <2>2. call'[c].step = "update" /\ call'[c].row = call[c].row /\ call'[c].id = call[c].id
      BY <2>1, CallFacts DEF Calls
    <2> QED
      BY <2>1, <2>2, TruthfulTurn
  <1>6. CASE Update(c)
    <2> DEFINE read == rows[call[c].id]
               row == [call[c].row EXCEPT !.applied = IF call[c].op = "transition" THEN read.applied ELSE call[c].row.applied,
                                          !.status = IF call[c].op = "export" THEN read.status ELSE call[c].row.status]
    <2>1. /\ call[c].step = "update" /\ UNCHANGED <<rows, file, spoiled>>
          /\ call'[c] = [call[c] EXCEPT !.step = "store", !.row = row]
      BY <1>6 DEF Update, At, Goto, TypeOK, history
    <2>2. call'[c].step = "store" /\ call'[c].row = row /\ call'[c].id = call[c].id
      <3> HIDE DEF row
      <3> QED
        BY <2>1, CallFacts DEF Calls
    <2>3. row.applied = IF call[c].op = "transition" THEN read.applied ELSE call[c].row.applied
      BY CallFacts DEF Rows
    <2>4. call[c].id \in 1 .. Len(rows)
      BY <2>1, RowFacts DEF CallOK, Shaped, Holding
    <2>5. \/ call'[c].row.applied = call[c].row.applied
          \/ call'[c].row.applied = rows[call'[c].id].applied
      BY <2>2, <2>3
    <2> QED
      BY <2>1, <2>2, <2>4, <2>5, TruthfulTurn
  <1>7. CASE Store(c)
    <2>1. call[c].step = "store" /\ UNCHANGED <<file, spoiled>> /\ call'[c].step = "audit"
      <3>1. \E audits : call'[c] = [call[c] EXCEPT !.step = "audit", !.audits = audits]
        BY <1>7 DEF Store, Goto, TypeOK
      <3>2. call'[c].step = "audit"
        BY <3>1, CallFacts DEF Calls
      <3> QED
        BY <1>7, <3>2 DEF Store, At
    <2>2. \A i \in 1 .. Len(rows') : rows'[i].applied = "yes" =>
               (i \in 1 .. Len(rows) /\ rows[i].applied = "yes") \/ (Claims(c) /\ i = call[c].id)
      BY <1>7, <2>1, StoreRows DEF CallOK, Claims
    <2>3. ~At(c, "fill") /\ ~At(c, "fill")' /\ ~At(c, "truncate")' /\ ~Claims(c)'
      BY <2>1 DEF At, Claims
    <2> QED
      BY <2>1, <2>2, <2>3, TruthfulQuiet
  <1>8. CASE Audit(c)
    <2> DEFINE rest == Tail(call[c].audits)
    <2>1. /\ call[c].step = "audit" /\ UNCHANGED <<rows, file, spoiled>>
          /\ \/ call'[c] = Idle
             \/ call'[c] = [call[c] EXCEPT !.audits = rest]
             \/ \E step \in {"sources", "exports"} : call'[c] = [call[c] EXCEPT !.audits = rest, !.step = step]
      BY <1>8 DEF Audit, At, Ends, Goto, TypeOK, history
    <2>2. call'[c].step \in {"idle", "audit", "sources", "exports"}
      <3> HIDE DEF rest
      <3> QED
        BY <1>0, <2>1, CallFacts DEF Calls
    <2> QED
      BY <2>1, <2>2, TruthfulTurn
  <1>9. CASE ArchiveNext(c)
    <2>1. call[c].step = "sources" /\ UNCHANGED <<rows, file, spoiled>>
      BY <1>9 DEF ArchiveNext, At, history
    <2>2. CASE call'[c] = Idle
      BY <1>0, <2>1, <2>2, TruthfulTurn
    <2>3. ASSUME NEW i \in call[c].todo,
                 call'[c] = IF rows[i].status = "archived" THEN [call[c] EXCEPT !.todo = @ \ {i}]
                     ELSE [call[c] EXCEPT !.step = "update", !.id = i, !.todo = @ \ {i},
                                          !.row = [rows[i] EXCEPT !.status = "archived"]]
          PROVE  Truthful'
      <3> DEFINE row == [rows[i] EXCEPT !.status = "archived"]
      <3>1. row.applied = rows[i].applied /\ i \in 1 .. Len(rows)
        BY CallFacts, RowFacts DEF Rows
      <3>2. \/ call'[c] = [call[c] EXCEPT !.todo = call[c].todo \ {i}]
            \/ call'[c] = [call[c] EXCEPT !.step = "update", !.id = i, !.todo = call[c].todo \ {i}, !.row = row]
        BY <2>3
      <3> HIDE DEF row
      <3>3. \/ call'[c].step = "sources"
            \/ call'[c].step = "update" /\ call'[c].id = i /\ call'[c].row = row
        BY <2>1, <3>2, CallFacts DEF Calls
      <3> QED
        BY <2>1, <3>1, <3>3, TruthfulTurn
    <2> QED
      BY <1>9, <2>2, <2>3 DEF ArchiveNext, Ends, Goto, TypeOK
  <1>10. CASE ExportNext(c)
    <2>1. call[c].step = "exports" /\ UNCHANGED <<rows, file, spoiled>>
      BY <1>10 DEF ExportNext, At, history
    <2>2. CASE call'[c] = Idle
      BY <1>0, <2>1, <2>2, TruthfulTurn
    <2>3. ASSUME NEW i \in call[c].todo,
                 call'[c] = [call[c] EXCEPT !.step = "preview", !.id = i, !.todo = @ \ {i},
                                     !.row = [rows[i] EXCEPT !.applied = "yes"]]
          PROVE  Truthful'
      <3> DEFINE row == [rows[i] EXCEPT !.applied = "yes"]
      <3>1. call'[c] = [call[c] EXCEPT !.step = "preview", !.id = i, !.todo = call[c].todo \ {i}, !.row = row]
        BY <2>3
      <3> HIDE DEF row
      <3>2. call'[c].step = "preview"
        BY <3>1, CallFacts DEF Calls
      <3> QED
        BY <2>1, <3>2, TruthfulTurn
    <2> QED
      BY <1>10, <2>2, <2>3 DEF ExportNext, Ends, Goto, TypeOK
  <1> QED
    BY <1>1, <1>2, <1>3, <1>4, <1>5, <1>6, <1>7, <1>8, <1>9, <1>10 DEF Step

\* The ledger stays truthful about the file whatever a caller does.
LEMMA TruthfulActs ==
    ASSUME TypeOK, Truthful, NEW c \in Callers, CallOK(c), Advances(c), Acts(c)
    PROVE  Truthful'
  <1>1. CASE Crash(c)
    <2>1. /\ UNCHANGED <<rows, file>> /\ call'[c] = Idle /\ Idle.step = "idle"
          /\ spoiled' = (spoiled \/ call[c].step = "fill")
      BY <1>1 DEF Crash, Ends, Goto, At, TypeOK, Idle
    <2>2. CASE spoiled'
      BY <2>2 DEF Truthful
    <2>3. CASE ~spoiled'
      BY <2>1, <2>3, TruthfulTurn DEF TypeOK
    <2> QED
      BY <2>2, <2>3
  <1> QED
    BY <1>1, TruthfulRequest, TruthfulStep DEF Acts

\* The silent rows are finitely many.
LEMMA UnrecordedFinite ==
    ASSUME TypeOK
    PROVE  IsFiniteSet(Unrecorded) /\ Cardinality(Unrecorded) \in Nat
  <1>1. IsFiniteSet(1 .. Len(rows))
    BY RowFacts, FS_Interval
  <1>2. Unrecorded \subseteq 1 .. Len(rows)
    BY RowFacts DEF Unrecorded
  <1>3. IsFiniteSet(Unrecorded)
    BY <1>1, <1>2, FS_Subset
  <1> QED
    BY <1>3, FS_CardinalityType

\* A row is as recorded as it was when its status is, and otherwise on its caller's list.
LEMMA RecordsKept ==
    ASSUME TypeOK, NEW c \in Callers, Advances(c),
           \A i \in 1 .. Len(rows') :
              \/ <<i, rows'[i].status>> \in Records(c)'
              \/ /\ i \in 1 .. Len(rows) /\ rows'[i].status = rows[i].status /\ audited[i] \subseteq audited'[i]
                 /\ <<i, rows[i].status>> \in Records(c) =>
                       <<i, rows[i].status>> \in Records(c)' \/ rows[i].status \in audited'[i]
    PROVE  Unrecorded' \subseteq Unrecorded
  <1> SUFFICES ASSUME NEW i \in Unrecorded' PROVE i \in Unrecorded
    OBVIOUS
  <1>1. DOMAIN rows = 1 .. Len(rows) /\ DOMAIN rows' = 1 .. Len(rows')
    BY RowFacts DEF Advances, Grows
  <1>2. /\ i \in 1 .. Len(rows') /\ rows'[i].status \notin audited'[i]
        /\ \A d \in Callers : <<i, rows'[i].status>> \notin Records(d)'
    BY <1>1 DEF Unrecorded
  <1>3. /\ i \in 1 .. Len(rows) /\ rows'[i].status = rows[i].status /\ rows[i].status \notin audited[i]
        /\ <<i, rows[i].status>> \notin Records(c)
    BY <1>2
  <1>4. \A d \in Callers \ {c} : Records(d)' = Records(d)
    BY DEF Advances, Records
  <1> QED
    BY <1>1, <1>2, <1>3, <1>4 DEF Unrecorded

\* The steps that change no status and end no record.
LEMMA RecordedTurn ==
    ASSUME TypeOK, NEW c \in Callers, Advances(c), Shaped(c), UNCHANGED rows, call[c].step # "audit",
           \A i \in 1 .. Len(rows) : audited[i] \subseteq audited'[i]
    PROVE  Unrecorded' \subseteq Unrecorded
  <1>1. Records(c) = {}
    <2>1. call[c].audits = <<>>
      BY DEF Shaped
    <2> QED
      BY <2>1 DEF Records
  <1> QED
    BY <1>1, RecordsKept

\* A request changes a status only by a replacement, which is about to record both.
LEMMA RecordedRequest ==
    ASSUME TypeOK, NEW c \in Callers, Advances(c), Shaped(c), Request(c)
    PROVE  Unrecorded' \subseteq Unrecorded
  <1>1. call[c].step = "idle"
    BY DEF Request, Propose, Automate, Approve, Transition, Replace, Export, Begin, At
  <1>2. ASSUME NEW id \in DOMAIN rows, NEW f \in Facts, Replace(c, id, f)
        PROVE  Unrecorded' \subseteq Unrecorded
    <2> DEFINE audits == <<<<Len(rows'), "active">>, <<id, "archived">>>>
    <2>1. /\ Len(rows') = Len(rows) + 1 /\ Len(rows) \in Nat /\ id \in 1 .. Len(rows)
          /\ rows'[id].status = "archived" /\ rows'[Len(rows) + 1] = NewRow(Says(f), "active")
      BY <1>2, ReplaceRows
    <2>2. \A i \in 1 .. Len(rows) : (i # id => rows'[i] = rows[i]) /\ audited'[i] = audited[i]
      BY <1>2, ReplaceRows
    <2>3. call'[c].audits = audits
      BY <1>2 DEF Replace, Begin, Goto, Idle, TypeOK
    <2>4. <<Len(rows'), "active">> \in Records(c)' /\ <<id, "archived">> \in Records(c)'
      <3>1. 1 \in DOMAIN audits /\ 2 \in DOMAIN audits
            /\ audits[1] = <<Len(rows'), "active">> /\ audits[2] = <<id, "archived">>
        OBVIOUS
      <3> HIDE DEF audits
      <3> QED
        BY <2>3, <3>1 DEF Records
    <2>5. rows'[Len(rows')].status = "active"
      BY <2>1 DEF NewRow
    <2>6. Records(c) = {}
      BY <1>1 DEF Shaped, Records
    <2>7. \A i \in 1 .. Len(rows') : i = Len(rows') \/ i = id \/ (i \in 1 .. Len(rows) /\ i # id)
      BY <2>1
    <2> QED
      BY <2>1, <2>2, <2>4, <2>5, <2>6, <2>7, RecordsKept
  <1>3. CASE UNCHANGED <<rows, audited>>
    BY <1>1, <1>3, RecordedTurn
  <1> QED
    BY <1>2, <1>3 DEF Request, Propose, Automate, Approve, Transition, Export

\* A step records the status it changed, or has it on its list.
LEMMA RecordedStep ==
    ASSUME TypeOK, NEW c \in Callers, Advances(c), Shaped(c), Step(c)
    PROVE  Unrecorded' \subseteq Unrecorded
  <1>1. CASE Insert(c)
    <2> DEFINE audits == <<<<Len(rows'), call[c].row.status>>>>
    <2>1. /\ Len(rows') = Len(rows) + 1 /\ Len(rows) \in Nat /\ rows'[Len(rows) + 1] = call[c].row
          /\ \A i \in 1 .. Len(rows) : rows'[i] = rows[i] /\ audited'[i] = audited[i]
      BY <1>1, InsertRows
    <2>2. call'[c] = [call[c] EXCEPT !.step = "audit", !.audits = audits] /\ call[c].step = "insert"
      BY <1>1 DEF Insert, At, Goto, TypeOK
    <2>3. 1 \in DOMAIN audits /\ audits[1] = <<Len(rows'), call[c].row.status>>
      OBVIOUS
    <2> HIDE DEF audits
    <2>4. call'[c].audits = audits
      BY <2>2, CallFacts DEF Calls
    <2>5. <<Len(rows'), rows'[Len(rows')].status>> \in Records(c)'
      BY <2>1, <2>3, <2>4 DEF Records
    <2>6. Records(c) = {}
      BY <2>2 DEF Shaped, Records
    <2>7. \A i \in 1 .. Len(rows') : i = Len(rows') \/ i \in 1 .. Len(rows)
      BY <2>1
    <2> QED
      BY <2>1, <2>5, <2>6, <2>7, RecordsKept
  <1>2. CASE Store(c)
    <2> DEFINE id == call[c].id
    <2>1. /\ Len(rows') = Len(rows) /\ Len(rows) \in Nat /\ id \in 1 .. Len(rows) /\ UNCHANGED audited
          /\ \A i \in 1 .. Len(rows) : rows'[i] = IF i = id THEN call[c].row ELSE rows[i]
      BY <1>2, StoreRows DEF Store
    <2>2. call[c].step = "store"
      BY <1>2 DEF Store, At
    <2>3. \E audits : /\ call'[c] = [call[c] EXCEPT !.step = "audit", !.audits = audits]
                      /\ 1 \in DOMAIN audits /\ audits[1] = <<id, call[c].row.status>>
      <3>1. \E audits \in {<<<<id, call[c].row.status>>, <<id, "active">>>>, <<<<id, call[c].row.status>>>>} :
               call'[c] = [call[c] EXCEPT !.step = "audit", !.audits = audits]
        BY <1>2 DEF Store, Goto, TypeOK
      <3>2. \A audits \in {<<<<id, call[c].row.status>>, <<id, "active">>>>, <<<<id, call[c].row.status>>>>} :
               1 \in DOMAIN audits /\ audits[1] = <<id, call[c].row.status>>
        OBVIOUS
      <3> QED
        BY <3>1, <3>2
    <2>4. 1 \in DOMAIN call'[c].audits /\ call'[c].audits[1] = <<id, call[c].row.status>>
      BY <2>3, CallFacts DEF Calls
    <2>5. <<id, rows'[id].status>> \in Records(c)'
      BY <2>1, <2>4 DEF Records
    <2>6. Records(c) = {}
      BY <2>2 DEF Shaped, Records
    <2> QED
      BY <2>1, <2>5, <2>6, RecordsKept
  <1>3. CASE Audit(c)
    <2> DEFINE audits == call[c].audits
               record == Head(audits)
               rest == Tail(audits)
    <2>1. /\ audits \in Seq((1 .. Len(rows)) \X Statuses) /\ audits # <<>> /\ UNCHANGED rows
          /\ Len(audits) \in Nat \ {0}
      <3>1. audits \in Seq((1 .. Len(rows)) \X Statuses) /\ audits # <<>> /\ UNCHANGED rows
        BY <1>3, CallFacts DEF Audit, At, Shaped
      <3> HIDE DEF audits
      <3> QED
        BY <3>1, EmptySeq
    <2>2. audited' = [audited EXCEPT ![record[1]] = @ \union {record[2]}]
      BY <1>3 DEF Audit
    <2>3. \/ rest = <<>>
          \/ call'[c] = [call[c] EXCEPT !.audits = rest]
      BY <1>3 DEF Audit, Goto, TypeOK
    <2>4. Records(c) = {audits[k] : k \in 1 .. Len(audits)}
      BY CallFacts DEF Records
    <2>5. /\ record = audits[1] /\ rest \in Seq((1 .. Len(rows)) \X Statuses) /\ Len(rest) = Len(audits) - 1
          /\ \A k \in 1 .. Len(rest) : rest[k] = audits[k + 1]
      <3> HIDE DEF audits
      <3> QED
        BY <2>1, HeadTailProperties
    <2>6. rest # <<>> => Records(c)' = {rest[k] : k \in 1 .. Len(rest)}
      <3> HIDE DEF rest
      <3>1. CASE call'[c] = [call[c] EXCEPT !.audits = rest]
        <4>1. call'[c].audits = rest
          BY <3>1, CallFacts DEF Calls
        <4> QED
          BY <2>5, <4>1 DEF Records
      <3> QED
        BY <2>3, <3>1
    <2>7. record \in (1 .. Len(rows)) \X Statuses
      <3> HIDE DEF audits
      <3> QED
        BY <2>1, <2>5
    <2> HIDE DEF record, rest, audits
    <2>8. /\ \A i \in 1 .. Len(rows) : audited[i] \subseteq audited'[i]
          /\ record[2] \in audited'[record[1]]
      BY <2>2, <2>7, RowFacts
    <2>9. \A x \in Records(c) : x = record \/ x \in Records(c)'
      <3> SUFFICES ASSUME NEW k \in 1 .. Len(audits), k # 1 PROVE audits[k] \in Records(c)'
        BY <2>4, <2>5
      <3>1. k - 1 \in 1 .. Len(rest) /\ rest[k - 1] = audits[k]
        BY <2>1, <2>5
      <3>2. rest # <<>>
        BY <3>1
      <3> QED
        BY <2>6, <3>1, <3>2
    <2>10. \A i \in 1 .. Len(rows) : <<i, rows[i].status>> = record => rows[i].status \in audited'[i]
      BY <2>8
    <2> QED
      BY <2>1, <2>8, <2>9, <2>10, RecordsKept
  <1>4. CASE Log(c)
    <2>1. call[c].step = "log" /\ UNCHANGED rows /\ audited' = [audited EXCEPT ![call[c].id] = @ \union {"active"}]
      BY <1>4 DEF Log, At
    <2>2. \A i \in 1 .. Len(rows) : audited[i] \subseteq audited'[i]
      BY <2>1, RowFacts
    <2> QED
      BY <2>1, <2>2, RecordedTurn
  <1>5. CASE UNCHANGED <<rows, audited>> /\ ~Audit(c)
    <2>1. call[c].step # "audit"
      BY <1>5 DEF Step, Insert, Preview, Check, Truncate, Fill, Log, Update, Store, ArchiveNext, ExportNext, At
    <2> QED
      BY <1>5, <2>1, RecordedTurn
  <1> QED
    BY <1>1, <1>2, <1>3, <1>4, <1>5 DEF Step, Preview, Check, Truncate, Fill, Update, ArchiveNext, ExportNext

\* A call that dies leaves at most two changes without a record.
LEMMA RecordedCrash ==
    ASSUME TypeOK, Recorded, NEW c \in Callers, Advances(c), Shaped(c), Crash(c), TypeOK'
    PROVE  Recorded'
  <1> DEFINE one == call[c].audits[1][1]
             two == call[c].audits[2][1]
  <1>1. /\ UNCHANGED <<rows, audited>> /\ crashes' = crashes + 1 /\ crashes \in Nat
        /\ DOMAIN rows = 1 .. Len(rows)
    BY RowFacts DEF Crash, TypeOK
  <1>2. \A x \in Records(c) : x[1] \in {one, two}
    <2>1. Records(c) = {call[c].audits[k] : k \in 1 .. Len(call[c].audits)}
      BY CallFacts DEF Records
    <2>2. \A k \in 1 .. Len(call[c].audits) : k = 1 \/ k = 2
      BY CallFacts DEF Shaped
    <2> QED
      BY <2>1, <2>2
  <1>3. \A d \in Callers \ {c} : Records(d)' = Records(d)
    BY DEF Advances, Records
  <1>4. Unrecorded' \subseteq (Unrecorded \union {one}) \union {two}
    <2> SUFFICES ASSUME NEW i \in Unrecorded', i # one, i # two PROVE i \in Unrecorded
      OBVIOUS
    <2>1. <<i, rows[i].status>> \notin Records(c)
      BY <1>2
    <2> QED
      BY <1>1, <1>3, <2>1 DEF Unrecorded
  <1>5. IsFiniteSet(Unrecorded) /\ Cardinality(Unrecorded) \in Nat
    BY UnrecordedFinite
  <1> HIDE DEF one, two
  <1>6. /\ IsFiniteSet(Unrecorded \union {one})
        /\ Cardinality(Unrecorded \union {one}) \in Nat
        /\ Cardinality(Unrecorded \union {one}) <= Cardinality(Unrecorded) + 1
    <2>1. IsFiniteSet(Unrecorded \union {one})
      BY <1>5, FS_AddElement
    <2>2. Cardinality(Unrecorded \union {one}) \in {Cardinality(Unrecorded), Cardinality(Unrecorded) + 1}
      BY <1>5, FS_AddElement
    <2> QED
      BY <1>5, <2>1, <2>2
  <1>7. /\ IsFiniteSet((Unrecorded \union {one}) \union {two})
        /\ Cardinality((Unrecorded \union {one}) \union {two}) \in Nat
        /\ Cardinality((Unrecorded \union {one}) \union {two}) <= Cardinality(Unrecorded \union {one}) + 1
    BY <1>6, FS_AddElement, FS_CardinalityType
  <1>8. Cardinality(Unrecorded') <= Cardinality((Unrecorded \union {one}) \union {two}) /\ Cardinality(Unrecorded') \in Nat
    BY <1>4, <1>7, FS_Subset, FS_CardinalityType
  <1> QED
    BY <1>1, <1>5, <1>6, <1>7, <1>8 DEF Recorded

\* Nobody forgets to record a change but a call that dies.
LEMMA RecordedActs ==
    ASSUME TypeOK, Recorded, NEW c \in Callers, Advances(c), Shaped(c), Acts(c), TypeOK'
    PROVE  Recorded'
  <1>1. CASE Request(c) \/ Step(c)
    <2>1. Unrecorded' \subseteq Unrecorded
      BY <1>1, RecordedRequest, RecordedStep
    <2>2. IsFiniteSet(Unrecorded) /\ Cardinality(Unrecorded) \in Nat /\ crashes \in Nat
      BY UnrecordedFinite DEF TypeOK
    <2>3. Cardinality(Unrecorded') <= Cardinality(Unrecorded) /\ Cardinality(Unrecorded') \in Nat
      BY <2>1, <2>2, FS_Subset, FS_CardinalityType
    <2>4. UNCHANGED crashes
      BY <1>1 DEF Request, Propose, Automate, Approve, Transition, Replace, Export, counters, Step,
         Insert, Preview, Check, Truncate, Fill, Log, Update, Store, Audit, ArchiveNext, ExportNext
    <2> QED
      BY <2>2, <2>3, <2>4 DEF Recorded
  <1> QED
    BY <1>1, RecordedCrash DEF Acts

-----------------------------------------------------------------------------
(* The invariant is inductive.                                                  *)

\* The ledger that earlier calls left.
LEMMA MemoryInit ==
    Init => MemoryInv
  <1> SUFFICES ASSUME Init PROVE MemoryInv
    OBVIOUS
  <1>1. PICK n \in 0 .. MaxEarlier : \E says \in [1 .. n -> Facts \ Unsafe], kind \in [1 .. n -> Earlier] :
          /\ \A i, j \in 1 .. n : i # j => says[i] # says[j]
          /\ rows = [i \in 1 .. n |-> [NewRow(Says(says[i]), kind[i][1]) EXCEPT !.applied = kind[i][2]]]
          /\ audited = [i \in 1 .. n |-> {kind[i][1]}]
          /\ file = {[id |-> i, content |-> Says(says[i])] : i \in {j \in 1 .. n : kind[j][2] = "yes"}}
          /\ consented = {i \in 1 .. n : kind[i][1] = "active"}
          /\ held = {says[i] : i \in consented}
    BY DEF Init
  <1>2. PICK says \in [1 .. n -> Facts \ Unsafe], kind \in [1 .. n -> Earlier] :
          /\ \A i, j \in 1 .. n : i # j => says[i] # says[j]
          /\ rows = [i \in 1 .. n |-> [NewRow(Says(says[i]), kind[i][1]) EXCEPT !.applied = kind[i][2]]]
          /\ audited = [i \in 1 .. n |-> {kind[i][1]}]
          /\ file = {[id |-> i, content |-> Says(says[i])] : i \in {j \in 1 .. n : kind[j][2] = "yes"}}
          /\ consented = {i \in 1 .. n : kind[i][1] = "active"}
          /\ held = {says[i] : i \in consented}
    BY <1>1
  <1>3. /\ n \in Nat /\ n <= MaxMemories
        /\ call = [c \in Callers |-> Idle] /\ retired = {} /\ spoiled = FALSE
        /\ calls = 0 /\ edits = 0 /\ crashes = 0
    BY BoundsAssumption DEF Init
  <1>4. \A i \in 1 .. n : /\ kind[i][1] \in {"pending", "active"} /\ kind[i][2] \in {"yes", "no"}
                          /\ kind[i][1] = "active" <=> kind[i][2] = "yes"
                          /\ says[i] \in Facts /\ says[i] \notin Unsafe
    BY DEF Earlier
  <1>5. /\ DOMAIN rows = 1 .. n
        /\ \A i \in 1 .. n : /\ rows[i].content = Says(says[i]) /\ rows[i].status = kind[i][1]
                             /\ rows[i].applied = kind[i][2] /\ rows[i].sources = {} /\ rows[i].auto = "no"
    BY <1>2 DEF NewRow
  <1>6. \A i \in 1 .. n : rows[i] \in Rows
    <2> TAKE i \in 1 .. n
    <2>1. rows[i] = [NewRow(Says(says[i]), kind[i][1]) EXCEPT !.applied = kind[i][2]]
      BY <1>2
    <2> DEFINE row == NewRow(Says(says[i]), kind[i][1])
    <2>2. row \in Rows
      BY <1>4, RowCopies DEF Statuses
    <2> HIDE DEF row
    <2>3. [row EXCEPT !.applied = kind[i][2]] \in Rows
      BY <1>4, <2>2 DEF Rows
    <2>4. rows[i] = [row EXCEPT !.applied = kind[i][2]]
      BY <2>1 DEF row
    <2> QED
      BY <2>3, <2>4
  <1>7. rows \in Seq(Rows) /\ Len(rows) = n
    <2>1. rows \in [1 .. n -> Rows]
      BY <1>2, <1>6
    <2> QED
      BY <1>3, <2>1
  <1>8. audited \in Seq(SUBSET Statuses) /\ Len(audited) = n
    <2>1. audited \in [1 .. n -> SUBSET Statuses]
      BY <1>2, <1>4 DEF Statuses
    <2> QED
      BY <1>3, <2>1
  <1>9. \A b \in file : b.id \in 1 .. n /\ b.content = Says(says[b.id]) /\ kind[b.id][2] = "yes" /\ b \in Bullets
    <2> SUFFICES ASSUME NEW i \in 1 .. n, kind[i][2] = "yes"
                 PROVE  [id |-> i, content |-> Says(says[i])] \in Bullets
      BY <1>2
    <2>1. i \in Ids
      BY <1>3, BoundsAssumption DEF Ids
    <2>2. Says(says[i]) \in Contents
      BY <1>4, RowCopies
    <2> QED
      BY <2>1, <2>2 DEF Bullets
  <1>10. TypeOK
    <2>1. file \subseteq Bullets
      BY <1>9
    <2>2. Idle \in Calls(n)
      BY <1>3, CallTypes
    <2>3. consented \subseteq 1 .. n /\ held \subseteq Facts
      BY <1>2, <1>4
    <2>4. 0 \in 0 .. MaxCalls /\ 0 \in Nat /\ 0 + 0 <= MaxFaults
      BY BoundsAssumption
    <2> QED
      BY <1>3, <1>7, <1>8, <2>1, <2>2, <2>3, <2>4 DEF TypeOK
  <1>11. /\ \A i \in 1 .. n : Says(says[i]).summary = FALSE /\ Says(says[i]).facts = {says[i]}
         /\ \A i \in 1 .. n : Allowed(Says(says[i]))
    BY <1>4 DEF Says, Allowed
  <1>12. /\ \A i \in 1 .. n : i \in consented <=> kind[i][1] = "active"
         /\ \A i \in 1 .. n : audited[i] = {kind[i][1]}
         /\ \A f \in held : \E i \in 1 .. n : kind[i][1] = "active" /\ f = says[i]
    BY <1>2
  <1>13. Ledger /\ FactsKept /\ GoodText(file)
    <2>1. ASSUME NEW i \in 1 .. n
          PROVE  Sound(rows[i], i) /\ (rows[i].status = "active" => Cleared(i))
      <3>1. rows[i].content.facts = {says[i]} /\ rows[i].content.summary = FALSE /\ rows[i].sources = {}
        BY <1>5, <1>11
      <3>2. Sound(rows[i], i)
        BY <1>4, <3>1 DEF Sound
      <3>3. rows[i].status = "active" => Cleared(i)
        BY <1>5, <1>12, <3>1 DEF Cleared, Barred
      <3> QED
        BY <3>2, <3>3
    <2>2. Ledger
      BY <1>5, <2>1 DEF Ledger
    <2>3. FactsKept
      <3> SUFFICES ASSUME NEW f \in held PROVE \E i \in Active : f \in rows[i].content.facts
        BY DEF FactsKept
      <3>1. PICK i \in 1 .. n : kind[i][1] = "active" /\ f = says[i]
        BY <1>12
      <3>2. i \in Active /\ rows[i].content.facts = {says[i]}
        BY <1>5, <1>11, <3>1 DEF Active
      <3> QED
        BY <3>1, <3>2
    <2>4. \A b \in file : /\ b.id \in 1 .. n /\ b.id \in consented /\ b.content = rows[b.id].content
                           /\ Allowed(b.content) /\ b.content.facts = {says[b.id]}
      <3> TAKE b \in file
      <3>1. b.id \in 1 .. n /\ b.content = Says(says[b.id]) /\ kind[b.id][2] = "yes"
        BY <1>9
      <3> QED
        BY <1>4, <1>5, <1>11, <1>12, <3>1
    <2>5. ASSUME NEW a \in file, NEW b \in file, a.content = b.content PROVE a.id = b.id
      <3>1. a.id \in 1 .. n /\ b.id \in 1 .. n /\ {says[a.id]} = {says[b.id]}
        BY <2>4, <2>5
      <3>2. says[a.id] = says[b.id]
        BY <3>1
      <3> QED
        BY <1>2, <3>1, <3>2
    <2>6. GoodText(file)
      BY <2>4, <2>5 DEF GoodText, Governed
    <2> QED
      BY <2>2, <2>3, <2>6
  <1>14. Idle.step = "idle" /\ Idle.op = "none" /\ Idle.audits = <<>>
    BY DEF Idle
  <1>15. \A c \in Callers : call[c].step = "idle" /\ call[c].op = "none" /\ call[c].audits = <<>>
    BY <1>3, <1>14
  <1>16. Truthful
    <2>1. ASSUME NEW i \in 1 .. n, rows[i].applied = "yes" PROVE \E b \in file : b.id = i
      <3> DEFINE bullet == [id |-> i, content |-> Says(says[i])]
      <3>1. kind[i][2] = "yes"
        BY <1>5, <2>1
      <3>2. bullet \in file
        BY <1>2, <3>1
      <3> QED
        BY <3>2
    <2> QED
      BY <1>5, <1>15, <2>1 DEF Truthful, Written, At, Claims
  <1>17. Recorded
    <2>1. Unrecorded = {}
      BY <1>5, <1>12 DEF Unrecorded
    <2> QED
      BY <1>3, <2>1, FS_EmptySet DEF Recorded
  <1>18. \A c \in Callers : CallOK(c)
    <2> TAKE c \in Callers
    <2>1. Len(call[c].audits) <= 2
      BY <1>15
    <2> QED
      BY <1>15, <2>1 DEF CallOK, Shaped, Holding, Before, Approving, Exporting, Replaced, Threat, Checked
  <1> QED
    BY <1>10, <1>13, <1>16, <1>17, <1>18 DEF MemoryInv, CallOK

\* What a caller does keeps every part of the invariant.
LEMMA MemoryActs ==
    ASSUME MemoryInv, NEW c \in Callers, Acts(c)
    PROVE  MemoryInv'
  <1>1. TypeOK /\ Ledger /\ FactsKept /\ GoodText(file) /\ Truthful /\ Recorded /\ \A d \in Callers : CallOK(d)
    BY DEF MemoryInv, CallOK
  <1>2. Shaped(c) /\ Approving(c) /\ Exporting(c) /\ Replaced(c)
    BY <1>1 DEF CallOK
  <1>3. TypeOK' /\ Advances(c)
    BY <1>1, <1>2, CallerTypes, RequestAdvances, StepAdvances, CrashAdvances DEF Acts
  <1>4. Ledger' /\ FactsKept'
    BY <1>1, <1>2, LedgerStep, FactsKeptStep
  <1>5. GoodText(file)' /\ Truthful' /\ Recorded'
    BY <1>1, <1>2, <1>3, GoodStep, TruthfulActs, RecordedActs DEF Advances
  <1>6. \A d \in Callers : CallOK(d)'
    BY <1>1, CallsOK
  <1> QED
    BY <1>3, <1>4, <1>5, <1>6 DEF MemoryInv, CallOK

\* So does an edit by hand, which takes bullets away or adds some without a marker.
LEMMA MemoryEdit ==
    ASSUME MemoryInv, Edit
    PROVE  MemoryInv'
  <1>1. TypeOK /\ Ledger /\ FactsKept /\ GoodText(file) /\ Recorded /\ \A d \in Callers : CallOK(d)
    BY DEF MemoryInv, CallOK
  <1>2. UNCHANGED <<rows, audited, call, consented, held, retired, crashes>> /\ spoiled' = TRUE
    BY DEF Edit
  <1>3. TypeOK' /\ GoodText(file)'
    BY <1>1, EditTypes, GoodEdit
  <1>4. Ledger' /\ FactsKept' /\ Recorded' /\ Truthful'
    BY <1>1, <1>2 DEF Ledger, Sound, Cleared, Barred, Allowed, FactsKept, Active, Recorded, Unrecorded, Records, Truthful
  <1>5. Grows
    BY <1>1, <1>2, QuietGrows DEF Quiet, TypeOK
  <1>6. Stays
    BY <1>1, <1>2, <1>5, SameRowsStay
  <1>7. \A d \in Callers : CallOK(d)'
    BY <1>1, <1>2, <1>5, <1>6, OthersKeep
  <1> QED
    BY <1>3, <1>4, <1>7 DEF MemoryInv, CallOK

\* A step that changes nothing keeps the invariant.
LEMMA MemoryStutter ==
    ASSUME MemoryInv, UNCHANGED vars
    PROVE  MemoryInv'
  <1>1. TypeOK /\ Ledger /\ FactsKept /\ GoodText(file) /\ Truthful /\ Recorded /\ \A d \in Callers : CallOK(d)
    BY DEF MemoryInv, CallOK
  <1>2. UNCHANGED <<rows, audited, file, call, consented, held, retired, spoiled, calls, edits, crashes>>
    BY DEF vars, history, counters
  <1>3. TypeOK'
    BY <1>1, <1>2 DEF TypeOK
  <1>4. Ledger' /\ FactsKept' /\ Recorded' /\ GoodText(file)'
    BY <1>1, <1>2 DEF Ledger, Sound, Cleared, Barred, Allowed, FactsKept, Active, Recorded, Unrecorded, Records,
       GoodText, Governed
  <1>5. Truthful'
    BY <1>1, <1>2 DEF Truthful, Written, At, Claims
  <1>6. Grows
    BY <1>1, <1>2, QuietGrows DEF Quiet, TypeOK
  <1>7. Stays
    BY <1>1, <1>2, <1>6, SameRowsStay
  <1>8. \A d \in Callers : CallOK(d)'
    BY <1>1, <1>2, <1>6, <1>7, OthersKeep
  <1> QED
    BY <1>3, <1>4, <1>5, <1>8 DEF MemoryInv, CallOK

-----------------------------------------------------------------------------
(* The theorems.                                                                *)

\* Types, the governance of the file and of every text about to be written to it, the
\* truth of the ledger and what every call knows hold in every state, for any facts,
\* callers and bounds.
THEOREM MemoryInvariant == Spec => []MemoryInv
  <1>1. MemoryInv /\ [Next]_vars => MemoryInv'
    BY MemoryActs, MemoryEdit, MemoryStutter DEF Next, Acts
  <1> QED
    BY <1>1, MemoryInit, PTL DEF Spec

\* approve, replace and the export: what the model reads as memory was consented to, is
\* safe, and no fact has two bullets.
THEOREM GovernedMarkdown == Spec => []MarkdownIsGoverned
  <1>1. MemoryInv => MarkdownIsGoverned
    BY DEF MemoryInv, MarkdownIsGoverned, GoodText
  <1> QED
    BY <1>1, MemoryInvariant, PTL

\* update and record_audit: a row marked as written has its bullet, and every change of
\* status is on record but for two of each call that died.
THEOREM TruthfulLedger == Spec => []LedgerIsTruthful
  <1>1. MemoryInv => AppliedIsWritten
    BY DEF MemoryInv, Truthful, Written, AppliedIsWritten
  <1>2. ASSUME MemoryInv PROVE ChangesAreAudited
    <2> DEFINE silent == {i \in DOMAIN rows : rows[i].status \notin audited[i]}
               under == {i \in DOMAIN rows : \E c \in Callers : \E k \in DOMAIN call[c].audits : call[c].audits[k][1] = i}
    <2>1. silent \ under \subseteq Unrecorded
      <3> SUFFICES ASSUME NEW i \in DOMAIN rows, rows[i].status \notin audited[i],
                          \A c \in Callers : \A k \in DOMAIN call[c].audits : call[c].audits[k][1] # i
                   PROVE  i \in Unrecorded
        OBVIOUS
      <3>1. \A c \in Callers : \A x \in Records(c) : x[1] # i
        BY DEF Records
      <3> QED
        BY <3>1 DEF Unrecorded
    <2>2. IsFiniteSet(Unrecorded) /\ Cardinality(Unrecorded) \in Nat /\ crashes \in Nat
      BY <1>2, UnrecordedFinite DEF MemoryInv, TypeOK
    <2> HIDE DEF silent, under
    <2>3. Cardinality(silent \ under) <= Cardinality(Unrecorded) /\ Cardinality(silent \ under) \in Nat
      BY <2>1, <2>2, FS_Subset, FS_CardinalityType
    <2>4. Cardinality(silent \ under) <= 2 * crashes
      BY <1>2, <2>2, <2>3 DEF MemoryInv, Recorded
    <2> QED
      BY <2>4 DEF ChangesAreAudited, silent, under
  <1> QED
    BY <1>1, <1>2, MemoryInvariant, PTL DEF LedgerIsTruthful

\* merge_apply, compact_apply and _archive_sources_on_approve: automation loses no fact.
THEOREM KeptFacts == Spec => []AutomationKeepsFacts
  <1>1. MemoryInv => AutomationKeepsFacts
    BY DEF MemoryInv, FactsKept, AutomationKeepsFacts
  <1> QED
    BY <1>1, MemoryInvariant, PTL
================================================================================
