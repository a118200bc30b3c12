---------------------------- MODULE DebSecTracker ----------------------------
(***************************************************************************)
(* The ingestion of Debian's list data/CVE/list (internal/debsectracker):  *)
(* the list is read line by line into one transaction on a database that   *)
(* was created empty for this run, and the rows become the verdicts of     *)
(* Debian for a CVE and a source package.                                  *)
(*                                                                         *)
(* A line is known by the first regular expression that matches it, its    *)
(* kind.  The text of notes and of what is not for us is left out.         *)
(***************************************************************************)
EXTENDS Naturals, Sequences

CONSTANTS
    CVEs,         \* the ids in the list
    Temporaries,  \* those of them that end in -XXXX
    Sources,      \* Debian source packages
    Versions,     \* the versions of a source, in their order; 0 is not a version
    Lists,        \* the lists to look at
    NoEntry,      \* no triage entry is open
    Interrupts    \* may the run be cancelled, or the database fail?

\* The version column of a line: a version, or a token in angle brackets.
Tokens == {"not-affected", "unfixed", "end-of-life", "itp", "removed", "undetermined", "other"}

SidField == [token : {"version"}, version : Versions] \cup [token : Tokens, version : {0}]

Kinds == {"header", "not-for-us", "package", "release", "advisory or note", "check",
          "rejected", "reserved", "malformed"}

Line == [kind : Kinds, id : CVEs, source : Sources, sid : SidField]

TriageStatuses == {"UNKNOWN", "TODO", "REJECTED", "NOT-FOR-US", "PROCESSED", "RESERVED"}

PackageRow == [id : CVEs, source : Sources, sid : SidField]
ReleaseRow == [id : CVEs, source : Sources]

Entry == [id : CVEs, status : TriageStatuses,
          packages : Seq(PackageRow), releases : Seq(ReleaseRow)]

ASSUME DebSecTrackerAssumption ==
    /\ Versions \subseteq Nat \ {0}
    /\ Temporaries \subseteq CVEs
    /\ Lists \subseteq [lines : Seq(Line), terminated : BOOLEAN]
    /\ NoEntry \notin Entry
    /\ Interrupts \in BOOLEAN

VARIABLES
    list,    \* the list, and whether its last line ends in a newline
    pos,     \* the next line
    entry,   \* the open triage entry
    tx,      \* the rows of the transaction
    db,      \* the rows of the database
    ingest   \* "reading", "committed" or "failed"

debVars == <<list, pos, entry, tx, db, ingest>>

NoRows == [triage |-> <<>>, packages |-> <<>>, releases |-> <<>>]

DebInit ==
    /\ list \in Lists
    /\ pos = 1 /\ entry = NoEntry
    /\ tx = NoRows /\ db = NoRows
    /\ ingest = "reading"

-----------------------------------------------------------------------------
(* Lines and entries.                                                      *)

\* No regular expression matches a line without its newline.
Matches(i) == (i < Len(list.lines) \/ list.terminated) /\ list.lines[i].kind # "malformed"

\* What a line of an entry makes of its status; the last such line decides.
StatusOf == [k \in {"not-for-us", "package", "release", "check", "rejected", "reserved"} |->
                CASE k = "not-for-us" -> "NOT-FOR-US"
                  [] k = "check"      -> "TODO"
                  [] k = "rejected"   -> "REJECTED"
                  [] k = "reserved"   -> "RESERVED"
                  [] OTHER            -> "PROCESSED"]

Opened(id) == [id |-> id, status |-> "UNKNOWN", packages |-> <<>>, releases |-> <<>>]

Extended(e, line) ==
    LET status == IF line.kind \in DOMAIN StatusOf THEN StatusOf[line.kind] ELSE e.status
        row    == [id |-> e.id, source |-> line.source]
    IN CASE line.kind = "package" ->
              [e EXCEPT !.status = status,
                        !.packages = Append(@, [id |-> e.id, source |-> line.source,
                                                sid |-> line.sid])]
         [] line.kind = "release" ->
              [e EXCEPT !.status = status, !.releases = Append(@, row)]
         [] OTHER -> [e EXCEPT !.status = status]

\* Mutant: entries without a CVE id are stored.
SkippedIfUndisclosed(e) == e.status \in {"RESERVED", "REJECTED"}

\* Entries without a CVE id, reserved ones and rejected ones are not stored.
Skipped(e) == e.id \in Temporaries \/ e.status \in {"RESERVED", "REJECTED"}

\* The id is the primary key of debian_triage.
Insertable(rows, e) == Skipped(e) \/ e.id \notin DOMAIN rows.triage

Inserted(rows, e) ==
    IF Skipped(e) THEN rows
    ELSE [triage   |-> [id \in DOMAIN rows.triage \cup {e.id} |->
                           IF id = e.id THEN e.status ELSE rows.triage[id]],
          packages |-> rows.packages \o e.packages,
          releases |-> rows.releases \o e.releases]

-----------------------------------------------------------------------------
(* The ingestion.                                                          *)

\* Mutant: the entry that is open when the next one begins is dropped.
ReadHeaderDroppingEntry ==
    /\ ingest = "reading" /\ pos <= Len(list.lines) /\ Matches(pos)
    /\ list.lines[pos].kind = "header"
    /\ entry' = Opened(list.lines[pos].id)
    /\ pos' = pos + 1
    /\ UNCHANGED <<list, tx, db, ingest>>

\* A header closes the open entry, which is stored, and opens the next one.
ReadHeader ==
    /\ ingest = "reading" /\ pos <= Len(list.lines) /\ Matches(pos)
    /\ list.lines[pos].kind = "header"
    /\ \/ entry = NoEntry /\ tx' = tx
       \/ entry # NoEntry /\ Insertable(tx, entry) /\ tx' = Inserted(tx, entry)
    /\ entry' = Opened(list.lines[pos].id)
    /\ pos' = pos + 1
    /\ UNCHANGED <<list, db, ingest>>

ReadContent ==
    /\ ingest = "reading" /\ pos <= Len(list.lines) /\ Matches(pos)
    /\ list.lines[pos].kind # "header"
    /\ entry # NoEntry
    /\ entry' = Extended(entry, list.lines[pos])
    /\ pos' = pos + 1
    /\ UNCHANGED <<list, tx, db, ingest>>

\* The end of the list: the last entry is stored, and everything committed.
Commit ==
    /\ ingest = "reading" /\ pos > Len(list.lines)
    /\ entry # NoEntry /\ Insertable(tx, entry)
    /\ tx' = Inserted(tx, entry)
    /\ db' = tx' /\ ingest' = "committed"
    /\ UNCHANGED <<list, pos, entry>>

\* What ends the ingestion with an error, or, for an empty list, with a panic:
\* processTriage dereferences the entry that was never opened.
Unreadable ==
    IF pos > Len(list.lines)
    THEN entry # NoEntry => ~Insertable(tx, entry)
    ELSE \/ ~Matches(pos)
         \/ entry = NoEntry /\ list.lines[pos].kind # "header"
         \/ entry # NoEntry /\ list.lines[pos].kind = "header" /\ ~Insertable(tx, entry)

\* The deferred rollback leaves the database as it was.
IngestionFails ==
    /\ ingest = "reading" /\ (Interrupts \/ Unreadable)
    /\ tx' = db /\ ingest' = "failed"
    /\ UNCHANGED <<list, pos, entry, db>>

IngestTriage == ReadHeader \/ ReadContent \/ Commit \/ IngestionFails

DebSpec == DebInit /\ [][IngestTriage]_debVars

-----------------------------------------------------------------------------
(* The verdicts.                                                           *)

RowsOf(id) == {i \in 1..Len(db.packages) : db.packages[i].id = id}

AssignedSources(id) == {db.packages[i].source : i \in RowsOf(id)}

\* Mutant: the first row for a source counts.
SidFirst(id, source) ==
    LET rows == {i \in RowsOf(id) : db.packages[i].source = source}
    IN IF rows = {} THEN [token |-> "no-entry", version |-> 0]
       ELSE db.packages[CHOOSE i \in rows : \A j \in rows : i <= j].sid

\* The index keeps one row for each source, the last.
Sid(id, source) ==
    LET rows == {i \in RowsOf(id) : db.packages[i].source = source}
    IN IF rows = {} THEN [token |-> "no-entry", version |-> 0]
       ELSE db.packages[CHOOSE i \in rows : \A j \in rows : j <= i].sid

\* Verdict.Status of VerdictFromSid.
VerdictStatus(sid) ==
    CASE sid.token = "version"                      -> "fixed"
      [] sid.token = "not-affected"                 -> "not-affected"
      [] sid.token \in {"unfixed", "end-of-life"}   -> "affected-no-fix"
      [] OTHER                                      -> "undecided"

-----------------------------------------------------------------------------
(* What the list says, read as a whole.                                    *)

Headers == {i \in 1..Len(list.lines) : list.lines[i].kind = "header"}

HeaderOf(i) == CHOOSE h \in Headers : h <= i /\ \A g \in Headers : g <= i => g <= h

BlockOf(h) == {i \in 1..Len(list.lines) : i > h /\ HeaderOf(i) = h}

StatusOfBlock(h) ==
    LET deciding == {i \in BlockOf(h) : list.lines[i].kind \in DOMAIN StatusOf}
    IN IF deciding = {} THEN "UNKNOWN"
       ELSE StatusOf[list.lines[CHOOSE i \in deciding : \A j \in deciding : j <= i].kind]

Disclosed == {h \in Headers : /\ list.lines[h].id \notin Temporaries
                              /\ StatusOfBlock(h) \notin {"RESERVED", "REJECTED"}}

ListedTriage ==
    [id \in {list.lines[h].id : h \in Disclosed} |->
        StatusOfBlock(CHOOSE h \in Disclosed : list.lines[h].id = id)]

\* The lines of a kind in the disclosed entries, and the row that each of them asks for.
ListedLines(kind) ==
    {i \in 1..Len(list.lines) : list.lines[i].kind = kind /\ HeaderOf(i) \in Disclosed}

PackageRowAt(i) == [id     |-> list.lines[HeaderOf(i)].id,
                    source |-> list.lines[i].source,
                    sid    |-> list.lines[i].sid]

ReleaseRowAt(i) == [id |-> list.lines[HeaderOf(i)].id, source |-> list.lines[i].source]

\* The rows are those of the lines in the domain of row: one for each, in their order.
InOrder(rows, row) ==
    \E at \in [1..Len(rows) -> DOMAIN row] :
        /\ \A n \in 1..Len(rows) : rows[n] = row[at[n]]
        /\ \A m, n \in 1..Len(rows) : m < n => at[m] < at[n]
        /\ \A i \in DOMAIN row : \E n \in 1..Len(rows) : at[n] = i

\* The database is empty until the whole list is in it: every disclosed entry with
\* the status of its last line, and every package line of it, in their order.  No
\* run goes on with part of a list.
RowsMatchList ==
    IF ingest = "committed"
    THEN /\ db.triage = ListedTriage
         /\ InOrder(db.packages, [i \in ListedLines("package") |-> PackageRowAt(i)])
         /\ InOrder(db.releases, [i \in ListedLines("release") |-> ReleaseRowAt(i)])
    ELSE db = NoRows
===============================================================================
