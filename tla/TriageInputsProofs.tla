-------------------------- MODULE TriageInputsProofs --------------------------
(***************************************************************************)
(* The two inputs of a decision, proved on their own: what the ingestion   *)
(* takes from Debian's list (DebSecTracker), and what the feed takes from  *)
(* the releases (ShippedSources).                                          *)
(***************************************************************************)
EXTENDS DebSecTracker, ShippedSources, WellFoundedInduction, TLAPS

(***************************************************************************)
(* The ingestion of Debian's list, for every list.                         *)
(*                                                                         *)
(* The ingestion reads the list once, from the first line to the last,     *)
(* while RowsMatchList reads it as a whole: which header a line stands     *)
(* under, which line decides the status of an entry.  The invariant says   *)
(* what the transaction and the open entry amount to when the lines before *)
(* pos are read, in the terms of the property: the transaction holds the   *)
(* entries closed by then (RowsUpTo), the open entry the lines since its   *)
(* header (EntryUpTo).  That a set of lines has a last one is the least    *)
(* number principle (LeastNumber).                                         *)
(***************************************************************************)

-----------------------------------------------------------------------------
(* Numbers.                                                                *)

\* Every set of numbers that is not empty has a least one.
LEMMA LeastNumber ==
    ASSUME NEW T \in SUBSET Nat, T # {}
    PROVE  \E x \in T : \A y \in T : x <= y
<1> DEFINE R == OpToRel(<, Nat)
<1>1. R = {ss \in Nat \X Nat : ss[1] < ss[2]}
  BY Zenon DEF OpToRel
<1>2. IsWellFoundedOn(R, Nat)
  BY NatLessThanWellFounded
<1> HIDE DEF R
<1>3. \E x \in T : \A y \in T : ~(<<y, x>> \in R)
  BY <1>2, WFMin
<1>4. ASSUME NEW x \in Nat, NEW y \in Nat, ~(<<y, x>> \in R)
      PROVE  x <= y
  BY <1>1, <1>4
<1>5. QED
  BY <1>3, <1>4

\* Every set of positions of a sequence that is not empty has a last one.
LEMMA LastPosition ==
    ASSUME NEW N \in Nat, NEW T \in SUBSET (1..N), T # {}
    PROVE  \E x \in T : \A y \in T : y <= x
<1> DEFINE U == {n \in Nat : N - n \in T}
<1>1. U \in SUBSET Nat /\ U # {}
  <2>1. PICK x \in T : TRUE
    OBVIOUS
  <2>2. N - x \in Nat /\ N - (N - x) = x
    OBVIOUS
  <2>3. N - x \in U
    BY <2>1, <2>2
  <2>4. QED
    BY <2>3
<1>2. PICK m \in U : \A n \in U : m <= n
  BY <1>1, LeastNumber
<1>3. m \in Nat /\ N - m \in T
  BY <1>2
<1>4. ASSUME NEW y \in T
      PROVE  y <= N - m
  <2>1. N - y \in U
    OBVIOUS
  <2>2. m <= N - y
    BY <2>1, <1>2
  <2> HIDE DEF U
  <2>3. y \in Nat
    OBVIOUS
  <2>4. QED
    BY <2>2, <2>3, <1>3
<1>5. QED
  BY <1>3, <1>4

-----------------------------------------------------------------------------
(* Rows in the order of the lines.                                         *)

\* No rows for no lines.
LEMMA NothingInOrder ==
    ASSUME NEW row, DOMAIN row = {}
    PROVE  InOrder(<<>>, row)
<1> DEFINE at == [n \in 1..0 |-> n]
<1>1. Len(<<>>) = 0 /\ \A n : n \notin 1..0
  OBVIOUS
<1>2. at \in [1..Len(<<>>) -> DOMAIN row]
  BY <1>1
<1>3. QED
  BY <1>1, <1>2 DEF InOrder

\* The same lines ask for the same rows.
LEMMA SameInOrder ==
    ASSUME NEW rows, NEW row, NEW new, InOrder(rows, row),
           DOMAIN new = DOMAIN row, \A i \in DOMAIN row : new[i] = row[i]
    PROVE  InOrder(rows, new)
  BY DEF InOrder

\* One more line after all others.
LEMMA AppendInOrder ==
    ASSUME NEW S, NEW rows \in Seq(S), NEW x \in S, NEW j \in Nat, NEW row, NEW new,
           InOrder(rows, row),
           DOMAIN row \subseteq Nat, \A i \in DOMAIN row : i < j,
           DOMAIN new = DOMAIN row \cup {j},
           \A i \in DOMAIN row : new[i] = row[i],
           new[j] = x
    PROVE  InOrder(Append(rows, x), new)
<1> DEFINE N == Len(rows)
<1>1. PICK at \in [1..N -> DOMAIN row] :
        /\ \A n \in 1..N : rows[n] = row[at[n]]
        /\ \A m, n \in 1..N : m < n => at[m] < at[n]
        /\ \A i \in DOMAIN row : \E n \in 1..N : at[n] = i
  BY DEF InOrder
<1> DEFINE more == [n \in 1..(N + 1) |-> IF n = N + 1 THEN j ELSE at[n]]
<1>2. /\ N \in Nat /\ Len(Append(rows, x)) = N + 1
      /\ Append(rows, x)[N + 1] = x /\ \A n \in 1..N : Append(rows, x)[n] = rows[n]
  OBVIOUS
<1> HIDE DEF N
<1>3. /\ more[N + 1] = j /\ \A n \in 1..N : more[n] = at[n] /\ at[n] \in DOMAIN row
      /\ 1..(N + 1) = 1..N \cup {N + 1} /\ \A n \in 1..N : n # N + 1 /\ ~(N + 1 < n)
  BY <1>2
<1>4. more \in [1..(N + 1) -> DOMAIN new]
  BY <1>3
<1> HIDE DEF more
<1>5. \A n \in 1..(N + 1) : Append(rows, x)[n] = new[more[n]]
  BY <1>1, <1>2, <1>3
<1>6. \A m, n \in 1..(N + 1) : m < n => more[m] < more[n]
  <2>1. ASSUME NEW m \in 1..N, NEW n \in 1..N, m < n PROVE more[m] < more[n]
    BY <1>1, <1>3, <2>1
  <2>2. ASSUME NEW m \in 1..N PROVE more[m] < more[N + 1]
    BY <1>3
  <2>3. ~(N + 1 < N + 1)
    BY <1>2
  <2>4. QED
    BY <2>1, <2>2, <2>3, <1>3
<1>7. ASSUME NEW i \in DOMAIN new
      PROVE  \E n \in 1..(N + 1) : more[n] = i
  <2>1. CASE i = j
    BY <1>3, <2>1
  <2>2. CASE i # j
    <3>1. PICK n \in 1..N : at[n] = i
      BY <1>1, <2>2
    <3>2. QED
      BY <1>3, <3>1
  <2>3. QED
    BY <2>1, <2>2
<1> DEFINE all == Append(rows, x)
<1>8. Len(all) = N + 1 /\ \A n \in 1..(N + 1) : all[n] = new[more[n]]
  BY <1>2, <1>5
<1> HIDE DEF all
<1>9. InOrder(all, new)
  <2>1. /\ more \in [1..Len(all) -> DOMAIN new]
        /\ \A n \in 1..Len(all) : all[n] = new[more[n]]
        /\ \A m, n \in 1..Len(all) : m < n => more[m] < more[n]
        /\ \A i \in DOMAIN new : \E n \in 1..Len(all) : more[n] = i
    BY <1>4, <1>6, <1>7, <1>8
  <2>2. QED
    BY <2>1 DEF InOrder
<1>10. QED
  BY <1>9 DEF all

\* The lines of a later part of the list come after those of an earlier one.
LEMMA ConcatenateInOrder ==
    ASSUME NEW S, NEW rows \in Seq(S), NEW rows2 \in Seq(S), NEW row, NEW row2, NEW new,
           InOrder(rows, row), InOrder(rows2, row2),
           DOMAIN row \subseteq Nat, DOMAIN row2 \subseteq Nat,
           \A i \in DOMAIN row, j \in DOMAIN row2 : i < j,
           DOMAIN new = DOMAIN row \cup DOMAIN row2,
           \A i \in DOMAIN row : new[i] = row[i],
           \A j \in DOMAIN row2 : new[j] = row2[j]
    PROVE  InOrder(rows \o rows2, new)
<1> DEFINE N == Len(rows)  M == Len(rows2)
<1>1. PICK at \in [1..N -> DOMAIN row] :
        /\ \A n \in 1..N : rows[n] = row[at[n]]
        /\ \A m, n \in 1..N : m < n => at[m] < at[n]
        /\ \A i \in DOMAIN row : \E n \in 1..N : at[n] = i
  BY DEF InOrder
<1>2. PICK at2 \in [1..M -> DOMAIN row2] :
        /\ \A n \in 1..M : rows2[n] = row2[at2[n]]
        /\ \A m, n \in 1..M : m < n => at2[m] < at2[n]
        /\ \A i \in DOMAIN row2 : \E n \in 1..M : at2[n] = i
  BY DEF InOrder
<1> DEFINE more == [n \in 1..(N + M) |-> IF n <= N THEN at[n] ELSE at2[n - N]]
           all  == rows \o rows2
<1>3. /\ N \in Nat /\ M \in Nat /\ Len(all) = N + M
      /\ \A n \in 1..N : all[n] = rows[n]
      /\ \A n \in (N + 1)..(N + M) : all[n] = rows2[n - N]
  OBVIOUS
<1> HIDE DEF N, M, all
<1>4. /\ 1..(N + M) = 1..N \cup (N + 1)..(N + M)
      /\ \A n \in 1..N : n <= N
      /\ \A n \in (N + 1)..(N + M) : ~(n <= N) /\ n - N \in 1..M
      /\ \A n \in 1..M : N + n \in (N + 1)..(N + M) /\ (N + n) - N = n
      /\ \A n \in 1..N, m \in (N + 1)..(N + M) : ~(m < n)
      /\ \A n, m \in (N + 1)..(N + M) : n < m => n - N < m - N
  <2>1. N \in Nat /\ M \in Nat
    BY <1>3
  <2>2. 1..(N + M) = 1..N \cup (N + 1)..(N + M)
    BY <2>1
  <2>3. /\ \A n \in 1..N : n <= N
        /\ \A n \in (N + 1)..(N + M) : ~(n <= N) /\ n - N \in 1..M
        /\ \A n \in 1..M : N + n \in (N + 1)..(N + M) /\ (N + n) - N = n
    BY <2>1
  <2>4. /\ \A n \in 1..N, m \in (N + 1)..(N + M) : ~(m < n)
        /\ \A n, m \in (N + 1)..(N + M) : n < m => n - N < m - N
    BY <2>1
  <2>5. QED
    BY <2>2, <2>3, <2>4
<1>5. /\ \A n \in 1..N : more[n] = at[n] /\ at[n] \in DOMAIN row
      /\ \A n \in (N + 1)..(N + M) : more[n] = at2[n - N] /\ at2[n - N] \in DOMAIN row2
  BY <1>4
<1>6. more \in [1..(N + M) -> DOMAIN new]
  BY <1>4, <1>5
<1> HIDE DEF more
<1>7. \A n \in 1..(N + M) : all[n] = new[more[n]]
  <2>1. ASSUME NEW n \in 1..N PROVE all[n] = new[more[n]]
    <3>1. all[n] = row[at[n]] /\ more[n] = at[n] /\ at[n] \in DOMAIN row
      BY <1>1, <1>3, <1>5
    <3>2. new[at[n]] = row[at[n]]
      BY <3>1
    <3>3. QED
      BY <3>1, <3>2
  <2>2. ASSUME NEW n \in (N + 1)..(N + M) PROVE all[n] = new[more[n]]
    <3> DEFINE k == n - N
    <3>1. k \in 1..M /\ all[n] = rows2[k] /\ more[n] = at2[k]
      BY <1>3, <1>4, <1>5
    <3> HIDE DEF k
    <3>2. rows2[k] = row2[at2[k]] /\ at2[k] \in DOMAIN row2
      BY <1>2, <3>1
    <3>3. QED
      BY <3>1, <3>2
  <2>3. QED
    BY <2>1, <2>2, <1>4
<1>8. \A m, n \in 1..(N + M) : m < n => more[m] < more[n]
  <2>1. ASSUME NEW m \in 1..N, NEW n \in 1..N, m < n PROVE more[m] < more[n]
    BY <1>1, <1>5, <2>1
  <2>2. ASSUME NEW m \in 1..N, NEW n \in (N + 1)..(N + M) PROVE more[m] < more[n]
    BY <1>5
  <2>3. ASSUME NEW m \in (N + 1)..(N + M), NEW n \in (N + 1)..(N + M), m < n
        PROVE  more[m] < more[n]
    BY <1>2, <1>4, <1>5, <2>3
  <2>4. QED
    BY <2>1, <2>2, <2>3, <1>4
<1>9. \A i \in DOMAIN new : \E n \in 1..(N + M) : more[n] = i
  <2>1. ASSUME NEW i \in DOMAIN row PROVE \E n \in 1..(N + M) : more[n] = i
    BY <1>1, <1>4, <1>5
  <2>2. ASSUME NEW i \in DOMAIN row2 PROVE \E n \in 1..(N + M) : more[n] = i
    <3>1. PICK n \in 1..M : at2[n] = i
      BY <1>2
    <3>2. N + n \in 1..(N + M) /\ more[N + n] = i
      BY <3>1, <1>4, <1>5
    <3>3. QED
      BY <3>2
  <2>3. QED
    BY <2>1, <2>2
<1>10. InOrder(all, new)
  <2>1. Len(all) = N + M
    BY <1>3
  <2>2. /\ more \in [1..Len(all) -> DOMAIN new]
        /\ \A n \in 1..Len(all) : all[n] = new[more[n]]
        /\ \A m, n \in 1..Len(all) : m < n => more[m] < more[n]
        /\ \A i \in DOMAIN new : \E n \in 1..Len(all) : more[n] = i
    BY <1>6, <1>7, <1>8, <1>9, <2>1
  <2>3. QED
    BY <2>2 DEF InOrder
<1>11. QED
  BY <1>10 DEF all

-----------------------------------------------------------------------------
(* The invariant.                                                          *)

Lines == 1..Len(list.lines)

IsRows(rows) ==
    /\ rows = [triage |-> rows.triage, packages |-> rows.packages, releases |-> rows.releases]
    /\ rows.triage = [id \in DOMAIN rows.triage |-> rows.triage[id]]
    /\ DOMAIN rows.triage \subseteq CVEs \ Temporaries
    /\ rows.packages \in Seq(PackageRow)
    /\ rows.releases \in Seq(ReleaseRow)

DebTypeOK ==
    /\ list \in Lists
    /\ pos \in 1..(Len(list.lines) + 1)
    /\ entry \in Entry \cup {NoEntry}
    /\ IsRows(tx) /\ IsRows(db)
    /\ ingest \in {"reading", "committed", "failed"}

\* The rows that the package and the release lines among some lines ask for.
PackagesAt(D) == [i \in {j \in D : list.lines[j].kind = "package"} |-> PackageRowAt(i)]
ReleasesAt(D) == [i \in {j \in D : list.lines[j].kind = "release"} |-> ReleaseRowAt(i)]

\* The status is what the last of some lines that decides makes of it.
StatusIs(status, D) ==
    LET deciding == {i \in D : list.lines[i].kind \in DOMAIN StatusOf}
    IN IF deciding = {} THEN status = "UNKNOWN"
       ELSE \E i \in deciding : /\ \A j \in deciding : j <= i
                               /\ status = StatusOf[list.lines[i].kind]

\* The open entry, when the lines after its header h and before p are read.
EntryUpTo(e, h, p) ==
    /\ e \in Entry /\ e.id = list.lines[h].id
    /\ StatusIs(e.status, (h + 1)..(p - 1))
    /\ InOrder(e.packages, PackagesAt((h + 1)..(p - 1)))
    /\ InOrder(e.releases, ReleasesAt((h + 1)..(p - 1)))

DisclosedBefore(p) == {i \in Lines : i < p /\ HeaderOf(i) \in Disclosed}

\* The stored rows, when the entries whose header is before p are closed.
RowsUpTo(rows, p) ==
    /\ IsRows(rows)
    /\ DOMAIN rows.triage = {list.lines[g].id : g \in {f \in Disclosed : f < p}}
    /\ \A g \in Disclosed : g < p => rows.triage[list.lines[g].id] = StatusOfBlock(g)
    /\ \A f, g \in Disclosed :
          f < p /\ g < p /\ list.lines[f].id = list.lines[g].id => f = g
    /\ InOrder(rows.packages, PackagesAt(DisclosedBefore(p)))
    /\ InOrder(rows.releases, ReleasesAt(DisclosedBefore(p)))

ReadingInv ==
    ingest = "reading" =>
        /\ db = NoRows
        /\ entry = NoEntry => pos = 1 /\ tx = NoRows
        /\ entry # NoEntry => /\ pos > 1 /\ 1 \in Headers
                              /\ EntryUpTo(entry, HeaderOf(pos - 1), pos)
                              /\ RowsUpTo(tx, HeaderOf(pos - 1))

DoneInv ==
    /\ ingest = "committed" => 1 \in Headers /\ RowsUpTo(db, Len(list.lines) + 1)
    /\ ingest = "failed" => db = NoRows

DebInv == DebTypeOK /\ ReadingInv /\ DoneInv

-----------------------------------------------------------------------------
(* Headers and their lines.                                                *)

\* The lines are lines.
LEMMA ListOfLines ==
    ASSUME list \in Lists
    PROVE  list.lines \in Seq(Line) /\ Len(list.lines) \in Nat
  BY DebSecTrackerAssumption

\* When the first line is a header, every line stands under the last header before it.
LEMMA HeaderOfLine ==
    ASSUME list \in Lists, 1 \in Headers, NEW i \in Lines
    PROVE  /\ HeaderOf(i) \in Headers /\ HeaderOf(i) <= i
           /\ \A g \in Headers : g <= i => g <= HeaderOf(i)
<1> DEFINE N == Len(list.lines)
           T == {g \in Headers : g <= i}
<1>1. N \in Nat /\ i \in 1..N
  BY ListOfLines DEF Lines
<1>2. T \in SUBSET (1..N) /\ T # {}
  BY <1>1 DEF Headers
<1>3. PICK h \in T : \A g \in T : g <= h
  <2> HIDE DEF N, T
  <2>1. QED
    BY <1>1, <1>2, LastPosition
<1>4. \E k \in Headers : k <= i /\ \A g \in Headers : g <= i => g <= k
  BY <1>3
<1>5. QED
  BY <1>4 DEF HeaderOf

\* There is but one such header.
LEMMA TheHeader ==
    ASSUME list \in Lists, 1 \in Headers, NEW i \in Lines,
           NEW h \in Headers, h <= i, \A g \in Headers : g <= i => g <= h
    PROVE  HeaderOf(i) = h
<1>1. HeaderOf(i) \in Headers /\ HeaderOf(i) <= i /\ h <= HeaderOf(i) /\ HeaderOf(i) <= h
  BY HeaderOfLine
<1>2. h \in Nat /\ HeaderOf(i) \in Nat
  BY <1>1, ListOfLines DEF Headers
<1>3. QED
  BY <1>1, <1>2

\* The lines between a header and the next one, or the end of the list, are its block.
LEMMA Block ==
    ASSUME list \in Lists, 1 \in Headers, NEW h \in Headers,
           NEW p \in 2..(Len(list.lines) + 1), h < p,
           \A g \in Headers : g < p => g <= h,
           p \in Lines => p \in Headers
    PROVE  /\ \A i \in h..(p - 1) : i \in Lines /\ HeaderOf(i) = h
           /\ BlockOf(h) = (h + 1)..(p - 1)
<1>1. Len(list.lines) \in Nat /\ Headers \subseteq Lines /\ Lines \subseteq Nat
  BY ListOfLines DEF Headers, Lines
<1>2. ASSUME NEW i \in h..(p - 1)
      PROVE  i \in Lines /\ HeaderOf(i) = h
  <2>1. i \in Lines /\ h <= i /\ i < p
    BY <1>1 DEF Lines
  <2>2. \A g \in Headers : g <= i => g <= h
    BY <2>1, <1>1
  <2>3. QED
    BY <2>1, <2>2, TheHeader
<1>3. ASSUME NEW i \in Lines, i >= p
      PROVE  HeaderOf(i) # h
  <2>1. p \in Headers /\ p <= i
    BY <1>1, <1>3 DEF Lines
  <2>2. p <= HeaderOf(i) /\ HeaderOf(i) \in Nat
    BY <2>1, <1>1, HeaderOfLine
  <2>3. QED
    BY <2>2, <1>1
<1>4. \A i \in Lines : i > h /\ HeaderOf(i) = h <=> i \in (h + 1)..(p - 1)
  BY <1>1, <1>2, <1>3 DEF Lines
<1>5. (h + 1)..(p - 1) \subseteq Lines
  BY <1>1, <1>2
<1>6. QED
  BY <1>2, <1>4, <1>5 DEF BlockOf, Lines

\* A status that is that of a block is the status of the block.
LEMMA StatusOfTheBlock ==
    ASSUME NEW h, NEW status, NEW p \in Nat, NEW q \in Nat, BlockOf(h) = q..p, StatusIs(status, q..p)
    PROVE  StatusOfBlock(h) = status
<1> DEFINE deciding == {i \in q..p : list.lines[i].kind \in DOMAIN StatusOf}
<1>1. CASE deciding = {}
  BY <1>1 DEF StatusOfBlock, StatusIs
<1>2. CASE deciding # {}
  <2>1. PICK i \in deciding : /\ \A j \in deciding : j <= i
                              /\ status = StatusOf[list.lines[i].kind]
    BY <1>2 DEF StatusIs
  <2> DEFINE last == CHOOSE k \in deciding : \A j \in deciding : j <= k
  <2>2. last \in deciding /\ \A j \in deciding : j <= last
    BY <2>1
  <2>3. StatusOfBlock(h) = StatusOf[list.lines[last].kind]
    BY <1>2 DEF StatusOfBlock
  <2> HIDE DEF last
  <2>4. last <= i /\ i <= last /\ last \in Nat /\ i \in Nat
    BY <2>1, <2>2
  <2>5. last = i
    BY <2>4
  <2>6. QED
    BY <2>1, <2>3, <2>5
<1>3. QED
  BY <1>1, <1>2

\* What is said of the list stays true while the list stays.
LEMMA SameList ==
    ASSUME list' = list
    PROVE  /\ Headers' = Headers /\ Lines' = Lines
           /\ \A i : HeaderOf(i)' = HeaderOf(i)
           /\ Disclosed' = Disclosed
           /\ \A g : StatusOfBlock(g)' = StatusOfBlock(g)
<1>1. Headers' = Headers /\ Lines' = Lines
  BY DEF Headers, Lines
<1>2. ASSUME NEW i
      PROVE  HeaderOf(i)' = HeaderOf(i)
  BY <1>1 DEF HeaderOf
<1>3. ASSUME NEW g
      PROVE  BlockOf(g)' = BlockOf(g)
  BY <1>2 DEF BlockOf
<1>4. ASSUME NEW g
      PROVE  StatusOfBlock(g)' = StatusOfBlock(g)
  <2> DEFINE deciding == {i \in BlockOf(g) : list.lines[i].kind \in DOMAIN StatusOf}
  <2>1. deciding' = deciding
    BY <1>3
  <2>2. /\ StatusOfBlock(g) =
             IF deciding = {} THEN "UNKNOWN"
             ELSE StatusOf[list.lines[CHOOSE i \in deciding : \A j \in deciding : j <= i].kind]
        /\ StatusOfBlock(g)' =
             IF deciding' = {} THEN "UNKNOWN"
             ELSE StatusOf[list.lines[CHOOSE i \in deciding' : \A j \in deciding' : j <= i].kind]
    BY DEF StatusOfBlock
  <2> HIDE DEF deciding
  <2>3. QED
    BY <2>1, <2>2
<1>5. Disclosed' = Disclosed
  BY <1>1, <1>4 DEF Disclosed
<1>6. QED
  BY <1>1, <1>2, <1>4, <1>5

\* Nor do the rows that its lines ask for change.
LEMMA SameRows ==
    ASSUME list' = list, NEW D
    PROVE  PackagesAt(D)' = PackagesAt(D) /\ ReleasesAt(D)' = ReleasesAt(D)
  BY SameList DEF PackagesAt, ReleasesAt, PackageRowAt, ReleaseRowAt

\* What a step makes of the open entry is the open entry of the next state.
LEMMA NextEntry ==
    ASSUME list' = list, NEW e, NEW h, NEW p, entry' = e, pos' = p, HeaderOf(p - 1) = h,
           EntryUpTo(e, h, p)
    PROVE  EntryUpTo(entry, HeaderOf(pos - 1), pos)'
<1>1. HeaderOf(pos - 1)' = h
  BY SameList DEF HeaderOf
<1>2. QED
  BY <1>1, SameRows DEF EntryUpTo, StatusIs

\* What a step makes of the stored rows are the stored rows of the next state.
LEMMA NextRows ==
    ASSUME list' = list, NEW rows, NEW h, NEW p, pos' = p, HeaderOf(p - 1) = h,
           tx' = rows, RowsUpTo(rows, h)
    PROVE  RowsUpTo(tx, HeaderOf(pos - 1))'
<1>1. HeaderOf(pos - 1)' = h
  BY SameList DEF HeaderOf
<1>2. DisclosedBefore(h)' = DisclosedBefore(h)
  BY SameList DEF DisclosedBefore
<1>3. DisclosedBefore(HeaderOf(pos - 1))' = DisclosedBefore(h)
  BY <1>1, SameList DEF DisclosedBefore
<1>4. QED
  BY <1>1, <1>3, SameRows, SameList DEF RowsUpTo, IsRows

\* The rows of an entry that is closed join those of the entries before it.
LEMMA Closing ==
    ASSUME DebTypeOK, ReadingInv, ingest = "reading", entry # NoEntry,
           pos \in Lines => pos \in Headers,
           Insertable(tx, entry)
    PROVE  RowsUpTo(Inserted(tx, entry), pos)
<1> DEFINE h == HeaderOf(pos - 1)
           block == (h + 1)..(pos - 1)
<1>1. /\ list \in Lists /\ 1 \in Headers /\ pos > 1 /\ EntryUpTo(entry, h, pos) /\ RowsUpTo(tx, h)
      /\ IsRows(tx) /\ entry \in Entry
  BY DEF DebTypeOK, ReadingInv
<1>2. /\ Len(list.lines) \in Nat /\ Headers \subseteq Lines /\ Lines \subseteq Nat
      /\ pos \in 2..(Len(list.lines) + 1) /\ pos - 1 \in Lines
  BY <1>1, ListOfLines DEF Headers, Lines, DebTypeOK
<1>3. h \in Headers /\ h <= pos - 1 /\ \A g \in Headers : g <= pos - 1 => g <= h
  BY <1>1, <1>2, HeaderOfLine
<1> HIDE DEF h
<1>4. h \in Nat /\ h < pos /\ \A g \in Headers : g < pos => g <= h
  BY <1>2, <1>3
<1>5. /\ \A i \in h..(pos - 1) : i \in Lines /\ HeaderOf(i) = h
      /\ BlockOf(h) = block
  BY <1>1, <1>2, <1>3, <1>4, Block
<1>6. StatusOfBlock(h) = entry.status
  <2>1. h + 1 \in Nat /\ pos - 1 \in Nat
    BY <1>2, <1>4
  <2>2. StatusIs(entry.status, block)
    BY <1>1 DEF EntryUpTo
  <2>3. QED
    BY <1>5, <2>1, <2>2, StatusOfTheBlock
<1>7. h \in Disclosed <=> ~Skipped(entry)
  BY <1>1, <1>3, <1>6 DEF Disclosed, Skipped, EntryUpTo
<1>8. /\ Disclosed \subseteq Headers
      /\ \A g \in Disclosed : g < pos <=> g < h \/ g = h
  <2>1. Disclosed \subseteq Headers
    BY DEF Disclosed
  <2>2. \A g \in Headers : g \in Nat /\ (g < pos => g <= h)
    BY <1>2, <1>4
  <2>3. \A g \in Headers : g < pos <=> g < h \/ g = h
    BY <1>2, <1>4, <2>2
  <2>4. QED
    BY <2>1, <2>3
<1>9. /\ \A i \in Lines : i < pos <=> i < h \/ i \in h..(pos - 1)
      /\ Lines \subseteq Nat /\ block \subseteq Nat
  <2>1. \A i \in Nat : i < pos <=> i < h \/ i \in h..(pos - 1)
    BY <1>2, <1>4
  <2>2. block \subseteq Nat
    BY <1>2, <1>4
  <2>3. QED
    BY <2>1, <2>2, <1>2
<1>10. CASE Skipped(entry)
  <2>1. h \notin Disclosed /\ Inserted(tx, entry) = tx
    BY <1>7, <1>10 DEF Inserted
  <2>2. DisclosedBefore(pos) = DisclosedBefore(h)
    BY <2>1, <1>5, <1>9 DEF DisclosedBefore
  <2>3. \A g \in Disclosed : g < pos <=> g < h
    BY <2>1, <1>8
  <2>4. {f \in Disclosed : f < pos} = {f \in Disclosed : f < h}
    BY <2>3
  <2>5. QED
    BY <1>1, <2>1, <2>2, <2>3, <2>4 DEF RowsUpTo
<1>11. CASE ~Skipped(entry)
  <2> DEFINE rows == Inserted(tx, entry)
             ids  == DOMAIN tx.triage
             new  == [id \in ids \cup {entry.id} |->
                        IF id = entry.id THEN entry.status ELSE tx.triage[id]]
  <2>1. /\ h \in Disclosed /\ entry.id \notin ids
        /\ rows = [triage |-> new, packages |-> tx.packages \o entry.packages,
                   releases |-> tx.releases \o entry.releases]
    BY <1>7, <1>11 DEF Inserted, Insertable
  <2>2. /\ rows.triage = new /\ rows.packages = tx.packages \o entry.packages
        /\ rows.releases = tx.releases \o entry.releases
    <3> HIDE DEF new, rows
    <3>1. QED
      BY <2>1
  <2>3. DisclosedBefore(pos) = DisclosedBefore(h) \cup h..(pos - 1)
    BY <2>1, <1>5, <1>9 DEF DisclosedBefore
  <2>4. /\ tx.packages \in Seq(PackageRow) /\ entry.packages \in Seq(PackageRow)
        /\ tx.releases \in Seq(ReleaseRow) /\ entry.releases \in Seq(ReleaseRow)
    BY <1>1 DEF IsRows, Entry
  <2>5. list.lines[h].kind = "header" /\ list.lines[h].id = entry.id
    BY <1>1, <1>3 DEF Headers, EntryUpTo
  <2>6. h..(pos - 1) = {h} \cup block
    BY <1>2, <1>4
  <2>7. \A i \in DisclosedBefore(h), j \in block : i < j
    BY <1>2, <1>4 DEF DisclosedBefore
  <2>8. InOrder(rows.packages, PackagesAt(DisclosedBefore(pos)))
    <3> DEFINE row == PackagesAt(DisclosedBefore(h))
               row2 == PackagesAt(block)
               all == PackagesAt(DisclosedBefore(pos))
    <3>1. InOrder(tx.packages, row) /\ InOrder(entry.packages, row2)
      BY <1>1 DEF RowsUpTo, EntryUpTo
    <3>2. /\ DOMAIN row \subseteq DisclosedBefore(h) /\ DOMAIN row2 \subseteq block
          /\ DOMAIN all = DOMAIN row \cup DOMAIN row2
          /\ \A i \in DOMAIN row : all[i] = row[i]
          /\ \A i \in DOMAIN row2 : all[i] = row2[i]
      BY <2>3, <2>5, <2>6 DEF PackagesAt
    <3>3. DOMAIN row \subseteq Nat /\ DOMAIN row2 \subseteq Nat
      BY <3>2, <1>9 DEF DisclosedBefore
    <3> HIDE DEF row, row2, all, block, rows
    <3>4. \A i \in DOMAIN row, j \in DOMAIN row2 : i < j
      BY <2>7, <3>2
    <3>5. InOrder(tx.packages \o entry.packages, all)
      <4> DEFINE r == tx.packages  r2 == entry.packages
      <4>1. r \in Seq(PackageRow) /\ r2 \in Seq(PackageRow) /\ InOrder(r, row) /\ InOrder(r2, row2)
        BY <2>4, <3>1
      <4> HIDE DEF r, r2
      <4>2. InOrder(r \o r2, all)
        BY <4>1, <3>2, <3>3, <3>4, ConcatenateInOrder
      <4>3. QED
        BY <4>2 DEF r, r2
    <3>6. QED
      BY <2>2, <3>5 DEF all
  <2>9. InOrder(rows.releases, ReleasesAt(DisclosedBefore(pos)))
    <3> DEFINE row == ReleasesAt(DisclosedBefore(h))
               row2 == ReleasesAt(block)
               all == ReleasesAt(DisclosedBefore(pos))
    <3>1. InOrder(tx.releases, row) /\ InOrder(entry.releases, row2)
      BY <1>1 DEF RowsUpTo, EntryUpTo
    <3>2. /\ DOMAIN row \subseteq DisclosedBefore(h) /\ DOMAIN row2 \subseteq block
          /\ DOMAIN all = DOMAIN row \cup DOMAIN row2
          /\ \A i \in DOMAIN row : all[i] = row[i]
          /\ \A i \in DOMAIN row2 : all[i] = row2[i]
      BY <2>3, <2>5, <2>6 DEF ReleasesAt
    <3>3. DOMAIN row \subseteq Nat /\ DOMAIN row2 \subseteq Nat
      BY <3>2, <1>9 DEF DisclosedBefore
    <3> HIDE DEF row, row2, all, block, rows
    <3>4. \A i \in DOMAIN row, j \in DOMAIN row2 : i < j
      BY <2>7, <3>2
    <3>5. InOrder(tx.releases \o entry.releases, all)
      <4> DEFINE r == tx.releases  r2 == entry.releases
      <4>1. r \in Seq(ReleaseRow) /\ r2 \in Seq(ReleaseRow) /\ InOrder(r, row) /\ InOrder(r2, row2)
        BY <2>4, <3>1
      <4> HIDE DEF r, r2
      <4>2. InOrder(r \o r2, all)
        BY <4>1, <3>2, <3>3, <3>4, ConcatenateInOrder
      <4>3. QED
        BY <4>2 DEF r, r2
    <3>6. QED
      BY <2>2, <3>5 DEF all
  <2>10. /\ entry.id \in CVEs \ Temporaries
         /\ ids \subseteq CVEs \ Temporaries
         /\ ids = {list.lines[g].id : g \in {f \in Disclosed : f < h}}
         /\ \A g \in Disclosed : g < h => tx.triage[list.lines[g].id] = StatusOfBlock(g)
         /\ \A f, g \in Disclosed :
               f < h /\ g < h /\ list.lines[f].id = list.lines[g].id => f = g
    BY <1>1, <1>11 DEF Skipped, Entry, IsRows, RowsUpTo
  <2>11. IsRows(rows)
    <3>1. /\ tx.packages \o entry.packages \in Seq(PackageRow)
          /\ tx.releases \o entry.releases \in Seq(ReleaseRow)
      BY <2>4
    <3>2. DOMAIN new = ids \cup {entry.id} /\ new = [id \in DOMAIN new |-> new[id]]
      OBVIOUS
    <3> HIDE DEF new, rows
    <3>3. rows = [triage |-> rows.triage, packages |-> rows.packages, releases |-> rows.releases]
      BY <2>1, <2>2
    <3>4. QED
      BY <2>2, <2>10, <3>1, <3>2, <3>3 DEF IsRows
  <2>12. DOMAIN new = {list.lines[g].id : g \in {f \in Disclosed : f < pos}}
    <3>1. DOMAIN new = ids \cup {entry.id}
      OBVIOUS
    <3> HIDE DEF new, ids
    <3>2. {f \in Disclosed : f < pos} = {f \in Disclosed : f < h} \cup {h}
      BY <2>1, <1>8
    <3>3. QED
      BY <2>5, <2>10, <3>1, <3>2
  <2>13. \A g \in Disclosed : g < pos => new[list.lines[g].id] = StatusOfBlock(g)
    <3>1. \A g \in Disclosed : g < h => list.lines[g].id \in ids
      BY <2>10
    <3>2. ASSUME NEW g \in Disclosed, g < h
          PROVE  new[list.lines[g].id] = StatusOfBlock(g)
      BY <2>1, <2>10, <3>1, <3>2
    <3>3. new[entry.id] = entry.status
      OBVIOUS
    <3> HIDE DEF new
    <3>4. QED
      BY <2>5, <3>2, <3>3, <1>6, <1>8
  <2>14. \A f, g \in Disclosed :
            f < pos /\ g < pos /\ list.lines[f].id = list.lines[g].id => f = g
    <3>1. \A g \in Disclosed : g < h => list.lines[g].id # entry.id
      BY <2>1, <2>10
    <3> HIDE DEF new, ids
    <3>2. QED
      BY <2>5, <2>10, <3>1, <1>8
  <2> HIDE DEF new, rows
  <2>15. QED
    BY <2>2, <2>8, <2>9, <2>11, <2>12, <2>13, <2>14 DEF RowsUpTo, rows
<1>12. QED
  BY <1>10, <1>11

\* What a line of an entry makes of it.
LEMMA ExtendedFields ==
    ASSUME NEW e \in Entry, NEW line \in Line
    PROVE  /\ Extended(e, line) \in Entry /\ Extended(e, line).id = e.id
           /\ Extended(e, line).status =
                 IF line.kind \in DOMAIN StatusOf THEN StatusOf[line.kind] ELSE e.status
           /\ Extended(e, line).packages =
                 IF line.kind = "package"
                 THEN Append(e.packages, [id |-> e.id, source |-> line.source, sid |-> line.sid])
                 ELSE e.packages
           /\ Extended(e, line).releases =
                 IF line.kind = "release"
                 THEN Append(e.releases, [id |-> e.id, source |-> line.source])
                 ELSE e.releases
<1> DEFINE status == IF line.kind \in DOMAIN StatusOf THEN StatusOf[line.kind] ELSE e.status
           packages == Append(e.packages, [id |-> e.id, source |-> line.source, sid |-> line.sid])
           releases == Append(e.releases, [id |-> e.id, source |-> line.source])
<1>1. status \in TriageStatuses
  BY DEF StatusOf, TriageStatuses, Entry
<1>2. /\ e.id \in CVEs /\ line.source \in Sources /\ line.sid \in SidField
      /\ e.packages \in Seq(PackageRow) /\ e.releases \in Seq(ReleaseRow)
  BY DEF Entry, Line
<1>3. packages \in Seq(PackageRow) /\ releases \in Seq(ReleaseRow)
  BY <1>2 DEF PackageRow, ReleaseRow
<1>4. Extended(e, line) =
        CASE line.kind = "package" -> [e EXCEPT !.status = status, !.packages = packages]
          [] line.kind = "release" -> [e EXCEPT !.status = status, !.releases = releases]
          [] OTHER -> [e EXCEPT !.status = status]
  BY DEF Extended
<1> HIDE DEF status, packages, releases
<1>5. CASE line.kind = "package"
  BY <1>1, <1>3, <1>4, <1>5 DEF Entry, status, packages
<1>6. CASE line.kind = "release"
  BY <1>1, <1>3, <1>4, <1>6 DEF Entry, status, releases
<1>7. CASE line.kind \notin {"package", "release"}
  BY <1>1, <1>4, <1>7 DEF Entry, status
<1>8. QED
  BY <1>5, <1>6, <1>7

\* Reading a line of an entry.
LEMMA Extending ==
    ASSUME list \in Lists, 1 \in Headers, NEW h \in Headers, NEW p \in Lines, h < p,
           HeaderOf(p) = h, list.lines[p].kind # "header",
           NEW e, EntryUpTo(e, h, p)
    PROVE  EntryUpTo(Extended(e, list.lines[p]), h, p + 1)
<1> DEFINE line == list.lines[p]
           new == Extended(e, line)
           D == (h + 1)..(p - 1)
           D2 == (h + 1)..((p + 1) - 1)
<1>1. /\ line \in Line /\ h \in Nat /\ p \in Nat /\ Len(list.lines) \in Nat
      /\ e \in Entry /\ e.id = list.lines[h].id
  BY ListOfLines DEF Headers, Lines, EntryUpTo
<1>2. /\ new \in Entry /\ new.id = e.id
      /\ new.status = IF line.kind \in DOMAIN StatusOf THEN StatusOf[line.kind] ELSE e.status
      /\ new.packages =
            IF line.kind = "package"
            THEN Append(e.packages, [id |-> e.id, source |-> line.source, sid |-> line.sid])
            ELSE e.packages
      /\ new.releases =
            IF line.kind = "release"
            THEN Append(e.releases, [id |-> e.id, source |-> line.source])
            ELSE e.releases
  BY <1>1, ExtendedFields
<1>3. D2 = D \cup {p} /\ D \subseteq Nat /\ p \notin D /\ \A i \in D : i < p
  BY <1>1
<1>4. /\ StatusIs(e.status, D)
      /\ InOrder(e.packages, PackagesAt(D)) /\ InOrder(e.releases, ReleasesAt(D))
  BY DEF EntryUpTo
<1>5. /\ e.packages \in Seq(PackageRow) /\ e.releases \in Seq(ReleaseRow)
      /\ [id |-> e.id, source |-> line.source, sid |-> line.sid] \in PackageRow
      /\ [id |-> e.id, source |-> line.source] \in ReleaseRow
  BY <1>1 DEF Entry, Line, PackageRow, ReleaseRow
<1>6. /\ PackageRowAt(p) = [id |-> e.id, source |-> line.source, sid |-> line.sid]
      /\ ReleaseRowAt(p) = [id |-> e.id, source |-> line.source]
  BY <1>1 DEF PackageRowAt, ReleaseRowAt
<1> HIDE DEF new, D, D2
<1>7. StatusIs(new.status, D2)
  <2> DEFINE deciding == {i \in D : list.lines[i].kind \in DOMAIN StatusOf}
             deciding2 == {i \in D2 : list.lines[i].kind \in DOMAIN StatusOf}
  <2>1. CASE line.kind \in DOMAIN StatusOf
    <3>0. ASSUME NEW j \in D \cup {p} PROVE j <= p
      <4>1. CASE j = p
        BY <4>1, <1>1
      <4>2. CASE j \in D
        BY <4>2, <1>1, <1>3
      <4>3. QED
        BY <4>1, <4>2
    <3>1. p \in deciding2 /\ \A j \in deciding2 : j <= p
      <4>1. p \in D2 /\ list.lines[p].kind \in DOMAIN StatusOf
        BY <2>1, <1>3
      <4>2. p \in deciding2
        BY <4>1
      <4>3. \A j \in deciding2 : j <= p
        BY <3>0, <1>3
      <4>4. QED
        BY <4>2, <4>3
    <3>2. new.status = StatusOf[list.lines[p].kind]
      BY <2>1, <1>2
    <3>3. QED
      <4>1. deciding2 # {} /\ \E i \in deciding2 : /\ \A j \in deciding2 : j <= i
                                                /\ new.status = StatusOf[list.lines[i].kind]
        BY <3>1, <3>2
      <4>2. QED
        BY <4>1 DEF StatusIs
  <2>2. CASE line.kind \notin DOMAIN StatusOf
    <3>1. deciding2 = deciding
      BY <2>2, <1>3
    <3>2. new.status = e.status
      BY <2>2, <1>2
    <3>3. QED
      BY <3>1, <3>2, <1>4 DEF StatusIs
  <2>3. QED
    BY <2>1, <2>2
<1>8. InOrder(new.packages, PackagesAt(D2))
  <2> DEFINE row == PackagesAt(D)
             more == PackagesAt(D2)
             x == [id |-> e.id, source |-> line.source, sid |-> line.sid]
             r == e.packages
  <2>1. /\ DOMAIN row = {i \in D : list.lines[i].kind = "package"}
        /\ DOMAIN more = {i \in D2 : list.lines[i].kind = "package"}
        /\ \A i \in DOMAIN row : more[i] = row[i]
    BY <1>3 DEF PackagesAt
  <2>2. CASE line.kind = "package"
    <3>1. DOMAIN more = DOMAIN row \cup {p} /\ more[p] = x
      BY <2>1, <2>2, <1>3, <1>6 DEF PackagesAt
    <3>2. /\ r \in Seq(PackageRow) /\ x \in PackageRow /\ p \in Nat /\ InOrder(r, row)
          /\ DOMAIN row \subseteq Nat /\ \A i \in DOMAIN row : i < p
      BY <2>1, <1>1, <1>3, <1>4, <1>5
    <3> HIDE DEF r, x, row, more
    <3>3. InOrder(Append(r, x), more)
      BY <2>1, <3>1, <3>2, AppendInOrder
    <3>4. QED
      BY <2>2, <3>3, <1>2 DEF r, x, more
  <2>3. CASE line.kind # "package"
    <3>1. DOMAIN more = DOMAIN row
      BY <2>1, <2>3, <1>3
    <3>2. InOrder(r, row)
      BY <1>4
    <3> HIDE DEF r, x, row, more
    <3>3. InOrder(r, more)
      BY <2>1, <3>1, <3>2, SameInOrder
    <3>4. QED
      BY <2>3, <3>3, <1>2 DEF r, more
  <2>4. QED
    BY <2>2, <2>3
<1>9. InOrder(new.releases, ReleasesAt(D2))
  <2> DEFINE row == ReleasesAt(D)
             more == ReleasesAt(D2)
             x == [id |-> e.id, source |-> line.source]
             r == e.releases
  <2>1. /\ DOMAIN row = {i \in D : list.lines[i].kind = "release"}
        /\ DOMAIN more = {i \in D2 : list.lines[i].kind = "release"}
        /\ \A i \in DOMAIN row : more[i] = row[i]
    BY <1>3 DEF ReleasesAt
  <2>2. CASE line.kind = "release"
    <3>1. DOMAIN more = DOMAIN row \cup {p} /\ more[p] = x
      BY <2>1, <2>2, <1>3, <1>6 DEF ReleasesAt
    <3>2. /\ r \in Seq(ReleaseRow) /\ x \in ReleaseRow /\ p \in Nat /\ InOrder(r, row)
          /\ DOMAIN row \subseteq Nat /\ \A i \in DOMAIN row : i < p
      BY <2>1, <1>1, <1>3, <1>4, <1>5
    <3> HIDE DEF r, x, row, more
    <3>3. InOrder(Append(r, x), more)
      BY <2>1, <3>1, <3>2, AppendInOrder
    <3>4. QED
      BY <2>2, <3>3, <1>2 DEF r, x, more
  <2>3. CASE line.kind # "release"
    <3>1. DOMAIN more = DOMAIN row
      BY <2>1, <2>3, <1>3
    <3>2. InOrder(r, row)
      BY <1>4
    <3> HIDE DEF r, x, row, more
    <3>3. InOrder(r, more)
      BY <2>1, <3>1, <3>2, SameInOrder
    <3>4. QED
      BY <2>3, <3>3, <1>2 DEF r, more
  <2>4. QED
    BY <2>2, <2>3
<1>10. QED
  BY <1>1, <1>2, <1>7, <1>8, <1>9 DEF EntryUpTo, D2, new

\* An entry that was just opened.
LEMMA Opening ==
    ASSUME list \in Lists, NEW h \in Headers
    PROVE  EntryUpTo(Opened(list.lines[h].id), h, h + 1)
<1>1. h \in Nat /\ list.lines[h] \in Line
  BY ListOfLines DEF Headers
<1>2. (h + 1)..((h + 1) - 1) = {}
  BY <1>1
<1>3. StatusIs("UNKNOWN", {})
  BY DEF StatusIs
<1>4. DOMAIN PackagesAt({}) = {} /\ DOMAIN ReleasesAt({}) = {}
  BY DEF PackagesAt, ReleasesAt
<1>5. InOrder(<<>>, PackagesAt({})) /\ InOrder(<<>>, ReleasesAt({}))
  BY <1>4, NothingInOrder
<1>6. Opened(list.lines[h].id) \in Entry
  BY <1>1 DEF Opened, Entry, Line, TriageStatuses
<1>7. QED
  BY <1>2, <1>3, <1>5, <1>6 DEF EntryUpTo, Opened

\* Nothing is stored before the first entry.
LEMMA NothingStored ==
    ASSUME list \in Lists
    PROVE  IsRows(NoRows) /\ RowsUpTo(NoRows, 1)
<1>1. IsRows(NoRows)
  BY DEF IsRows, NoRows
<1>2. Len(list.lines) \in Nat /\ Headers \subseteq 1..Len(list.lines)
  BY ListOfLines DEF Headers
<1>3. \A g \in Disclosed : ~(g < 1)
  BY <1>2 DEF Disclosed
<1>4. DisclosedBefore(1) = {}
  BY <1>2 DEF DisclosedBefore, Lines
<1>5. DOMAIN PackagesAt({}) = {} /\ DOMAIN ReleasesAt({}) = {}
  BY DEF PackagesAt, ReleasesAt
<1>6. InOrder(<<>>, PackagesAt({})) /\ InOrder(<<>>, ReleasesAt({}))
  BY <1>5, NothingInOrder
<1>7. DOMAIN NoRows.triage = {} /\ NoRows.packages = <<>> /\ NoRows.releases = <<>>
  BY DEF NoRows
<1>8. QED
  BY <1>1, <1>3, <1>4, <1>6, <1>7 DEF RowsUpTo

-----------------------------------------------------------------------------
(* The invariant holds.                                                    *)

\* The line that is read is the next line.
LEMMA NextLine ==
    ASSUME DebTypeOK, pos <= Len(list.lines)
    PROVE  /\ pos \in Lines /\ pos \in Nat /\ (pos + 1) - 1 = pos
           /\ pos + 1 \in 1..(Len(list.lines) + 1) /\ pos + 1 > 1
           /\ list.lines[pos] \in Line
<1>1. Len(list.lines) \in Nat /\ pos \in 1..(Len(list.lines) + 1) /\ list.lines \in Seq(Line)
  BY ListOfLines DEF DebTypeOK
<1>2. QED
  BY <1>1 DEF Lines

\* The rows stay what they are while nothing is written.
LEMMA SameTables ==
    ASSUME NEW rows, IsRows(rows)
    PROVE  (tx' = rows => IsRows(tx)') /\ (db' = rows => IsRows(db)')
  BY DEF IsRows

\* The invariant holds of an empty database and a list of which nothing is read.
LEMMA InvInit == DebInit => DebInv
<1> SUFFICES ASSUME DebInit PROVE DebInv
  OBVIOUS
<1>1. list \in Lists /\ Len(list.lines) \in Nat
  BY ListOfLines DEF DebInit
<1>2. IsRows(NoRows)
  BY <1>1, NothingStored
<1>3. DebTypeOK
  BY <1>1, <1>2 DEF DebInit, DebTypeOK
<1>4. ReadingInv /\ DoneInv
  BY DEF DebInit, ReadingInv, DoneInv
<1>5. QED
  BY <1>3, <1>4 DEF DebInv

\* A header.
LEMMA HeaderKeepsInv ==
    ASSUME DebInv, ReadHeader
    PROVE  DebInv'
<1> DEFINE id == list.lines[pos].id
           e == Opened(id)
<1>1. /\ DebTypeOK /\ ReadingInv /\ ingest = "reading" /\ pos <= Len(list.lines)
      /\ list \in Lists /\ db = NoRows /\ IsRows(db) /\ IsRows(tx)
      /\ list.lines[pos].kind = "header" /\ entry' = e /\ pos' = pos + 1
      /\ list' = list /\ db' = db /\ ingest' = ingest
  BY DEF DebInv, DebTypeOK, ReadingInv, ReadHeader
<1>2. /\ pos \in Lines /\ pos \in Nat /\ (pos + 1) - 1 = pos
      /\ pos + 1 \in 1..(Len(list.lines) + 1) /\ pos + 1 > 1
  BY <1>1, NextLine
<1>3. pos \in Headers
  BY <1>1, <1>2 DEF Headers, Lines
<1>4. EntryUpTo(e, pos, pos + 1)
  BY <1>1, <1>3, Opening
<1>5. e \in Entry /\ e # NoEntry
  BY <1>4, DebSecTrackerAssumption DEF EntryUpTo
<1>6. /\ 1 \in Headers
      /\ RowsUpTo(tx', pos)
  <2>1. CASE entry = NoEntry
    <3>1. pos = 1 /\ tx = NoRows /\ tx' = tx
      BY <1>1, <2>1 DEF ReadingInv, ReadHeader
    <3>2. RowsUpTo(NoRows, 1)
      BY <1>1, NothingStored
    <3>3. QED
      BY <3>1, <3>2, <1>3
  <2>2. CASE entry # NoEntry
    <3>1. Insertable(tx, entry) /\ tx' = Inserted(tx, entry)
      BY <2>2 DEF ReadHeader
    <3>2. RowsUpTo(Inserted(tx, entry), pos)
      BY <1>1, <1>3, <2>2, <3>1, Closing
    <3>3. 1 \in Headers
      BY <1>1, <2>2 DEF ReadingInv
    <3>4. QED
      BY <3>1, <3>2, <3>3
  <2>3. QED
    BY <2>1, <2>2
<1>7. HeaderOf(pos) = pos
  <2>1. \A g \in Headers : g <= pos => g <= pos
    OBVIOUS
  <2>2. pos <= pos
    BY <1>2
  <2>3. QED
    BY <1>1, <1>2, <1>3, <1>6, <2>1, <2>2, TheHeader
<1>8. EntryUpTo(entry, HeaderOf(pos - 1), pos)'
  <2>1. HeaderOf((pos + 1) - 1) = pos
    BY <1>2, <1>7
  <2> HIDE DEF e
  <2>2. QED
    BY <1>1, <1>4, <2>1, NextEntry
<1>9. RowsUpTo(tx, HeaderOf(pos - 1))'
  <2>1. HeaderOf((pos + 1) - 1) = pos
    BY <1>2, <1>7
  <2>2. QED
    BY <1>1, <1>6, <2>1, NextRows
<1>10. IsRows(tx)' /\ IsRows(db)'
  <2>1. IsRows(tx')
    BY <1>6 DEF RowsUpTo
  <2>2. QED
    BY <1>1, <2>1, SameTables
<1>11. DebTypeOK'
  BY <1>1, <1>2, <1>5, <1>10 DEF DebTypeOK
<1>12. ReadingInv'
  BY <1>1, <1>2, <1>5, <1>6, <1>8, <1>9, SameList DEF ReadingInv
<1>13. DoneInv'
  BY <1>1 DEF DoneInv
<1>14. QED
  BY <1>11, <1>12, <1>13 DEF DebInv

\* A line of an entry.
LEMMA ContentKeepsInv ==
    ASSUME DebInv, ReadContent
    PROVE  DebInv'
<1> DEFINE h == HeaderOf(pos - 1)
           e == Extended(entry, list.lines[pos])
<1>1. /\ DebTypeOK /\ ingest = "reading" /\ pos <= Len(list.lines)
      /\ list \in Lists /\ db = NoRows /\ IsRows(db) /\ IsRows(tx)
      /\ list.lines[pos].kind # "header" /\ entry' = e /\ pos' = pos + 1
      /\ list' = list /\ db' = db /\ ingest' = ingest /\ tx' = tx
      /\ pos > 1 /\ 1 \in Headers
      /\ EntryUpTo(entry, h, pos) /\ RowsUpTo(tx, h)
  BY DEF DebInv, DebTypeOK, ReadingInv, ReadContent
<1>2. /\ pos \in Lines /\ pos \in Nat /\ (pos + 1) - 1 = pos
      /\ pos + 1 \in 1..(Len(list.lines) + 1) /\ pos + 1 > 1
  BY <1>1, NextLine
<1>3. pos - 1 \in Lines /\ Len(list.lines) \in Nat /\ Headers \subseteq Nat
  BY <1>1, <1>2, ListOfLines DEF Lines, Headers
<1>4. h \in Headers /\ h <= pos - 1 /\ \A g \in Headers : g <= pos - 1 => g <= h
  BY <1>1, <1>3, HeaderOfLine
<1> HIDE DEF h
<1>5. h < pos /\ \A g \in Headers : g <= pos => g <= h
  <2>1. pos \notin Headers
    BY <1>1 DEF Headers
  <2>2. \A g \in Nat : g <= pos => g = pos \/ g <= pos - 1
    BY <1>2
  <2>3. h \in Nat
    BY <1>3, <1>4
  <2>4. QED
    BY <1>2, <1>3, <1>4, <2>1, <2>2, <2>3
<1>6. HeaderOf(pos) = h
  <2>1. h <= pos
    BY <1>2, <1>3, <1>4, <1>5
  <2>2. QED
    BY <1>1, <1>2, <1>4, <1>5, <2>1, TheHeader
<1>7. EntryUpTo(e, h, pos + 1)
  BY <1>1, <1>2, <1>4, <1>5, <1>6, Extending
<1>8. e \in Entry /\ e # NoEntry
  BY <1>7, DebSecTrackerAssumption DEF EntryUpTo
<1>9. HeaderOf((pos + 1) - 1) = h
  BY <1>2, <1>6
<1> HIDE DEF e
<1>10. EntryUpTo(entry, HeaderOf(pos - 1), pos)'
  BY <1>1, <1>7, <1>9, NextEntry
<1>11. RowsUpTo(tx, HeaderOf(pos - 1))'
  BY <1>1, <1>9, NextRows
<1>12. DebTypeOK'
  BY <1>1, <1>2, <1>8, SameTables DEF DebTypeOK
<1>13. ReadingInv'
  BY <1>1, <1>2, <1>8, <1>10, <1>11, SameList DEF ReadingInv
<1>14. DoneInv'
  BY <1>1 DEF DoneInv
<1>15. QED
  BY <1>12, <1>13, <1>14 DEF DebInv

\* The end of the list.
LEMMA CommitKeepsInv ==
    ASSUME DebInv, Commit
    PROVE  DebInv'
<1>1. /\ DebTypeOK /\ ReadingInv /\ ingest = "reading" /\ pos > Len(list.lines)
      /\ list \in Lists /\ entry \in Entry \cup {NoEntry} /\ 1 \in Headers
      /\ entry # NoEntry /\ Insertable(tx, entry)
      /\ tx' = Inserted(tx, entry) /\ db' = tx' /\ ingest' = "committed"
      /\ list' = list /\ pos' = pos /\ entry' = entry
      /\ pos \in 1..(Len(list.lines) + 1)
  BY DEF DebInv, DebTypeOK, ReadingInv, Commit
<1>2. Len(list.lines) \in Nat /\ pos = Len(list.lines) + 1
  BY <1>1, ListOfLines
<1>3. pos \notin Lines
  BY <1>2 DEF Lines
<1>4. RowsUpTo(tx', pos)
  BY <1>1, <1>3, Closing
<1>5. IsRows(tx)' /\ IsRows(db)'
  BY <1>1, <1>4, SameTables DEF RowsUpTo
<1>6. DebTypeOK'
  BY <1>1, <1>5 DEF DebTypeOK
<1>7. RowsUpTo(db, Len(list.lines) + 1)'
  <2>1. DisclosedBefore(Len(list.lines) + 1)' = DisclosedBefore(pos)
    BY <1>1, <1>2, SameList DEF DisclosedBefore
  <2>2. QED
    BY <1>1, <1>2, <1>4, <2>1, SameRows, SameList DEF RowsUpTo, IsRows
<1>8. ReadingInv' /\ DoneInv'
  BY <1>1, <1>7, SameList DEF ReadingInv, DoneInv
<1>9. QED
  BY <1>6, <1>8 DEF DebInv

\* A failure.
LEMMA FailureKeepsInv ==
    ASSUME DebInv, IngestionFails
    PROVE  DebInv'
<1>1. DebTypeOK' /\ ReadingInv' /\ DoneInv'
  <2>1. /\ list \in Lists /\ pos \in 1..(Len(list.lines) + 1) /\ entry \in Entry \cup {NoEntry}
        /\ IsRows(db) /\ db = NoRows
        /\ list' = list /\ pos' = pos /\ entry' = entry /\ db' = db /\ tx' = db
        /\ ingest' = "failed"
    BY DEF DebInv, DebTypeOK, ReadingInv, IngestionFails
  <2>2. DebTypeOK'
    BY <2>1, SameTables DEF DebTypeOK
  <2>3. ReadingInv' /\ DoneInv'
    BY <2>1 DEF ReadingInv, DoneInv
  <2>4. QED
    BY <2>2, <2>3
<1>2. QED
  BY <1>1 DEF DebInv

\* Nothing happens.
LEMMA StutteringKeepsInv ==
    ASSUME DebInv, UNCHANGED debVars
    PROVE  DebInv'
<1>1. /\ list' = list /\ pos' = pos /\ entry' = entry /\ tx' = tx /\ db' = db /\ ingest' = ingest
  BY DEF debVars
<1>2. DebTypeOK'
  BY <1>1, SameTables DEF DebInv, DebTypeOK
<1>3. ReadingInv'
  <2>1. CASE ingest # "reading"
    BY <1>1, <2>1 DEF ReadingInv
  <2>2. CASE ingest = "reading" /\ entry = NoEntry
    BY <1>1, <2>2 DEF DebInv, ReadingInv
  <2>3. CASE ingest = "reading" /\ entry # NoEntry
    <3>1. /\ db = NoRows /\ pos > 1 /\ 1 \in Headers
          /\ EntryUpTo(entry, HeaderOf(pos - 1), pos) /\ RowsUpTo(tx, HeaderOf(pos - 1))
      BY <2>3 DEF DebInv, ReadingInv
    <3>2. EntryUpTo(entry, HeaderOf(pos - 1), pos)'
      BY <1>1, <3>1, NextEntry
    <3>3. RowsUpTo(tx, HeaderOf(pos - 1))'
      BY <1>1, <3>1, NextRows
    <3>4. QED
      BY <1>1, <2>3, <3>1, <3>2, <3>3, SameList DEF ReadingInv
  <2>4. QED
    BY <2>1, <2>2, <2>3
<1>4. DoneInv'
  <2>1. DisclosedBefore(Len(list.lines) + 1)' = DisclosedBefore(Len(list.lines) + 1)
    BY <1>1, SameList DEF DisclosedBefore
  <2>2. RowsUpTo(db, Len(list.lines) + 1) => RowsUpTo(db, Len(list.lines) + 1)'
    BY <1>1, <2>1, SameRows, SameList DEF RowsUpTo, IsRows
  <2>3. QED
    BY <1>1, <2>2, SameList DEF DebInv, DoneInv
<1>5. QED
  BY <1>2, <1>3, <1>4 DEF DebInv

\* Every step of the ingestion keeps the invariant.
LEMMA InvNext == DebInv /\ [IngestTriage]_debVars => DebInv'
  BY HeaderKeepsInv, ContentKeepsInv, CommitKeepsInv, FailureKeepsInv, StutteringKeepsInv
     DEF IngestTriage

-----------------------------------------------------------------------------
(* What is stored in the end.                                              *)

\* The list, read as a whole, is what the rows are when every entry is closed.
LEMMA RowsOfTheList ==
    ASSUME list \in Lists, 1 \in Headers, NEW rows, RowsUpTo(rows, Len(list.lines) + 1)
    PROVE  /\ rows.triage = ListedTriage
           /\ InOrder(rows.packages, [i \in ListedLines("package") |-> PackageRowAt(i)])
           /\ InOrder(rows.releases, [i \in ListedLines("release") |-> ReleaseRowAt(i)])
<1> DEFINE p == Len(list.lines) + 1
<1>1. /\ Len(list.lines) \in Nat /\ \A i \in Lines : i < p
      /\ Disclosed \subseteq Lines
  BY ListOfLines DEF Lines, Disclosed, Headers
<1>2. /\ DOMAIN rows.triage = {list.lines[g].id : g \in Disclosed}
      /\ \A g \in Disclosed : rows.triage[list.lines[g].id] = StatusOfBlock(g)
      /\ \A f, g \in Disclosed : list.lines[f].id = list.lines[g].id => f = g
      /\ rows.triage = [id \in DOMAIN rows.triage |-> rows.triage[id]]
  <2>1. {f \in Disclosed : f < p} = Disclosed
    BY <1>1
  <2>2. QED
    BY <1>1, <2>1 DEF RowsUpTo, IsRows
<1>3. rows.triage = ListedTriage
  <2> DEFINE ids == {list.lines[g].id : g \in Disclosed}
             table == rows.triage
             of(id) == CHOOSE h \in Disclosed : list.lines[h].id = id
  <2>1. ASSUME NEW id \in ids
        PROVE  table[id] = StatusOfBlock(of(id))
    <3>1. of(id) \in Disclosed /\ list.lines[of(id)].id = id
      OBVIOUS
    <3> HIDE DEF of
    <3>2. QED
      BY <3>1, <1>2
  <2>2. ListedTriage = [id \in ids |-> StatusOfBlock(of(id))]
    BY DEF ListedTriage
  <2>3. table = [id \in ids |-> table[id]]
    BY <1>2
  <2> HIDE DEF ids, table, of
  <2>4. table = ListedTriage
    BY <2>1, <2>2, <2>3
  <2>5. QED
    BY <2>4 DEF table
<1>4. DisclosedBefore(p) = {i \in Lines : HeaderOf(i) \in Disclosed}
  BY <1>1 DEF DisclosedBefore
<1>5. InOrder(rows.packages, [i \in ListedLines("package") |-> PackageRowAt(i)])
  <2>1. {j \in DisclosedBefore(p) : list.lines[j].kind = "package"} = ListedLines("package")
    BY <1>4 DEF ListedLines, Lines
  <2>2. PackagesAt(DisclosedBefore(p)) = [i \in ListedLines("package") |-> PackageRowAt(i)]
    BY <2>1 DEF PackagesAt
  <2>3. QED
    BY <2>2 DEF RowsUpTo
<1>6. InOrder(rows.releases, [i \in ListedLines("release") |-> ReleaseRowAt(i)])
  <2>1. {j \in DisclosedBefore(p) : list.lines[j].kind = "release"} = ListedLines("release")
    BY <1>4 DEF ListedLines, Lines
  <2>2. ReleasesAt(DisclosedBefore(p)) = [i \in ListedLines("release") |-> ReleaseRowAt(i)]
    BY <2>1 DEF ReleasesAt
  <2>3. QED
    BY <2>2 DEF RowsUpTo
<1>7. QED
  BY <1>3, <1>5, <1>6

\* The invariant says what is meant.
LEMMA InvImpliesRows == DebInv => RowsMatchList
<1> SUFFICES ASSUME DebInv PROVE RowsMatchList
  OBVIOUS
<1>1. CASE ingest = "committed"
  BY <1>1, RowsOfTheList DEF DebInv, DebTypeOK, DoneInv, RowsMatchList
<1>2. CASE ingest \in {"reading", "failed"}
  BY <1>2 DEF DebInv, ReadingInv, DoneInv, RowsMatchList
<1>3. QED
  BY <1>1, <1>2 DEF DebInv, DebTypeOK

\* The invariant holds of every list, however long and whatever its entries.
THEOREM DebInvariance == DebSpec => []DebInv
<1>1. DebInit => DebInv
  BY InvInit
<1>2. DebInv /\ [IngestTriage]_debVars => DebInv'
  BY InvNext
<1>3. QED
  BY <1>1, <1>2, PTL DEF DebSpec

\* Whatever the list, and wherever the run is cancelled: the database is empty until
\* it holds what the whole list says, every disclosed entry with the status of its
\* last line and every line of it in order (processTriage, ingestTriage).
THEOREM IngestedAsListed == DebSpec => []RowsMatchList
  BY DebInvariance, InvImpliesRows, PTL


(***************************************************************************)
(* The projections of what is shipped, for every list of releases, every   *)
(* SBOM and every pool, and whatever is published meanwhile.               *)
(***************************************************************************)

-----------------------------------------------------------------------------
(* Places.                                                                 *)

\* Of places that are not none one comes first.
LEMMA FirstPlace ==
    ASSUME NEW T \in SUBSET (Nat \X Nat), T # {}
    PROVE  \E x \in T : \A y \in T : ~Before(y, x)
<1> DEFINE R == OpToRel(<, Nat)
           L == LexPairOrdering(R, R, Nat, Nat)
<1>1. R = {ss \in Nat \X Nat : ss[1] < ss[2]}
  BY Zenon DEF OpToRel
<1>2. IsWellFoundedOn(R, Nat)
  BY NatLessThanWellFounded
<1>3. L = {ss \in (Nat \X Nat) \X (Nat \X Nat) :
             \/ <<ss[1][1], ss[2][1]>> \in R
             \/ /\ ss[1][1] = ss[2][1]
                /\ <<ss[1][2], ss[2][2]>> \in R}
  BY DEF LexPairOrdering
<1> HIDE DEF R
<1>4. IsWellFoundedOn(L, Nat \X Nat)
  BY <1>2, WFLexPairOrdering
<1> HIDE DEF L
<1>5. \E x \in T : \A y \in T : ~(<<y, x>> \in L)
  BY <1>4, WFMin
<1>6. ASSUME NEW x \in Nat \X Nat, NEW y \in Nat \X Nat, Before(y, x)
      PROVE  <<y, x>> \in L
  <2>1. <<y, x>>[1] = y /\ <<y, x>>[2] = x /\ <<y, x>> \in (Nat \X Nat) \X (Nat \X Nat)
    OBVIOUS
  <2>2. y[1] \in Nat /\ y[2] \in Nat /\ x[1] \in Nat /\ x[2] \in Nat
    OBVIOUS
  <2>3. <<y[1], x[1]>> \in R \/ (y[1] = x[1] /\ <<y[2], x[2]>> \in R)
    BY <1>1, <1>6, <2>2 DEF Before
  <2>4. QED
    BY <1>3, <2>1, <2>3
<1>7. QED
  BY <1>5, <1>6

\* Of two places one is before the other.
LEMMA PlacesAreOrdered ==
    ASSUME NEW x \in Nat \X Nat, NEW y \in Nat \X Nat
    PROVE  x = y \/ Before(x, y) \/ Before(y, x)
  BY DEF Before

-----------------------------------------------------------------------------
(* Sources and their variants.                                             *)

Same(p, q) == p.source = q.source /\ p.namespace \in Variants(q.namespace)

\* Being found under the same identities is an equivalence.
LEMMA SameIsEquivalence ==
    ASSUME NEW p, NEW q, NEW r
    PROVE  /\ Same(p, p)
           /\ Same(p, q) => Same(q, p)
           /\ Same(p, q) /\ Same(q, r) => Same(p, r)
  BY DEF Same, Variants

\* What is found for a package.
LEMMA GetIsSame ==
    ASSUME NEW S, NEW p
    PROVE  Get(S, Identity(p)) = {q \in S : Same(q, p)}
  BY DEF Get, Identity, Same

\* A source stands for each package it came from.
LEMMA SameAsSource ==
    ASSUME NEW p, NEW q
    PROVE  /\ Same(SourceOf(p), q) <=> Same(p, q)
           /\ SourceOf(p).version = p.sourceVersion
  BY DEF SourceOf, Same

\* The sources S are those of the packages P, each in the one version it has.
KnownAs(S, P) ==
    /\ \A q \in S : \E p \in P : q = SourceOf(p)
    /\ \A p \in P : /\ Get(S, Identity(p)) # {}
                    /\ \A q \in Get(S, Identity(p)) : q.version = p.sourceVersion

\* What is added: the first package of each source that was not known.
LEMMA AddedPackages ==
    ASSUME NEW S, NEW packages, DOMAIN packages \in SUBSET (Nat \X Nat)
    PROVE  /\ S \subseteq Added(S, packages)
           /\ \A q \in Added(S, packages) :
                 q \in S \/ \E p \in Range(packages) : q = SourceOf(p) /\ Get(S, Identity(p)) = {}
           /\ \A p \in Range(packages) : Get(Added(S, packages), Identity(p)) # {}
<1> DEFINE Known(x) == S \cup {SourceOf(packages[y]) : y \in {z \in DOMAIN packages : Before(z, x)}}
           New == {y \in DOMAIN packages : Get(Known(y), Identity(packages[y])) = {}}
<1>1. Added(S, packages) = S \cup {SourceOf(packages[x]) : x \in New}
  BY DEF Added
<1>2. ASSUME NEW q \in Added(S, packages), q \notin S
      PROVE  \E p \in Range(packages) : q = SourceOf(p) /\ Get(S, Identity(p)) = {}
  <2>1. PICK x \in New : q = SourceOf(packages[x])
    BY <1>1, <1>2
  <2>2. Get(S, Identity(packages[x])) = {}
    BY <2>1, GetIsSame
  <2>3. QED
    BY <2>1, <2>2 DEF Range
<1>3. ASSUME NEW p \in Range(packages), Get(Added(S, packages), Identity(p)) = {}
      PROVE  FALSE
  <2> DEFINE T == {x \in DOMAIN packages : Same(packages[x], p)}
  <2>1. T # {} /\ T \in SUBSET (Nat \X Nat)
    BY SameIsEquivalence DEF Range
  <2>2. PICK x \in T : \A y \in T : ~Before(y, x)
    BY <2>1, FirstPlace
  <2>3. \A q \in S : ~Same(q, p)
    <3>1. Get(Added(S, packages), Identity(p)) = {q \in Added(S, packages) : Same(q, p)}
      BY GetIsSame
    <3>2. S \subseteq Added(S, packages)
      BY <1>1
    <3>3. QED
      BY <1>3, <3>1, <3>2
  <2>4. \A q \in Known(x) : ~Same(q, packages[x])
    <3>1. \A q \in S : ~Same(q, packages[x])
      BY <2>2, <2>3, SameIsEquivalence
    <3>2. ASSUME NEW y \in DOMAIN packages, Before(y, x)
          PROVE  ~Same(SourceOf(packages[y]), packages[x])
      BY <2>2, <3>2, SameIsEquivalence, SameAsSource
    <3>3. QED
      BY <3>1, <3>2
  <2>5. x \in New
    BY <2>4, GetIsSame
  <2>6. SourceOf(packages[x]) \in Added(S, packages)
    BY <1>1, <2>5
  <2>7. Same(SourceOf(packages[x]), p)
    BY <2>2, SameAsSource
  <2>8. QED
    BY <1>3, <2>6, <2>7, GetIsSame
<1>4. QED
  BY <1>1, <1>2, <1>3

\* Packages that are added without a conflict join those that were known.
LEMMA AddingKeepsKnown ==
    ASSUME NEW S, NEW P, NEW packages, DOMAIN packages \in SUBSET (Nat \X Nat),
           KnownAs(S, P), ~Conflict(S, packages)
    PROVE  KnownAs(Added(S, packages), P \cup Range(packages))
<1> DEFINE A == Added(S, packages)
<1>1. /\ S \subseteq A
      /\ \A q \in A : q \in S \/ \E p \in Range(packages) : q = SourceOf(p) /\ Get(S, Identity(p)) = {}
      /\ \A p \in Range(packages) : Get(A, Identity(p)) # {}
  BY AddedPackages
<1>2. \A p \in Range(packages) : \A q \in Get(A, Identity(p)) : q.version = p.sourceVersion
  BY DEF Conflict
<1> HIDE DEF A
<1>3. \A q \in A : \E p \in P \cup Range(packages) : q = SourceOf(p)
  BY <1>1 DEF KnownAs
<1>4. ASSUME NEW p \in P
      PROVE  Get(A, Identity(p)) # {} /\ \A q \in Get(A, Identity(p)) : q.version = p.sourceVersion
  <2>1. PICK r \in S : Same(r, p)
    BY GetIsSame DEF KnownAs
  <2>2. r \in A
    BY <1>1
  <2>3. ASSUME NEW q \in A, Same(q, p)
        PROVE  q \in S
    <3> SUFFICES ASSUME NEW p2 \in Range(packages), q = SourceOf(p2), Get(S, Identity(p2)) = {}
                 PROVE  FALSE
      BY <1>1
    <3>1. Same(p2, p)
      BY <2>3, SameAsSource
    <3>2. Same(r, p2)
      BY <2>1, <3>1, SameIsEquivalence
    <3>3. QED
      BY <3>2, GetIsSame
  <2>4. /\ Get(A, Identity(p)) = {q \in A : Same(q, p)}
        /\ Get(S, Identity(p)) = {q \in S : Same(q, p)}
    BY GetIsSame
  <2>5. \A q \in Get(S, Identity(p)) : q.version = p.sourceVersion
    BY DEF KnownAs
  <2>6. QED
    BY <2>1, <2>2, <2>3, <2>4, <2>5
<1>5. QED
  BY <1>1, <1>2, <1>3, <1>4 DEF KnownAs, A

-----------------------------------------------------------------------------
(* Listings.                                                               *)

\* A valid paragraph becomes a package.
LEMMA ParsedPackageType ==
    ASSUME NEW p \in Paragraph, Valid(p)
    PROVE  ParsedPackage(p) \in Package
<1>1. Given(p.source, p.name) \in Names /\ p.name \in Names
  BY DEF Valid, Given
<1>2. p.version \in PackageVersions \cup {0}
  BY DEF Valid, Paragraph, VersionFields
<1>3. Given(p.sourceVersion, p.version) \in PackageVersions \cup {0}
  BY <1>2 DEF Given, Paragraph, VersionFields
<1>4. QED
  BY <1>1, <1>2, <1>3 DEF ParsedPackage, Package, Namespaces

\* The lists of a pool are lists of paragraphs.
IsPool(lists) ==
    /\ DOMAIN lists \in SUBSET Nat
    /\ \A n \in DOMAIN lists : lists[n] \in Seq(Paragraph)

\* A binary of one name and version is one package of them.
OnePackageEach(lists) ==
    \A x, y \in Places(lists) :
        LET p == ParsedPackage(lists[x[1]][x[2]])
            q == ParsedPackage(lists[y[1]][y[2]])
        IN p.name = q.name /\ p.version = q.version => p = q

\* The packages of lists that can be parsed, by their places.
LEMMA ParsedPlaces ==
    ASSUME NEW lists, IsPool(lists)
    PROVE  /\ Places(lists) \in SUBSET (Nat \X Nat)
           /\ \A x \in Places(lists) : /\ x[1] \in DOMAIN lists /\ x[2] \in DOMAIN lists[x[1]]
                                        /\ lists[x[1]][x[2]] \in ToSet(lists[x[1]])
                                        /\ lists[x[1]][x[2]] \in Paragraph
           /\ Range(Parsed(lists)) =
                 {ParsedPackage(p) : p \in UNION {ToSet(lists[n]) : n \in DOMAIN lists}}
<1>1. ASSUME NEW x \in Places(lists)
      PROVE  /\ x[1] \in DOMAIN lists /\ x[2] \in DOMAIN lists[x[1]] /\ x \in Nat \X Nat
             /\ lists[x[1]][x[2]] \in ToSet(lists[x[1]]) /\ lists[x[1]][x[2]] \in Paragraph
  <2>1. PICK n \in DOMAIN lists : x \in {n} \X DOMAIN lists[n]
    BY DEF Places
  <2>2. lists[n] \in Seq(Paragraph) /\ n \in Nat /\ x[1] = n /\ x[2] \in DOMAIN lists[n]
    BY <2>1 DEF IsPool
  <2>3. x[2] \in Nat /\ lists[n][x[2]] \in Paragraph
    BY <2>2
  <2>4. QED
    BY <2>1, <2>2, <2>3 DEF ToSet
<1>2. ASSUME NEW n \in DOMAIN lists, NEW j \in DOMAIN lists[n]
      PROVE  <<n, j>> \in Places(lists) /\ lists[<<n, j>>[1]][<<n, j>>[2]] = lists[n][j]
  BY DEF Places
<1>3. ASSUME NEW p \in UNION {ToSet(lists[n]) : n \in DOMAIN lists}
      PROVE  \E x \in Places(lists) : lists[x[1]][x[2]] = p
  <2>1. PICK n \in DOMAIN lists : p \in ToSet(lists[n])
    OBVIOUS
  <2>2. PICK j \in DOMAIN lists[n] : lists[n][j] = p
    BY <2>1 DEF ToSet
  <2>3. QED
    BY <1>2, <2>2
<1>4. Range(Parsed(lists)) = {ParsedPackage(lists[x[1]][x[2]]) : x \in Places(lists)}
  BY DEF Range, Parsed
<1>5. QED
  BY <1>1, <1>3, <1>4

\* What is selected, in the terms of the code.
LEMMA Selected ==
    ASSUME NEW packages,
           \A x \in DOMAIN packages : packages[x].version \in Nat /\ packages[x].sourceVersion \in Nat
    PROVE  LET kept == {x \in DOMAIN packages : \A y \in DOMAIN packages :
                          packages[y].source = packages[x].source
                            => packages[y].sourceVersion <= packages[x].sourceVersion}
               chosen == {y \in kept : \A z \in kept :
                            z # y /\ packages[z].name = packages[y].name =>
                               \/ packages[z].version < packages[y].version
                               \/ packages[y].version = packages[z].version /\ Before(y, z)}
           IN SelectInstalledVersions(packages) = [x \in chosen |-> packages[x]]
<1> DEFINE kept == {x \in DOMAIN packages : \A y \in DOMAIN packages :
                      packages[y].source = packages[x].source
                        => packages[y].sourceVersion <= packages[x].sourceVersion}
           kept2 == {x \in DOMAIN packages : \A y \in DOMAIN packages :
                      packages[y].source = packages[x].source
                        => ~(packages[y].sourceVersion > packages[x].sourceVersion)}
           chosen == {y \in kept : \A z \in kept :
                        z # y /\ packages[z].name = packages[y].name =>
                           \/ packages[z].version < packages[y].version
                           \/ packages[y].version = packages[z].version /\ Before(y, z)}
           chosen2 == {y \in kept2 : \A z \in kept2 :
                        z # y /\ packages[z].name = packages[y].name =>
                           \/ packages[y].version > packages[z].version
                           \/ packages[y].version = packages[z].version /\ Before(y, z)}
<1>1. SelectInstalledVersions(packages) = [x \in chosen2 |-> packages[x]]
  BY DEF SelectInstalledVersions, HigherDebVersion
<1>2. \A x, y \in DOMAIN packages :
        ~(packages[y].sourceVersion > packages[x].sourceVersion)
          <=> packages[y].sourceVersion <= packages[x].sourceVersion
  OBVIOUS
<1>3. kept2 = kept
  BY <1>2
<1> HIDE DEF kept, kept2
<1>4. \A x, y \in kept : packages[y].version > packages[x].version <=> packages[x].version < packages[y].version
  BY DEF kept
<1>5. chosen2 = chosen
  BY <1>3, <1>4
<1>6. QED
  BY <1>1, <1>5 DEF kept

\* The code selects of a pool what apt installs.
LEMMA SelectedAreInstalled ==
    ASSUME NEW lists, IsPool(lists), Parsable(lists), OnePackageEach(lists)
    PROVE  /\ Range(SelectInstalledVersions(Parsed(lists))) = AptInstalls(lists)
           /\ AptInstalls(lists) \subseteq Package
<1> DEFINE packages == Parsed(lists)
           D == DOMAIN packages
           all == {ParsedPackage(p) : p \in UNION {ToSet(lists[n]) : n \in DOMAIN lists}}
           newest == {p \in all : \A q \in all : q.source = p.source => q.sourceVersion <= p.sourceVersion}
           kept == {x \in D : \A y \in D :
                      packages[y].source = packages[x].source
                        => packages[y].sourceVersion <= packages[x].sourceVersion}
           chosen == {y \in kept : \A z \in kept :
                        z # y /\ packages[z].name = packages[y].name =>
                           \/ packages[z].version < packages[y].version
                           \/ packages[y].version = packages[z].version /\ Before(y, z)}
<1>1. /\ D = Places(lists) /\ D \in SUBSET (Nat \X Nat)
      /\ \A x \in D : packages[x] = ParsedPackage(lists[x[1]][x[2]])
      /\ all = {packages[x] : x \in D}
  <2>1. D = Places(lists) /\ \A x \in D : packages[x] = ParsedPackage(lists[x[1]][x[2]])
    BY DEF Parsed
  <2>2. Range(packages) = all /\ D \in SUBSET (Nat \X Nat)
    BY <2>1, ParsedPlaces
  <2>3. QED
    BY <2>1, <2>2 DEF Range
<1>2. \A x \in D : packages[x] \in Package
  <2>1. ASSUME NEW x \in D
        PROVE  packages[x] \in Package
    <3>1. lists[x[1]][x[2]] \in Paragraph /\ Valid(lists[x[1]][x[2]])
      BY <1>1, ParsedPlaces DEF Parsable
    <3>2. QED
      BY <1>1, <3>1, ParsedPackageType
  <2>2. QED
    BY <2>1
<1>3. PackageVersions \cup {0} \subseteq Nat
  BY ListingAssumption
<1>4. \A x \in D : packages[x].version \in Nat /\ packages[x].sourceVersion \in Nat
  BY <1>2, <1>3 DEF Package
<1>5. \A x, y \in D :
        packages[x].name = packages[y].name /\ packages[x].version = packages[y].version
          => packages[x] = packages[y]
  BY <1>1 DEF OnePackageEach
<1>6. AptInstalls(lists) = {p \in newest : \A q \in newest : q.name = p.name => q.version <= p.version}
  BY DEF AptInstalls
<1>7. SelectInstalledVersions(packages) = [x \in chosen |-> packages[x]]
  BY <1>4, Selected
<1> HIDE DEF packages, D, all
<1>8. newest = {packages[x] : x \in kept} /\ kept \subseteq D
  BY <1>1
<1>9. AptInstalls(lists) \subseteq Package
  BY <1>2, <1>6, <1>8
<1> HIDE DEF newest, kept
<1>10. ASSUME NEW x \in chosen
       PROVE  packages[x] \in AptInstalls(lists)
  <2>1. \A z \in kept : packages[z].name = packages[x].name => packages[z].version <= packages[x].version
    BY <1>4, <1>8
  <2>2. QED
    BY <1>6, <1>8, <2>1
<1>11. ASSUME NEW p \in AptInstalls(lists)
       PROVE  \E x \in chosen : packages[x] = p
  <2> DEFINE T == {x \in kept : packages[x] = p}
  <2>1. T # {} /\ T \in SUBSET (Nat \X Nat)
    BY <1>1, <1>6, <1>8
  <2>2. PICK x \in T : \A y \in T : ~Before(y, x)
    BY <2>1, FirstPlace
  <2>3. ASSUME NEW z \in kept, z # x, packages[z].name = packages[x].name
        PROVE  \/ packages[z].version < packages[x].version
               \/ packages[x].version = packages[z].version /\ Before(x, z)
    <3>1. packages[z].version <= packages[x].version
      BY <1>6, <1>8, <2>2, <2>3
    <3>2. CASE packages[z].version = packages[x].version
      <4>1. packages[z] = p /\ z \in T
        BY <1>5, <1>8, <2>2, <2>3, <3>2
      <4>2. Before(x, z)
        BY <1>1, <1>8, <2>1, <2>2, <2>3, <4>1, PlacesAreOrdered
      <4>3. QED
        BY <3>2, <4>2
    <3>3. CASE packages[z].version # packages[x].version
      BY <1>4, <1>8, <3>1, <3>3
    <3>4. QED
      BY <3>2, <3>3
  <2>4. x \in chosen
    BY <2>2, <2>3
  <2>5. QED
    BY <2>2, <2>4
<1> HIDE DEF chosen
<1>12. Range(SelectInstalledVersions(packages)) = {packages[x] : x \in chosen}
  BY <1>7 DEF Range
<1>13. Range(SelectInstalledVersions(packages)) = AptInstalls(lists)
  BY <1>10, <1>11, <1>12
<1>14. QED
  BY <1>9, <1>13 DEF packages

\* Of a pool only what is the highest version of its source is selected.
LEMMA SelectedIsNewest ==
    ASSUME NEW lists, IsPool(lists), Parsable(lists),
           NEW p \in Range(SelectInstalledVersions(Parsed(lists)))
    PROVE  \E n \in DOMAIN lists : \E j \in DOMAIN lists[n] :
              /\ p = ParsedPackage(lists[n][j])
              /\ \A k \in DOMAIN lists[n] :
                    LET q == ParsedPackage(lists[n][k])
                    IN q.source = p.source => q.sourceVersion <= p.sourceVersion
<1> DEFINE packages == Parsed(lists)
           D == DOMAIN packages
           kept == {x \in D : \A y \in D :
                      packages[y].source = packages[x].source
                        => packages[y].sourceVersion <= packages[x].sourceVersion}
           chosen == {y \in kept : \A z \in kept :
                        z # y /\ packages[z].name = packages[y].name =>
                           \/ packages[z].version < packages[y].version
                           \/ packages[y].version = packages[z].version /\ Before(y, z)}
<1>1. D = Places(lists) /\ \A x \in D : packages[x] = ParsedPackage(lists[x[1]][x[2]])
  BY DEF Parsed
<1>2. \A x \in D : packages[x].version \in Nat /\ packages[x].sourceVersion \in Nat
  <2>1. ASSUME NEW x \in D
        PROVE  packages[x] \in Package
    <3>1. lists[x[1]][x[2]] \in Paragraph /\ Valid(lists[x[1]][x[2]])
      BY <1>1, ParsedPlaces DEF Parsable
    <3>2. QED
      BY <1>1, <3>1, ParsedPackageType
  <2>2. PackageVersions \cup {0} \subseteq Nat
    BY ListingAssumption
  <2> HIDE DEF packages
  <2>3. QED
    BY <2>1, <2>2 DEF Package
<1>3. SelectInstalledVersions(packages) = [x \in chosen |-> packages[x]]
  BY <1>2, Selected
<1>4. PICK x \in kept : p = packages[x]
  BY <1>3 DEF Range
<1>5. x \in Places(lists) /\ x[1] \in DOMAIN lists /\ x[2] \in DOMAIN lists[x[1]]
  BY <1>1, ParsedPlaces
<1>6. ASSUME NEW k \in DOMAIN lists[x[1]], ParsedPackage(lists[x[1]][k]).source = p.source
      PROVE  ParsedPackage(lists[x[1]][k]).sourceVersion <= p.sourceVersion
  <2>1. <<x[1], k>> \in Places(lists) /\ <<x[1], k>>[1] = x[1] /\ <<x[1], k>>[2] = k
    BY <1>5 DEF Places
  <2>2. <<x[1], k>> \in D /\ packages[<<x[1], k>>] = ParsedPackage(lists[x[1]][k])
    BY <1>1, <2>1
  <2> HIDE DEF packages, D
  <2>3. QED
    BY <1>4, <1>6, <2>2
<1>7. p = ParsedPackage(lists[x[1]][x[2]])
  BY <1>1, <1>4
<1>8. QED
  BY <1>5, <1>6, <1>7

\* A component that can be converted becomes a package.
LEMMA DebPackageType ==
    ASSUME NEW c \in BOMComponent, Bucket(c) = "deb", Convertible(c)
    PROVE  DebPackage(c) \in Package
<1>1. c.purl # Missing /\ c.purl # Malformed
  BY DEF Bucket
<1>2. c.purl \in PURL
  BY <1>1 DEF BOMComponent
<1>3. c.name \in Names /\ SourceName(c) \in Names
  BY DEF Convertible
<1>4. c.version \in PackageVersions \cup {0}
  BY <1>2 DEF Convertible, PURL, VersionFields
<1>5. Given(c.purl.upstreamVersion, c.version) \in PackageVersions \cup {0}
  BY <1>2, <1>4 DEF Given, PURL, VersionFields
<1>6. Namespace(c) \in Namespaces
  BY <1>2 DEF Namespace, Given, PURL, Namespaces
<1>7. QED
  BY <1>3, <1>4, <1>5, <1>6 DEF DebPackage, Package

\* An SBOM that is understood says of each Debian package what it is.
LEMMA SBOMPackages ==
    ASSUME NEW bom \in BOM, Understood(bom)
    PROVE  /\ DOMAIN PackageListFromSBOM(bom) \in SUBSET (Nat \X Nat)
           /\ Range(PackageListFromSBOM(bom)) =
                 {DebPackage(c) : c \in {y \in ToSet(bom.components) :
                                           y.purl # Missing /\ y.purl.type = "deb"}}
           /\ Range(PackageListFromSBOM(bom)) \subseteq Package
<1> DEFINE comp == bom.components
           debs == In(bom, "deb")
           wanted == {y \in ToSet(comp) : y.purl # Missing /\ y.purl.type = "deb"}
<1>1. comp \in Seq(BOMComponent) /\ DOMAIN comp \subseteq Nat
  BY DEF BOM
<1>2. debs = {i \in DOMAIN comp : Bucket(comp[i]) = "deb"}
  BY DEF In
<1>3. \A i \in DOMAIN comp : comp[i] \in BOMComponent /\ Bucket(comp[i]) # "unknown"
  BY <1>1 DEF Understood, In
<1>4. \A i \in debs : Convertible(comp[i])
  BY DEF Understood
<1>5. PackageListFromSBOM(bom) = [x \in {1} \X debs |-> DebPackage(comp[x[2]])]
  BY DEF PackageListFromSBOM
<1>6. \A i \in DOMAIN comp :
        Bucket(comp[i]) = "deb" <=> comp[i].purl # Missing /\ comp[i].purl.type = "deb"
  BY <1>3 DEF Bucket
<1>7. wanted = {comp[i] : i \in debs}
  BY <1>2, <1>6 DEF ToSet
<1> HIDE DEF comp, debs, wanted
<1>8. \A i \in debs : <<1, i>> \in {1} \X debs /\ <<1, i>>[2] = i
  OBVIOUS
<1>9. Range(PackageListFromSBOM(bom)) = {DebPackage(comp[i]) : i \in debs}
  <2>1. Range(PackageListFromSBOM(bom)) = {DebPackage(comp[x[2]]) : x \in {1} \X debs}
    BY <1>5 DEF Range
  <2>2. \A x \in {1} \X debs : x[2] \in debs
    OBVIOUS
  <2>3. QED
    BY <1>8, <2>1, <2>2
<1>10. DOMAIN PackageListFromSBOM(bom) \in SUBSET (Nat \X Nat)
  BY <1>1, <1>2, <1>5
<1>11. Range(PackageListFromSBOM(bom)) \subseteq Package
  BY <1>2, <1>3, <1>4, <1>9, DebPackageType
<1>12. QED
  BY <1>7, <1>9, <1>10, <1>11 DEF comp, wanted

\* The rules of an SBOM.
LEMMA SBOMRules ==
    ASSUME NEW bom \in BOM, Understood(bom)
    PROVE  VendoredFromSBOM(bom) \subseteq Rule
<1> SUFFICES ASSUME NEW rule \in VendoredFromSBOM(bom) PROVE rule \in Rule
  OBVIOUS
<1>1. /\ bom.components \in Seq(BOMComponent)
      /\ \A i \in DOMAIN bom.components : bom.components[i] \in BOMComponent
  BY DEF BOM
<1>2. PICK i \in In(bom, "deb") :
        \E child \in UNION {Referenced(bom, edge[2]) :
                             edge \in {e \in bom.edges : e[1] = bom.components[i].ref}} :
           rule = [component |-> child.purl.name, target |-> Identity(DebPackage(bom.components[i]))]
  BY DEF VendoredFromSBOM
<1>3. PICK edge \in bom.edges : \E child \in Referenced(bom, edge[2]) :
        rule = [component |-> child.purl.name, target |-> Identity(DebPackage(bom.components[i]))]
  BY <1>2
<1>4. PICK child \in Referenced(bom, edge[2]) :
        rule = [component |-> child.purl.name, target |-> Identity(DebPackage(bom.components[i]))]
  BY <1>3
<1>5. DebPackage(bom.components[i]) \in Package
  BY <1>1, DebPackageType DEF In, Understood
<1>6. child \in BOMComponent /\ Bucket(child) = "other"
  BY <1>1 DEF Referenced, In
<1>7. child.purl \in PURL
  BY <1>6 DEF Bucket, BOMComponent
<1>8. QED
  BY <1>4, <1>5, <1>7 DEF Rule, Target, Identity, Package, PURL

-----------------------------------------------------------------------------
(* The invariant.                                                          *)

Due == UNION {{i} \X DueFrom(i) : i \in Maintained}

\* What is delivered next.
First(i, f) == <<i, f>> \in left /\ \A d \in left : ~Before(d, <<i, f>>)

\* A download of the pool of a release, as far as it got.
Fetched(i, moments, now) ==
    /\ moments \in Seq(Moments)
    /\ \A n \in DOMAIN moments : moments[n] \in {"before", now} /\ n \in DOMAIN ListsAt(i, moments[n])

\* The packages of a release that a consumer was told of, when L is still to be
\* delivered and s was downloaded.
Had(i, L, s) ==
    IF HasAllSBOMs(i)
    THEN UNION {Range(PackageListFromSBOM(BOMs(i)[f])) : f \in {g \in DOMAIN BOMs(i) : <<i, g>> \notin L}}
    ELSE IF i \in DOMAIN s THEN Range(PackageListsFromInRelease(i, s[i])) ELSE {}

AllHad(L, s) == UNION {Had(i, L, s) : i \in Maintained}

HadBy(k, L, s) == UNION {Had(i, L, s) : i \in {j \in Maintained : Key(j) = k}}

ShippedTypeOK ==
    /\ world \in DOMAIN Worlds /\ moment \in Moments /\ left \in SUBSET Due
    /\ consumer \in Consumers /\ feed \in {"reading", "complete", "failed"}
    /\ due \in Nat \cup {NotKnown} /\ read \in Seq(Moments)
    /\ due = NotKnown => read = <<>>
    /\ due # NotKnown => Len(read) <= due
    /\ seen = [c \in Consumers |-> seen[c]]
    /\ inventory \subseteq Target /\ rules \subseteq Rule
    /\ \A k \in DOMAIN index : index[k] \subseteq ShippedSource

\* A pool is downloaded only in its turn.
PoolInv ==
    /\ consumer = "index" \/ due # NotKnown => \E i \in Maintained : First(i, Pool)
    /\ \A i \in Maintained : First(i, Pool) => Fetched(i, read, moment)

\* What was downloaded: the pool of each release that was delivered, and the one that
\* the inventory has and the index has not.
SeenInv ==
    \A c \in Consumers :
        /\ DOMAIN seen[c] =
             {i \in Maintained : /\ ~HasAllSBOMs(i)
                                 /\ \/ <<i, Pool>> \notin left
                                    \/ c = "inventory" /\ consumer = "index" /\ First(i, Pool)}
        /\ \A i \in DOMAIN seen[c] :
             Fetched(i, seen[c][i], moment) /\ Parsable(Downloaded(i, seen[c][i]))

SBOMInv ==
    \A i \in Maintained : HasAllSBOMs(i) =>
        \A f \in DOMAIN BOMs(i) : <<i, f>> \notin left => Understood(BOMs(i)[f])

InventoryInv == inventory = {Identity(p) : p \in AllHad(left, seen["inventory"])}

Begun == {j \in Maintained : \E f \in DueFrom(j) : <<j, f>> \notin left}

IndexInv ==
    /\ DOMAIN index = {Key(i) : i \in Begun}
    /\ \A k \in Releases : KnownAs(SourcesOf(k), HadBy(k, left, seen["index"]))

ShippedInv ==
    /\ ShippedTypeOK /\ PoolInv /\ SeenInv /\ SBOMInv /\ InventoryInv /\ IndexInv
    /\ feed = "complete" => left = {}

-----------------------------------------------------------------------------
(* What is published.                                                      *)

\* The world is a world.
LEMMA WorldType ==
    ASSUME world \in DOMAIN Worlds, NEW i \in Maintained
    PROVE  /\ i \in DOMAIN Worlds[world].releases /\ i \in Nat
           /\ BOMs(i) \in Seq(BOM \cup {NoSBOM})
           /\ \A m \in Moments : ListsAt(i, m) \in Seq(Seq(Paragraph))
<1>1. /\ Worlds[world] \in World
      /\ \A m \in Moments : Len(Worlds[world].pools[m]) = Len(Worlds[world].releases)
  BY ShippedAssumption
<1>2. /\ Worlds[world].releases \in Seq(Release)
      /\ \A m \in Moments : Worlds[world].pools[m] \in Seq(Seq(Seq(Paragraph)))
  BY <1>1 DEF World
<1>3. i \in DOMAIN Worlds[world].releases
  BY DEF Maintained
<1>4. Worlds[world].releases[i] \in Release /\ i \in Nat
  BY <1>2, <1>3
<1>5. ASSUME NEW m \in Moments
      PROVE  ListsAt(i, m) \in Seq(Seq(Paragraph))
  <2> DEFINE pool == Worlds[world].pools[m]  releases == Worlds[world].releases
  <2>1. pool \in Seq(Seq(Seq(Paragraph))) /\ releases \in Seq(Release) /\ Len(pool) = Len(releases)
        /\ i \in DOMAIN releases
    BY <1>1, <1>2, <1>3
  <2> HIDE DEF pool, releases
  <2>2. i \in DOMAIN pool
    BY <2>1
  <2>3. pool[i] \in Seq(Seq(Paragraph))
    BY <2>1, <2>2
  <2>4. QED
    BY <2>3 DEF ListsAt, pool
<1>6. BOMs(i) \in Seq(BOM \cup {NoSBOM})
  BY <1>4 DEF BOMs, Release
<1>7. QED
  BY <1>3, <1>4, <1>5, <1>6

\* The code and the property agree on what is maintained and what is complete.
LEMMA SameReleases ==
    /\ MaintainedReleases = Maintained
    /\ \A i : Complete(BOMs(i)) <=> HasAllSBOMs(i)
    /\ Releases = {Key(i) : i \in Maintained}
<1>1. MaintainedReleases = Maintained
  BY DEF MaintainedReleases, Maintained, IsMaintained
<1>2. QED
  BY <1>1 DEF Complete, HasAllSBOMs, ToSet, Releases

\* What is due for a release: every SBOM, or the pool.
LEMMA DueOfRelease ==
    ASSUME world \in DOMAIN Worlds, NEW i \in Maintained
    PROVE  /\ HasAllSBOMs(i) => /\ DueFrom(i) = DOMAIN BOMs(i) /\ Pool \notin DueFrom(i)
                                /\ DOMAIN BOMs(i) # {}
                                /\ \A f \in DOMAIN BOMs(i) : BOMs(i)[f] \in BOM
           /\ ~HasAllSBOMs(i) => DueFrom(i) = {Pool}
           /\ DueFrom(i) \subseteq Nat
<1> DEFINE boms == BOMs(i)
<1>1. boms \in Seq(BOM \cup {NoSBOM})
  BY WorldType
<1>2. Complete(boms) <=> HasAllSBOMs(i)
  BY SameReleases
<1>3. DueFrom(i) = IF Complete(boms) THEN {f \in DOMAIN boms : boms[f] # NoSBOM} ELSE {Pool}
  BY DEF DueFrom
<1> HIDE DEF boms
<1>4. ASSUME Complete(boms)
      PROVE  /\ \A f \in DOMAIN boms : boms[f] # NoSBOM /\ boms[f] \in BOM /\ f # Pool
             /\ DOMAIN boms # {}
  BY <1>1, <1>4 DEF Complete, Pool
<1>5. DOMAIN boms \subseteq Nat /\ Pool \in Nat
  BY <1>1 DEF Pool
<1>6. QED
  BY <1>2, <1>3, <1>4, <1>5 DEF boms

\* What is due is places.
LEMMA DueArePlaces ==
    ASSUME world \in DOMAIN Worlds
    PROVE  /\ Due \in SUBSET (Nat \X Nat)
           /\ \A i, f : <<i, f>> \in Due <=> i \in Maintained /\ f \in DueFrom(i)
           /\ \A d \in Due : d = <<d[1], d[2]>>
<1>1. \A i, f : <<i, f>> \in Due <=> i \in Maintained /\ f \in DueFrom(i)
  BY DEF Due
<1>2. ASSUME NEW d \in Due
      PROVE  d \in Nat \X Nat /\ d = <<d[1], d[2]>>
  <2>1. PICK i \in Maintained : d \in {i} \X DueFrom(i)
    BY DEF Due
  <2>2. i \in Nat /\ DueFrom(i) \subseteq Nat
    BY WorldType, DueOfRelease
  <2>3. QED
    BY <2>1, <2>2
<1>3. QED
  BY <1>1, <1>2

\* But one thing is delivered at a time.
LEMMA OneFirst ==
    ASSUME ShippedTypeOK, NEW i, NEW f, NEW j, NEW g, First(i, f), First(j, g)
    PROVE  i = j /\ f = g
<1>1. <<i, f>> \in Nat \X Nat /\ <<j, g>> \in Nat \X Nat
  BY DueArePlaces DEF ShippedTypeOK, First
<1>2. ~Before(<<i, f>>, <<j, g>>) /\ ~Before(<<j, g>>, <<i, f>>)
  BY DEF First
<1>3. <<i, f>> = <<j, g>>
  BY <1>1, <1>2, PlacesAreOrdered
<1>4. QED
  BY <1>3

\* What was downloaded of a pool are lists of it.
LEMMA DownloadedPool ==
    ASSUME world \in DOMAIN Worlds, NEW i \in Maintained, NEW moments, NEW now \in Moments,
           Fetched(i, moments, now)
    PROVE  /\ IsPool(Downloaded(i, moments))
           /\ DOMAIN Downloaded(i, moments) = DOMAIN moments
           /\ \A n \in DOMAIN moments : /\ Downloaded(i, moments)[n] = ListsAt(i, moments[n])[n]
                                         /\ Downloaded(i, moments)[n] \in ToSet(ListsAt(i, moments[n]))
           /\ Parsable(Downloaded(i, moments)) => OnePackageEach(Downloaded(i, moments))
<1> DEFINE lists == Downloaded(i, moments)
<1>1. DOMAIN lists = DOMAIN moments /\ \A n \in DOMAIN moments : lists[n] = ListsAt(i, moments[n])[n]
  BY DEF Downloaded
<1>2. /\ moments \in Seq(Moments) /\ DOMAIN moments \in SUBSET Nat
      /\ \A n \in DOMAIN moments : moments[n] \in Moments /\ n \in DOMAIN ListsAt(i, moments[n])
  BY DEF Fetched
<1> HIDE DEF lists
<1>3. ASSUME NEW n \in DOMAIN moments
      PROVE  lists[n] \in Seq(Paragraph) /\ lists[n] \in ToSet(ListsAt(i, moments[n]))
  <2> DEFINE pool == ListsAt(i, moments[n])
  <2>1. pool \in Seq(Seq(Paragraph)) /\ n \in DOMAIN pool /\ lists[n] = pool[n]
    BY <1>1, <1>2, WorldType
  <2> HIDE DEF pool
  <2>2. pool[n] \in Seq(Paragraph) /\ pool[n] \in ToSet(pool)
    BY <2>1 DEF ToSet
  <2>3. QED
    BY <2>1, <2>2 DEF pool
<1>4. IsPool(lists)
  BY <1>1, <1>2, <1>3 DEF IsPool
<1>5. ASSUME Parsable(lists)
      PROVE  OnePackageEach(lists)
  <2> DEFINE all == UNION {ToSet(Worlds[world].pools[m][i]) : m \in Moments}
  <2>1. \A p, q \in {x \in UNION {ToSet(packages) : packages \in all} : Valid(x)} :
           LET binary == ParsedPackage(p) other == ParsedPackage(q)
           IN binary.name = other.name /\ binary.version = other.version => binary = other
    BY ArchiveAssumption, WorldType
  <2>2. ASSUME NEW x \in Places(lists)
        PROVE  lists[x[1]][x[2]] \in {y \in UNION {ToSet(packages) : packages \in all} : Valid(y)}
    <3>1. x[1] \in DOMAIN moments /\ lists[x[1]][x[2]] \in ToSet(lists[x[1]])
      BY <1>1, <1>4, ParsedPlaces
    <3>2. lists[x[1]] \in all
      BY <1>2, <1>3, <3>1 DEF ListsAt
    <3>3. Valid(lists[x[1]][x[2]])
      BY <1>1, <1>5, <3>1 DEF Parsable
    <3>4. QED
      BY <3>1, <3>2, <3>3
  <2> HIDE DEF all
  <2>3. QED
    BY <2>1, <2>2 DEF OnePackageEach
<1>6. QED
  BY <1>1, <1>3, <1>4, <1>5 DEF lists

\* What a consumer makes of a download.
LEMMA PoolPackages ==
    ASSUME world \in DOMAIN Worlds, NEW i \in Maintained, NEW moments, NEW now \in Moments,
           Fetched(i, moments, now), Parsable(Downloaded(i, moments))
    PROVE  /\ DOMAIN PackageListsFromInRelease(i, moments) \in SUBSET (Nat \X Nat)
           /\ Range(PackageListsFromInRelease(i, moments)) = AptInstalls(Downloaded(i, moments))
           /\ Range(PackageListsFromInRelease(i, moments)) \subseteq Package
<1> DEFINE lists == Downloaded(i, moments)
<1>1. IsPool(lists) /\ Parsable(lists) /\ OnePackageEach(lists)
  BY DownloadedPool
<1> HIDE DEF lists
<1>2. /\ Range(SelectInstalledVersions(Parsed(lists))) = AptInstalls(lists)
      /\ AptInstalls(lists) \subseteq Package
  BY <1>1, SelectedAreInstalled
<1>3. DOMAIN SelectInstalledVersions(Parsed(lists)) \subseteq DOMAIN Parsed(lists)
  BY DEF SelectInstalledVersions
<1>4. DOMAIN Parsed(lists) \in SUBSET (Nat \X Nat)
  BY <1>1, ParsedPlaces DEF Parsed
<1>5. QED
  BY <1>2, <1>3, <1>4 DEF PackageListsFromInRelease, lists

-----------------------------------------------------------------------------
(* The invariant holds.                                                    *)

\* What is published by a release does not change; the pools do.
LEMMA SameWorld ==
    ASSUME world' = world
    PROVE  /\ Maintained' = Maintained /\ Releases' = Releases /\ Due' = Due
           /\ \A i : /\ BOMs(i)' = BOMs(i) /\ Key(i)' = Key(i)
                     /\ HasAllSBOMs(i)' <=> HasAllSBOMs(i)
                     /\ DueFrom(i)' = DueFrom(i)
           /\ \A i, m : ListsAt(i, m)' = ListsAt(i, m)
           /\ \A i, ms : /\ Downloaded(i, ms)' = Downloaded(i, ms)
                         /\ PackageListsFromInRelease(i, ms)' = PackageListsFromInRelease(i, ms)
           /\ \A i, ms, now : Fetched(i, ms, now)' <=> Fetched(i, ms, now)
<1>1. Maintained' = Maintained /\ Releases' = Releases
  BY DEF Maintained, Releases, MaintainedReleases, Key
<1>2. \A i : /\ BOMs(i)' = BOMs(i) /\ Key(i)' = Key(i)
             /\ HasAllSBOMs(i)' <=> HasAllSBOMs(i)
             /\ DueFrom(i)' = DueFrom(i)
  BY DEF BOMs, Key, HasAllSBOMs, DueFrom
<1>3. \A i, m : ListsAt(i, m)' = ListsAt(i, m)
  BY DEF ListsAt
<1>4. \A i, ms : Downloaded(i, ms)' = Downloaded(i, ms)
  BY <1>3 DEF Downloaded
<1>5. \A i, ms : PackageListsFromInRelease(i, ms)' = PackageListsFromInRelease(i, ms)
  BY <1>4 DEF PackageListsFromInRelease
<1>6. \A i, ms, now : Fetched(i, ms, now)' <=> Fetched(i, ms, now)
  BY <1>3 DEF Fetched
<1>7. Due' = Due
  BY <1>1, <1>2 DEF Due
<1>8. QED
  BY <1>1, <1>2, <1>3, <1>4, <1>5, <1>6, <1>7

\* Nor does what the consumers were told of, but for what is delivered.
LEMMA NextHad ==
    ASSUME world' = world, NEW c
    PROVE  /\ \A i : Had(i, left, seen[c])' = Had(i, left', seen'[c])
           /\ AllHad(left, seen[c])' = AllHad(left', seen'[c])
           /\ \A k : HadBy(k, left, seen[c])' = HadBy(k, left', seen'[c])
<1>1. \A i : Had(i, left, seen[c])' = Had(i, left', seen'[c])
  BY SameWorld DEF Had
<1>2. AllHad(left, seen[c])' = AllHad(left', seen'[c])
  BY <1>1, SameWorld DEF AllHad
<1>3. \A k : HadBy(k, left, seen[c])' = HadBy(k, left', seen'[c])
  BY <1>1, SameWorld DEF HadBy
<1>4. QED
  BY <1>1, <1>2, <1>3

\* What one release brings is what those of its name have more.
LEMMA HadMore ==
    ASSUME NEW i \in Maintained, NEW L, NEW L2, NEW s, NEW s2, NEW R,
           Had(i, L2, s2) = Had(i, L, s) \cup R,
           \A j \in Maintained : j # i => Had(j, L2, s2) = Had(j, L, s)
    PROVE  /\ HadBy(Key(i), L2, s2) = HadBy(Key(i), L, s) \cup R
           /\ \A k : k # Key(i) => HadBy(k, L2, s2) = HadBy(k, L, s)
<1>1. HadBy(Key(i), L2, s2) = HadBy(Key(i), L, s) \cup R
  BY DEF HadBy
<1>2. \A k : k # Key(i) => HadBy(k, L2, s2) = HadBy(k, L, s)
  BY DEF HadBy
<1>3. QED
  BY <1>1, <1>2

\* The invariant holds before anything is delivered.
LEMMA ShippedInvInit == ShippedInit => ShippedInv
<1> SUFFICES ASSUME ShippedInit PROVE ShippedInv
  OBVIOUS
<1>1. /\ world \in DOMAIN Worlds /\ moment = "before" /\ left = Due
      /\ consumer = "inventory" /\ due = NotKnown /\ read = <<>>
      /\ seen = [c \in Consumers |-> <<>>]
      /\ inventory = {} /\ rules = {} /\ index = <<>> /\ feed = "reading"
  BY DEF ShippedInit, Due, NoneSeen
<1>2. \A i \in Maintained : \A f : <<i, f>> \notin left => f \notin DueFrom(i)
  BY <1>1, DueArePlaces
<1>3. \A c \in Consumers : seen[c] = <<>> /\ DOMAIN seen[c] = {}
  BY <1>1
<1>4. ShippedTypeOK
  BY <1>1 DEF ShippedTypeOK, Moments, Consumers, NotKnown
<1>5. PoolInv
  BY <1>1 DEF PoolInv, Fetched
<1>6. SeenInv
  BY <1>1, <1>2, <1>3, DueOfRelease DEF SeenInv
<1>7. SBOMInv
  BY <1>1, <1>2, DueOfRelease DEF SBOMInv
<1>8. \A i \in Maintained, c \in Consumers : Had(i, left, seen[c]) = {}
  BY <1>1, <1>2, <1>3, DueOfRelease DEF Had
<1>9. /\ AllHad(left, seen["inventory"]) = {}
      /\ \A k : HadBy(k, left, seen["index"]) = {}
  BY <1>8 DEF AllHad, HadBy, Consumers
<1>10. InventoryInv
  BY <1>1, <1>9 DEF InventoryInv
<1>11. IndexInv
  <2>1. Begun = {} /\ DOMAIN index = {}
    <3>1. Begun = {}
      BY <1>2 DEF Begun
    <3>2. QED
      BY <1>1, <3>1
  <2>2. \A k : SourcesOf(k) = {}
    BY <2>1 DEF SourcesOf
  <2>3. KnownAs({}, {})
    BY DEF KnownAs
  <2>4. QED
    BY <1>9, <2>1, <2>2, <2>3 DEF IndexInv
<1>12. QED
  BY <1>1, <1>4, <1>5, <1>6, <1>7, <1>10, <1>11 DEF ShippedInv

\* A step that delivers nothing.
LEMMA QuietStep ==
    ASSUME ShippedInv,
           UNCHANGED <<world, left, consumer, seen, inventory, rules, index>>,
           moment' = moment \/ moment = "before"
    PROVE  SeenInv' /\ SBOMInv' /\ InventoryInv' /\ IndexInv'
<1>1. /\ world' = world /\ left' = left /\ consumer' = consumer /\ seen' = seen
      /\ inventory' = inventory /\ index' = index
  OBVIOUS
<1>2. \A i, f : First(i, f)' <=> First(i, f)
  BY <1>1 DEF First
<1>3. \A i, ms : Fetched(i, ms, moment) => Fetched(i, ms, moment')
  BY DEF Fetched
<1>4. \A i, ms : Fetched(i, ms, moment)' <=> Fetched(i, ms, moment')
  BY <1>1, SameWorld DEF Fetched
<1>5. SeenInv'
  BY <1>1, <1>2, <1>3, <1>4, SameWorld DEF ShippedInv, SeenInv
<1>6. SBOMInv'
  BY <1>1, SameWorld DEF ShippedInv, SBOMInv
<1>7. InventoryInv'
  BY <1>1, NextHad DEF ShippedInv, InventoryInv
<1>8. IndexInv'
  <2>1. Begun' = Begun /\ {Key(i) : i \in Begun}' = {Key(i) : i \in Begun}
    <3>1. Begun' = Begun
      BY <1>1, SameWorld DEF Begun
    <3>2. QED
      BY <3>1, SameWorld
  <2>2. \A k : SourcesOf(k)' = SourcesOf(k) /\ HadBy(k, left, seen["index"])' = HadBy(k, left, seen["index"])
    BY <1>1, NextHad DEF SourcesOf
  <2>3. QED
    BY <1>1, <2>1, <2>2, SameWorld DEF ShippedInv, IndexInv, KnownAs
<1>9. QED
  BY <1>5, <1>6, <1>7, <1>8

\* Packages of a release that the inventory takes.
LEMMA InventoryMore ==
    ASSUME ShippedInv, world' = world, NEW i \in Maintained, NEW packages,
           Range(packages) \subseteq Package, ToInventory(packages),
           Had(i, left', seen'["inventory"]) = Had(i, left, seen["inventory"]) \cup Range(packages),
           \A j \in Maintained : j # i =>
              Had(j, left', seen'["inventory"]) = Had(j, left, seen["inventory"])
    PROVE  InventoryInv' /\ inventory' \subseteq Target
<1> DEFINE R == Range(packages)
           had == AllHad(left, seen["inventory"])
           now == AllHad(left', seen'["inventory"])
<1>1. inventory' = inventory \cup {Identity(p) : p \in R} /\ inventory = {Identity(p) : p \in had}
      /\ inventory \subseteq Target
  BY DEF ToInventory, ShippedInv, InventoryInv, ShippedTypeOK
<1>2. now = had \cup R
  <2> DEFINE L2 == left'  s2 == seen'["inventory"]  s1 == seen["inventory"]
  <2>1. /\ Had(i, L2, s2) = Had(i, left, s1) \cup R
        /\ \A j \in Maintained : j # i => Had(j, L2, s2) = Had(j, left, s1)
    OBVIOUS
  <2> HIDE DEF L2, s2, s1, R
  <2>2. AllHad(L2, s2) = AllHad(left, s1) \cup R
    BY <2>1 DEF AllHad
  <2>3. QED
    BY <2>2 DEF L2, s2, s1
<1>3. AllHad(left, seen["inventory"])' = now
  BY NextHad
<1> HIDE DEF had, now
<1>4. inventory' = {Identity(p) : p \in now}
  BY <1>1, <1>2
<1>5. \A p \in R : Identity(p) \in Target
  BY DEF Package, Identity, Target
<1>6. QED
  BY <1>1, <1>3, <1>4, <1>5 DEF InventoryInv

\* Packages of a release that the index takes.
LEMMA IndexMore ==
    ASSUME ShippedInv, world' = world, NEW i \in Maintained, NEW packages,
           DOMAIN packages \in SUBSET (Nat \X Nat), Range(packages) \subseteq Package,
           ToIndex(Key(i), packages),
           Had(i, left', seen'["index"]) = Had(i, left, seen["index"]) \cup Range(packages),
           \A j \in Maintained : j # i =>
              Had(j, left', seen'["index"]) = Had(j, left, seen["index"]),
           Begun' = Begun \cup {i}
    PROVE  IndexInv' /\ \A k \in DOMAIN index' : index'[k] \subseteq ShippedSource
<1> DEFINE R == Range(packages)
           S == SourcesOf(Key(i))
           A == Added(S, packages)
           ks == DOMAIN index \cup {Key(i)}
<1>1. /\ index' = [k \in ks |-> IF k = Key(i) THEN A ELSE index[k]]
      /\ ~Conflict(S, packages)
  BY DEF ToIndex
<1>2. /\ DOMAIN index = {Key(j) : j \in Begun}
      /\ \A k \in Releases : KnownAs(SourcesOf(k), HadBy(k, left, seen["index"]))
      /\ \A k \in DOMAIN index : index[k] \subseteq ShippedSource
  BY DEF ShippedInv, IndexInv, ShippedTypeOK
<1>3. Key(i) \in Releases
  BY SameReleases
<1>4. /\ HadBy(Key(i), left', seen'["index"]) = HadBy(Key(i), left, seen["index"]) \cup R
      /\ \A k : k # Key(i) => HadBy(k, left', seen'["index"]) = HadBy(k, left, seen["index"])
  <2> DEFINE L2 == left'  s2 == seen'["index"]  s1 == seen["index"]
  <2>1. /\ Had(i, L2, s2) = Had(i, left, s1) \cup R
        /\ \A j \in Maintained : j # i => Had(j, L2, s2) = Had(j, left, s1)
    OBVIOUS
  <2> HIDE DEF L2, s2, s1, R
  <2>2. /\ HadBy(Key(i), L2, s2) = HadBy(Key(i), left, s1) \cup R
        /\ \A k : k # Key(i) => HadBy(k, L2, s2) = HadBy(k, left, s1)
    BY <2>1, HadMore
  <2>3. QED
    BY <2>2 DEF L2, s2, s1
<1>5. KnownAs(A, HadBy(Key(i), left, seen["index"]) \cup R)
  BY <1>1, <1>2, <1>3, AddingKeepsKnown
<1>6. S \subseteq ShippedSource
  BY <1>2 DEF SourcesOf
<1>7. A \subseteq ShippedSource
  <2>1. \A q \in A : q \in S \/ \E p \in R : q = SourceOf(p)
    BY AddedPackages
  <2>2. \A p \in R : SourceOf(p) \in ShippedSource
    BY DEF Package, SourceOf, ShippedSource
  <2> HIDE DEF A, S, R
  <2>3. QED
    BY <1>6, <2>1, <2>2
<1> HIDE DEF A
<1>8. DOMAIN index' = ks /\ index'[Key(i)] = A /\ \A k \in DOMAIN index : k # Key(i) => index'[k] = index[k]
  BY <1>1
<1>9. \A k : SourcesOf(k)' = IF k = Key(i) THEN A ELSE SourcesOf(k)
  BY <1>8 DEF SourcesOf
<1>10. \A k \in DOMAIN index' : index'[k] \subseteq ShippedSource
  BY <1>2, <1>7, <1>8
<1>11. DOMAIN index' = {Key(j) : j \in Begun}'
  <2>1. {Key(j) : j \in Begun}' = {Key(j) : j \in Begun \cup {i}}
    BY SameWorld
  <2>2. QED
    BY <1>2, <1>8, <2>1
<1>12. ASSUME NEW k \in Releases
       PROVE  KnownAs(SourcesOf(k)', HadBy(k, left', seen'["index"]))
  BY <1>2, <1>4, <1>5, <1>9
<1>13. (\A k \in Releases : KnownAs(SourcesOf(k), HadBy(k, left, seen["index"])))'
  <2>1. ASSUME NEW k \in Releases
        PROVE  KnownAs(SourcesOf(k), HadBy(k, left, seen["index"]))'
    <3> DEFINE X == SourcesOf(k)'  Y == HadBy(k, left', seen'["index"])
    <3>1. SourcesOf(k)' = X /\ HadBy(k, left, seen["index"])' = Y
      BY NextHad
    <3>2. KnownAs(X, Y)
      BY <1>12
    <3> HIDE DEF X, Y
    <3>3. QED
      BY <3>1, <3>2 DEF KnownAs
  <2>2. QED
    BY <2>1, SameWorld
<1>14. QED
  BY <1>10, <1>11, <1>13 DEF IndexInv

\* An SBOM.
LEMMA AddSBOMKeepsInv ==
    ASSUME ShippedInv, NEW i, NEW f, AddSBOM(i, f)
    PROVE  ShippedInv'
<1> DEFINE bom == BOMs(i)[f]
           packages == PackageListFromSBOM(bom)
           R == Range(packages)
<1>1. /\ world \in DOMAIN Worlds /\ f # Pool /\ First(i, f) /\ feed = "reading" /\ Understood(bom)
      /\ ToInventory(packages) /\ ToIndex(Key(i), packages)
      /\ rules' = rules \cup VendoredFromSBOM(bom)
      /\ left' = left \ {<<i, f>>}
      /\ world' = world /\ moment' = moment /\ consumer' = consumer /\ due' = due
      /\ read' = read /\ seen' = seen /\ feed' = feed
      /\ ShippedTypeOK
  BY DEF AddSBOM, Delivering, First, ShippedInv, ShippedTypeOK, downloadVars
<1>2. /\ <<i, f>> \in left /\ left \in SUBSET Due
      /\ i \in Maintained /\ f \in DueFrom(i)
  BY <1>1, DueArePlaces DEF First, ShippedTypeOK
<1>3. HasAllSBOMs(i) /\ f \in DOMAIN BOMs(i) /\ bom \in BOM
  BY <1>1, <1>2, DueOfRelease
<1>4. DOMAIN packages \in SUBSET (Nat \X Nat) /\ R \subseteq Package
  BY <1>1, <1>3, SBOMPackages
<1>5. consumer = "inventory" /\ due = NotKnown /\ read = <<>>
  <2>1. ~(consumer = "index" \/ due # NotKnown)
    BY <1>1, OneFirst DEF ShippedInv, PoolInv
  <2>2. QED
    BY <1>1, <2>1 DEF ShippedTypeOK, Consumers
<1>6. /\ \A j : <<j, Pool>> \in left' <=> <<j, Pool>> \in left
      /\ \A j, g : <<j, g>> \notin left' <=> <<j, g>> \notin left \/ (j = i /\ g = f)
  BY <1>1
<1> HIDE DEF bom, packages
<1>7. \A c : /\ Had(i, left', seen[c]) = Had(i, left, seen[c]) \cup R
             /\ \A j \in Maintained : j # i => Had(j, left', seen[c]) = Had(j, left, seen[c])
  <2> DEFINE L2 == left'  H(g) == Range(PackageListFromSBOM(BOMs(i)[g]))
  <2>1. \A j, g : <<j, g>> \notin L2 <=> <<j, g>> \notin left \/ (j = i /\ g = f)
    BY <1>6
  <2>2. H(f) = R
    BY DEF R, packages, bom
  <2> HIDE DEF L2, R
  <2>3. ASSUME NEW s
        PROVE  Had(i, L2, s) = Had(i, left, s) \cup R
    <3>1. {g \in DOMAIN BOMs(i) : <<i, g>> \notin L2} = {g \in DOMAIN BOMs(i) : <<i, g>> \notin left} \cup {f}
      BY <1>3, <2>1
    <3>2. /\ Had(i, L2, s) = UNION {H(g) : g \in {h \in DOMAIN BOMs(i) : <<i, h>> \notin L2}}
          /\ Had(i, left, s) = UNION {H(g) : g \in {h \in DOMAIN BOMs(i) : <<i, h>> \notin left}}
      BY <1>3 DEF Had
    <3> HIDE DEF H
    <3>3. QED
      BY <2>2, <3>1, <3>2
  <2>4. ASSUME NEW s, NEW j \in Maintained, j # i
        PROVE  Had(j, L2, s) = Had(j, left, s)
    <3>1. {g \in DOMAIN BOMs(j) : <<j, g>> \notin L2} = {g \in DOMAIN BOMs(j) : <<j, g>> \notin left}
      BY <2>1, <2>4
    <3>2. QED
      BY <3>1 DEF Had
  <2>5. QED
    BY <2>3, <2>4 DEF L2
<1>8. Begun' = Begun \cup {i}
  <2>1. /\ Maintained' = Maintained
        /\ \A j \in Maintained : DueFrom(j)' = DueFrom(j)
    BY <1>1, SameWorld
  <2>2. QED
    BY <1>2, <1>6, <2>1 DEF Begun
<1>9. InventoryInv' /\ inventory' \subseteq Target
  BY <1>1, <1>2, <1>4, <1>7, InventoryMore
<1>10. IndexInv' /\ \A k \in DOMAIN index' : index'[k] \subseteq ShippedSource
  BY <1>1, <1>2, <1>4, <1>7, <1>8, IndexMore
<1>11. PoolInv'
  <2>1. \A j : Fetched(j, read, moment)'
    BY <1>1, <1>5 DEF Fetched
  <2>2. consumer' # "index" /\ due' = NotKnown /\ NotKnown' = NotKnown
    BY <1>1, <1>5
  <2>3. QED
    BY <2>1, <2>2 DEF PoolInv
<1>12. SeenInv'
  <2>1. \A j, ms : Fetched(j, ms, moment)' <=> Fetched(j, ms, moment)
    BY <1>1, SameWorld DEF Fetched
  <2>2. consumer = "inventory" /\ consumer' = "inventory" /\ seen' = seen
    BY <1>1, <1>5
  <2>3. QED
    BY <1>1, <1>6, <2>1, <2>2, SameWorld DEF ShippedInv, SeenInv
<1>13. SBOMInv'
  <2>1. \A j \in Maintained : HasAllSBOMs(j) =>
          \A g \in DOMAIN BOMs(j) : <<j, g>> \notin left' => Understood(BOMs(j)[g])
    BY <1>1, <1>6 DEF ShippedInv, SBOMInv, bom
  <2>2. QED
    BY <1>1, <2>1, SameWorld DEF SBOMInv
<1>14. rules' \subseteq Rule
  BY <1>1, <1>3, SBOMRules DEF ShippedTypeOK
<1>15. ShippedTypeOK'
  <2>1. left' \in SUBSET Due'
    BY <1>1, <1>2, SameWorld
  <2>2. QED
    BY <1>1, <1>9, <1>10, <1>14, <2>1 DEF ShippedTypeOK
<1>16. QED
  BY <1>1, <1>9, <1>10, <1>11, <1>12, <1>13, <1>15 DEF ShippedInv

\* The names of the lists of a pool.
LEMMA GetInReleaseFileKeepsInv ==
    ASSUME ShippedInv, NEW i, GetInReleaseFile(i)
    PROVE  ShippedInv'
<1>1. /\ First(i, Pool) /\ feed = "reading" /\ due = NotKnown /\ due' = Len(ListsAt(i, moment))
      /\ world' = world /\ moment' = moment /\ left' = left /\ consumer' = consumer
      /\ read' = read /\ seen' = seen /\ feed' = feed
      /\ inventory' = inventory /\ rules' = rules /\ index' = index
      /\ ShippedTypeOK /\ world \in DOMAIN Worlds
  BY DEF GetInReleaseFile, Delivering, First, ShippedInv, ShippedTypeOK, projections
<1>2. SeenInv' /\ SBOMInv' /\ InventoryInv' /\ IndexInv'
  BY <1>1, QuietStep
<1>3. i \in Maintained
  BY <1>1, DueArePlaces DEF ShippedTypeOK, First
<1>4. due' \in Nat /\ read = <<>>
  <2>1. ListsAt(i, moment) \in Seq(Seq(Paragraph))
    BY <1>1, <1>3, WorldType DEF ShippedTypeOK
  <2>2. QED
    BY <1>1, <2>1 DEF ShippedTypeOK
<1>5. \A j, f : First(j, f)' <=> First(j, f)
  BY <1>1 DEF First
<1>6. PoolInv'
  <2>1. \A j : Fetched(j, read, moment)' <=> Fetched(j, read, moment)
    BY <1>1, SameWorld DEF Fetched
  <2>2. QED
    BY <1>1, <1>3, <1>5, <2>1, SameWorld DEF ShippedInv, PoolInv
<1>7. ShippedTypeOK'
  BY <1>1, <1>4, SameWorld DEF ShippedTypeOK, NotKnown
<1>8. QED
  BY <1>1, <1>2, <1>6, <1>7 DEF ShippedInv

\* A list of a pool.
LEMMA GetPackageListKeepsInv ==
    ASSUME ShippedInv, NEW i, GetPackageList(i)
    PROVE  ShippedInv'
<1>1. /\ First(i, Pool) /\ feed = "reading" /\ due # NotKnown /\ Len(read) < due
      /\ Len(read) < Len(ListsAt(i, moment)) /\ read' = Append(read, moment)
      /\ world' = world /\ moment' = moment /\ left' = left /\ consumer' = consumer
      /\ due' = due /\ seen' = seen /\ feed' = feed
      /\ inventory' = inventory /\ rules' = rules /\ index' = index
      /\ ShippedTypeOK /\ world \in DOMAIN Worlds /\ read \in Seq(Moments) /\ moment \in Moments
      /\ due \in Nat
  BY DEF GetPackageList, Delivering, First, ShippedInv, ShippedTypeOK, projections
<1>2. SeenInv' /\ SBOMInv' /\ InventoryInv' /\ IndexInv'
  BY <1>1, QuietStep
<1>3. i \in Maintained
  BY <1>1, DueArePlaces DEF ShippedTypeOK, First
<1>4. read' \in Seq(Moments) /\ Len(read') = Len(read) + 1 /\ Len(read') <= due
  BY <1>1
<1>5. \A j, f : First(j, f)' <=> First(j, f)
  BY <1>1 DEF First
<1>6. PoolInv'
  <2>1. Fetched(i, read', moment)
    <3> DEFINE pool == ListsAt(i, moment)  N == Len(read)
    <3>1. pool \in Seq(Seq(Paragraph)) /\ N < Len(pool) /\ N \in Nat
      BY <1>1, <1>3, WorldType
    <3> HIDE DEF pool
    <3>2. N + 1 \in DOMAIN pool
      BY <3>1
    <3>3. /\ DOMAIN read' = 1..(N + 1) /\ read'[N + 1] = moment
          /\ \A n \in 1..N : read'[n] = read[n] /\ n \in DOMAIN read
      BY <1>1
    <3>4. Fetched(i, read, moment)
      BY <1>1, <1>3 DEF ShippedInv, PoolInv
    <3>5. \A n \in 1..(N + 1) : n = N + 1 \/ n \in 1..N
      BY <3>1
    <3> HIDE DEF N
    <3>6. \A n \in DOMAIN read' :
             read'[n] \in {"before", moment} /\ n \in DOMAIN ListsAt(i, read'[n])
      BY <3>2, <3>3, <3>4, <3>5 DEF Fetched, pool
    <3>7. QED
      BY <1>4, <3>6 DEF Fetched
  <2>2. \A j : First(j, Pool) => j = i
    BY <1>1, OneFirst
  <2>3. \A j : Fetched(j, read, moment)' <=> Fetched(j, read', moment)
    BY <1>1, SameWorld DEF Fetched
  <2>4. QED
    BY <1>1, <1>3, <1>5, <2>1, <2>2, <2>3, SameWorld DEF ShippedInv, PoolInv
<1>7. ShippedTypeOK'
  BY <1>1, <1>4, SameWorld DEF ShippedTypeOK
<1>8. QED
  BY <1>1, <1>2, <1>6, <1>7 DEF ShippedInv

\* A download that is complete is noted with its consumer.
LEMMA NotedDownload ==
    ASSUME ShippedTypeOK, NEW c \in Consumers, NEW i, NEW ms,
           seen' = [seen EXCEPT ![c] = [j \in DOMAIN @ \cup {i} |-> IF j = i THEN ms ELSE @[j]]]
    PROVE  /\ seen' = [k \in Consumers |-> seen'[k]]
           /\ \A k \in Consumers \ {c} : seen'[k] = seen[k]
           /\ DOMAIN seen'[c] = DOMAIN seen[c] \cup {i}
           /\ seen'[c][i] = ms
           /\ \A j \in DOMAIN seen[c] : j # i => seen'[c][j] = seen[c][j]
<1>1. seen = [k \in Consumers |-> seen[k]]
  BY DEF ShippedTypeOK
<1>2. seen' = [k \in Consumers |->
                 IF k = c THEN [j \in DOMAIN seen[c] \cup {i} |-> IF j = i THEN ms ELSE seen[c][j]]
                          ELSE seen[k]]
  BY <1>1
<1>3. QED
  BY <1>2

\* What the consumers have seen after a step, said of its state before and after.
LEMMA SeenNext ==
    ASSUME world' = world, moment' = moment,
           \A c \in Consumers : \A j \in DOMAIN seen'[c] :
              Fetched(j, seen'[c][j], moment) /\ Parsable(Downloaded(j, seen'[c][j])),
           DOMAIN seen'["inventory"] =
              {j \in Maintained : ~HasAllSBOMs(j) /\ (<<j, Pool>> \notin left'
                                       \/ (consumer' = "index" /\ <<j, Pool>> \in left'
                                             /\ \A d \in left' : ~Before(d, <<j, Pool>>)))},
           DOMAIN seen'["index"] = {j \in Maintained : ~HasAllSBOMs(j) /\ <<j, Pool>> \notin left'}
    PROVE  SeenInv'
<1>1. \A j, ms : Fetched(j, ms, moment)' <=> Fetched(j, ms, moment)
  BY SameWorld DEF Fetched
<1>2. \A c \in Consumers : \A j \in DOMAIN seen'[c] :
         Fetched(j, seen[c][j], moment)' /\ Parsable(Downloaded(j, seen[c][j]))'
  <2>1. ASSUME NEW c \in Consumers, NEW j \in DOMAIN seen'[c]
        PROVE  Fetched(j, seen[c][j], moment)'
    BY SameWorld DEF Fetched
  <2>2. ASSUME NEW c \in Consumers, NEW j \in DOMAIN seen'[c]
        PROVE  Parsable(Downloaded(j, seen[c][j]))'
    <3>1. Downloaded(j, seen[c][j])' = Downloaded(j, seen'[c][j])
      BY DEF Downloaded, ListsAt
    <3>2. QED
      BY <3>1 DEF Parsable
  <2>3. QED
    BY <2>1, <2>2
<1>3. \A j : First(j, Pool)' <=> <<j, Pool>> \in left' /\ \A d \in left' : ~Before(d, <<j, Pool>>)
  BY DEF First, Pool
<1>4. /\ Maintained' = Maintained
      /\ \A j : HasAllSBOMs(j)' <=> HasAllSBOMs(j)
  BY SameWorld
<1>5. ASSUME NEW c \in Consumers
      PROVE  (DOMAIN seen[c] = {j \in Maintained : /\ ~HasAllSBOMs(j)
                                  /\ \/ <<j, Pool>> \notin left
                                     \/ c = "inventory" /\ consumer = "index" /\ First(j, Pool)})'
  <2>1. CASE c = "inventory"
    BY <1>3, <1>4, <2>1 DEF Pool
  <2>2. CASE c = "index"
    BY <1>4, <2>2 DEF Pool
  <2>3. QED
    BY <2>1, <2>2 DEF Consumers
<1>6. QED
  BY <1>2, <1>5 DEF SeenInv, Consumers

\* A pool, for the consumer that downloaded it.
LEMMA MissingSBOMSetKeepsInv ==
    ASSUME ShippedInv, NEW i, MissingSBOMSet(i)
    PROVE  ShippedInv'
<1> DEFINE packages == PackageListsFromInRelease(i, read)
           R == Range(packages)
<1>1. /\ First(i, Pool) /\ feed = "reading" /\ Parsable(Downloaded(i, read))
      /\ due' = NotKnown /\ read' = <<>>
      /\ seen' = [seen EXCEPT ![consumer] = [j \in DOMAIN @ \cup {i} |-> IF j = i THEN read ELSE @[j]]]
      /\ world' = world /\ moment' = moment /\ rules' = rules /\ feed' = feed
      /\ ShippedTypeOK /\ world \in DOMAIN Worlds /\ moment \in Moments /\ consumer \in Consumers
      /\ left \in SUBSET Due
  BY DEF MissingSBOMSet, Delivering, First, ShippedInv, ShippedTypeOK
<1>2. /\ <<i, Pool>> \in left /\ i \in Maintained /\ Pool \in DueFrom(i)
  BY <1>1, DueArePlaces DEF First
<1>3. ~HasAllSBOMs(i) /\ DueFrom(i) = {Pool}
  BY <1>1, <1>2, DueOfRelease
<1>4. Fetched(i, read, moment)
  BY <1>1, <1>2 DEF ShippedInv, PoolInv
<1>5. DOMAIN packages \in SUBSET (Nat \X Nat) /\ R \subseteq Package
  BY <1>1, <1>2, <1>4, PoolPackages
<1>6. \A j : First(j, Pool) => j = i
  BY <1>1, OneFirst
<1>7. \A j, ms : Fetched(j, ms, moment)' <=> Fetched(j, ms, moment)
  BY <1>1, SameWorld DEF Fetched
<1>8. /\ seen' = [k \in Consumers |-> seen'[k]]
      /\ \A k \in Consumers \ {consumer} : seen'[k] = seen[k]
      /\ DOMAIN seen'[consumer] = DOMAIN seen[consumer] \cup {i}
      /\ seen'[consumer][i] = read
      /\ \A j \in DOMAIN seen[consumer] : j # i => seen'[consumer][j] = seen[consumer][j]
  BY <1>1, NotedDownload
<1>9. \A c \in Consumers : \A j \in DOMAIN seen'[c] :
        Fetched(j, seen'[c][j], moment) /\ Parsable(Downloaded(j, seen'[c][j]))
  BY <1>1, <1>4, <1>8 DEF ShippedInv, SeenInv
<1>10. rules' \subseteq Rule /\ due' = NotKnown' /\ Len(read') = 0 /\ read' \in Seq(Moments)
  BY <1>1 DEF ShippedTypeOK, NotKnown
<1> HIDE DEF packages
<1>11. CASE consumer = "inventory"
  <2>1. /\ ToInventory(packages) /\ consumer' = "index" /\ left' = left /\ index' = index
    BY <1>11 DEF MissingSBOMSet, packages
  <2>2. "inventory" \in Consumers /\ "index" \in Consumers /\ "index" # "inventory"
    BY DEF Consumers
  <2>3. seen'["index"] = seen["index"] /\ i \notin DOMAIN seen["inventory"]
    BY <1>2, <1>8, <1>11, <2>2 DEF ShippedInv, SeenInv
  <2>4. /\ Had(i, left', seen'["inventory"]) = Had(i, left, seen["inventory"]) \cup R
        /\ \A j \in Maintained : j # i => Had(j, left', seen'["inventory"]) = Had(j, left, seen["inventory"])
    <3>1. Had(i, left', seen'["inventory"]) = R /\ Had(i, left, seen["inventory"]) = {}
      BY <1>3, <1>8, <1>11, <2>3 DEF Had, packages
    <3>2. ASSUME NEW j \in Maintained, j # i
          PROVE  Had(j, left', seen'["inventory"]) = Had(j, left, seen["inventory"])
      BY <1>8, <1>11, <2>1, <3>2 DEF Had
    <3>3. QED
      BY <3>1, <3>2
  <2>5. InventoryInv' /\ inventory' \subseteq Target
    BY <1>1, <1>2, <1>5, <2>1, <2>4, InventoryMore
  <2>6. IndexInv'
    <3>1. Begun' = Begun /\ {Key(j) : j \in Begun}' = {Key(j) : j \in Begun}
      <4>1. /\ Maintained' = Maintained
            /\ \A j \in Maintained : DueFrom(j)' = DueFrom(j)
        BY <1>1, SameWorld
      <4>2. Begun' = Begun
        BY <2>1, <4>1 DEF Begun
      <4>3. QED
        BY <1>1, <4>2, SameWorld
    <3>2. \A k : SourcesOf(k)' = SourcesOf(k)
      BY <2>1 DEF SourcesOf
    <3>3. \A k : HadBy(k, left, seen["index"])' = HadBy(k, left, seen["index"])
      <4>1. \A k : HadBy(k, left, seen["index"])' = HadBy(k, left', seen'["index"])
        BY <1>1, NextHad
      <4>2. QED
        BY <2>1, <2>3, <4>1
    <3>4. DOMAIN index' = {Key(j) : j \in Begun}'
      BY <2>1, <3>1 DEF ShippedInv, IndexInv
    <3>5. \A k \in Releases : KnownAs(SourcesOf(k), HadBy(k, left, seen["index"]))
      BY DEF ShippedInv, IndexInv
    <3>6. Releases' = Releases
      BY <1>1, SameWorld
    <3>7. (\A k \in Releases : KnownAs(SourcesOf(k), HadBy(k, left, seen["index"])))'
      BY <3>2, <3>3, <3>5, <3>6 DEF KnownAs
    <3>8. QED
      BY <3>4, <3>7 DEF IndexInv
  <2>7. \A j, f : First(j, f)' <=> First(j, f)
    BY <2>1 DEF First
  <2>8. PoolInv'
    <3>1. \A j : Fetched(j, read, moment)'
      BY <1>1 DEF Fetched
    <3>2. \E j \in Maintained' : First(j, Pool)'
      BY <1>1, <1>2, <2>7, SameWorld
    <3>3. QED
      BY <3>1, <3>2 DEF PoolInv, Pool
  <2>9. SeenInv'
    <3>1. \A j \in Maintained : ~HasAllSBOMs(j) =>
             (j \in DOMAIN seen["inventory"] \/ j = i <=> <<j, Pool>> \notin left \/ First(j, Pool))
      BY <1>1, <1>6, <1>11, <2>2 DEF ShippedInv, SeenInv
    <3>2. /\ DOMAIN seen["inventory"] \subseteq Maintained /\ DOMAIN seen["index"] \subseteq Maintained
          /\ \A j \in DOMAIN seen["inventory"] \cup DOMAIN seen["index"] : ~HasAllSBOMs(j)
      BY <2>2 DEF ShippedInv, SeenInv
    <3>3. DOMAIN seen'["inventory"] =
            {j \in Maintained : ~HasAllSBOMs(j) /\ (<<j, Pool>> \notin left \/ First(j, Pool))}
      BY <1>2, <1>3, <1>8, <1>11, <3>1, <3>2
    <3>4. DOMAIN seen'["index"] = {j \in Maintained : ~HasAllSBOMs(j) /\ <<j, Pool>> \notin left}
      BY <2>2, <2>3 DEF ShippedInv, SeenInv
    <3>5. DOMAIN seen'["index"] = {j \in Maintained : ~HasAllSBOMs(j) /\ <<j, Pool>> \notin left'}
      BY <2>1, <3>4
    <3>6. DOMAIN seen'["inventory"] =
            {j \in Maintained : ~HasAllSBOMs(j) /\ (<<j, Pool>> \notin left'
                                     \/ (consumer' = "index" /\ <<j, Pool>> \in left'
                                           /\ \A d \in left' : ~Before(d, <<j, Pool>>)))}
      BY <2>1, <3>3 DEF First
    <3>7. QED
      BY <1>1, <1>9, <3>5, <3>6, SeenNext
  <2>10. SBOMInv'
    BY <1>1, <2>1, SameWorld DEF ShippedInv, SBOMInv
  <2>11. ShippedTypeOK'
    BY <1>1, <1>8, <1>10, <2>1, <2>2, <2>5, SameWorld DEF ShippedTypeOK
  <2>12. QED
    BY <1>1, <2>5, <2>6, <2>8, <2>9, <2>10, <2>11 DEF ShippedInv
<1>12. CASE consumer = "index"
  <2>1. /\ ToIndex(Key(i), packages) /\ consumer' = "inventory" /\ left' = left \ {<<i, Pool>>}
        /\ inventory' = inventory
    BY <1>12 DEF MissingSBOMSet, packages
  <2>2. "inventory" \in Consumers /\ "index" \in Consumers /\ "index" # "inventory"
    BY DEF Consumers
  <2>3. /\ seen'["inventory"] = seen["inventory"] /\ i \notin DOMAIN seen["index"]
        /\ i \in DOMAIN seen["inventory"]
    BY <1>1, <1>2, <1>3, <1>8, <1>12, <2>2 DEF ShippedInv, SeenInv
  <2>4. /\ \A j : j # i => (<<j, Pool>> \in left' <=> <<j, Pool>> \in left)
        /\ \A j, g : g # Pool => (<<j, g>> \in left' <=> <<j, g>> \in left)
        /\ \A j, g : j # i => (<<j, g>> \in left' <=> <<j, g>> \in left)
        /\ <<i, Pool>> \notin left'
    BY <2>1
  <2>5. \A j \in Maintained : \A s : HasAllSBOMs(j) => Had(j, left', s) = Had(j, left, s)
    <3>1. ASSUME NEW j \in Maintained, HasAllSBOMs(j)
          PROVE  {g \in DOMAIN BOMs(j) : <<j, g>> \notin left'} = {g \in DOMAIN BOMs(j) : <<j, g>> \notin left}
      BY <1>3, <2>4, <3>1
    <3>2. QED
      BY <3>1 DEF Had
  <2>6. /\ Had(i, left', seen'["index"]) = Had(i, left, seen["index"]) \cup R
        /\ \A j \in Maintained : j # i => Had(j, left', seen'["index"]) = Had(j, left, seen["index"])
    <3>1. Had(i, left', seen'["index"]) = R /\ Had(i, left, seen["index"]) = {}
      BY <1>3, <1>8, <1>12, <2>3 DEF Had, packages
    <3>2. ASSUME NEW j \in Maintained, j # i
          PROVE  Had(j, left', seen'["index"]) = Had(j, left, seen["index"])
      <4>1. CASE HasAllSBOMs(j)
        BY <2>5, <4>1 DEF Had
      <4>2. CASE ~HasAllSBOMs(j)
        BY <1>8, <1>12, <3>2, <4>2 DEF Had
      <4>3. QED
        BY <4>1, <4>2
    <3>3. QED
      BY <3>1, <3>2
  <2>7. InventoryInv'
    <3>1. \A j \in Maintained : Had(j, left', seen["inventory"]) = Had(j, left, seen["inventory"])
      BY <2>5 DEF Had
    <3>2. AllHad(left', seen'["inventory"]) = AllHad(left, seen["inventory"])
      BY <2>3, <3>1 DEF AllHad
    <3>3. QED
      BY <1>1, <2>1, <3>2, NextHad DEF ShippedInv, InventoryInv
  <2>8. Begun' = Begun \cup {i}
    <3>1. /\ Maintained' = Maintained
          /\ \A j \in Maintained : DueFrom(j)' = DueFrom(j)
      BY <1>1, SameWorld
    <3>2. QED
      BY <1>2, <1>3, <2>4, <3>1 DEF Begun
  <2>9. IndexInv' /\ \A k \in DOMAIN index' : index'[k] \subseteq ShippedSource
    BY <1>1, <1>2, <1>5, <2>1, <2>6, <2>8, IndexMore
  <2>10. PoolInv'
    <3>1. \A j : Fetched(j, read, moment)'
      BY <1>1 DEF Fetched
    <3>2. consumer' # "index" /\ ~(due # NotKnown)'
      BY <1>10, <2>1
    <3>3. QED
      BY <3>1, <3>2 DEF PoolInv
  <2>11. SeenInv'
    <3>1. /\ DOMAIN seen["inventory"] =
                {j \in Maintained : ~HasAllSBOMs(j) /\ (<<j, Pool>> \notin left \/ First(j, Pool))}
          /\ DOMAIN seen["index"] = {j \in Maintained : ~HasAllSBOMs(j) /\ <<j, Pool>> \notin left}
      BY <1>12, <2>2 DEF ShippedInv, SeenInv
    <3>2. \A j : <<j, Pool>> \notin left' <=> <<j, Pool>> \notin left \/ j = i
      BY <1>2, <2>4
    <3>3. /\ DOMAIN seen'["inventory"] = {j \in Maintained : ~HasAllSBOMs(j) /\ <<j, Pool>> \notin left'}
          /\ DOMAIN seen'["index"] = {j \in Maintained : ~HasAllSBOMs(j) /\ <<j, Pool>> \notin left'}
      BY <1>1, <1>2, <1>3, <1>6, <1>8, <1>12, <2>3, <3>1, <3>2
    <3>4. QED
      BY <1>1, <1>9, <2>1, <2>2, <3>3, SeenNext
  <2>12. SBOMInv'
    <3>1. \A j \in Maintained : HasAllSBOMs(j) =>
            \A g \in DOMAIN BOMs(j) : <<j, g>> \notin left' => Understood(BOMs(j)[g])
      BY <1>3, <2>4 DEF ShippedInv, SBOMInv
    <3>2. QED
      BY <1>1, <3>1, SameWorld DEF SBOMInv
  <2>13. ShippedTypeOK'
    <3>1. left' \in SUBSET Due'
      BY <1>1, <2>1, SameWorld
    <3>2. QED
      BY <1>1, <1>8, <1>10, <2>1, <2>2, <2>9, <3>1 DEF ShippedTypeOK
  <2>14. QED
    BY <1>1, <2>7, <2>9, <2>10, <2>11, <2>12, <2>13 DEF ShippedInv
<1>13. QED
  BY <1>1, <1>11, <1>12 DEF Consumers

\* The end of the feed, a failure, a change of a pool, or nothing.
LEMMA RestKeepsInv ==
    ASSUME ShippedInv, Result \/ FeedFails \/ PoolsChange \/ UNCHANGED shippedVars
    PROVE  ShippedInv'
<1>1. /\ world' = world /\ left' = left /\ consumer' = consumer /\ due' = due /\ read' = read
      /\ seen' = seen /\ inventory' = inventory /\ rules' = rules /\ index' = index
      /\ (moment' = moment \/ (moment = "before" /\ moment' = "after"))
      /\ feed' \in {feed, "complete", "failed"} /\ (feed' = "complete" => left = {})
  <2>1. CASE Result
    BY <2>1 DEF Result, downloadVars, projections
  <2>2. CASE FeedFails
    BY <2>2 DEF FeedFails, downloadVars, projections
  <2>3. CASE PoolsChange
    BY <2>3 DEF PoolsChange, downloadVars, projections
  <2>4. CASE UNCHANGED shippedVars
    BY <2>4 DEF shippedVars, downloadVars, projections, ShippedInv
  <2>5. QED
    BY <2>1, <2>2, <2>3, <2>4
<1>2. SeenInv' /\ SBOMInv' /\ InventoryInv' /\ IndexInv'
  BY <1>1, QuietStep
<1>3. \A j, f : First(j, f)' <=> First(j, f)
  BY <1>1 DEF First
<1>4. PoolInv'
  <2>1. \A j : Fetched(j, read, moment) => Fetched(j, read, moment)'
    BY <1>1, SameWorld DEF Fetched
  <2>2. QED
    BY <1>1, <1>3, <2>1, SameWorld DEF ShippedInv, PoolInv
<1>5. ShippedTypeOK'
  BY <1>1, SameWorld DEF ShippedInv, ShippedTypeOK, Moments
<1>6. QED
  BY <1>1, <1>2, <1>4, <1>5 DEF ShippedInv

\* Every step keeps the invariant.
LEMMA ShippedInvNext == ShippedInv /\ [Feed \/ PoolsChange]_shippedVars => ShippedInv'
  BY AddSBOMKeepsInv, GetInReleaseFileKeepsInv, GetPackageListKeepsInv, MissingSBOMSetKeepsInv,
     RestKeepsInv DEF Feed

\* What is delivered is known: the projections always cover what was delivered so far.
THEOREM ShippedInvariance == ShippedSpec => []ShippedInv
<1>1. ShippedInit => ShippedInv
  BY ShippedInvInit
<1>2. ShippedInv /\ [Feed \/ PoolsChange]_shippedVars => ShippedInv'
  BY ShippedInvNext
<1>3. QED
  BY <1>1, <1>2, PTL DEF ShippedSpec

-----------------------------------------------------------------------------
(* What the invariant says of a feed that is complete.                     *)

\* The two ways of writing which namespaces are one.
LEMMA VariantsAreTheSame == \A namespace : SameAs(namespace) = Variants(namespace)
  BY DEF SameAs, Variants

\* Once all is delivered, a consumer was told of the packages that are published.
LEMMA HadAllPublished ==
    ASSUME ShippedInv, left = {}, NEW i \in Maintained, NEW c \in Consumers
    PROVE  Had(i, left, seen[c]) = PublishedFor(i, c)
<1>1. world \in DOMAIN Worlds /\ moment \in Moments
  BY DEF ShippedInv, ShippedTypeOK
<1>2. CASE HasAllSBOMs(i)
  <2> DEFINE H(f) == Range(PackageListFromSBOM(BOMs(i)[f]))
             D(f) == {y \in ToSet(BOMs(i)[f].components) : y.purl # Missing /\ y.purl.type = "deb"}
             all == UNION {ToSet(BOMs(i)[f].components) : f \in DOMAIN BOMs(i)}
  <2>1. ASSUME NEW f \in DOMAIN BOMs(i)
        PROVE  H(f) = {DebPackage(x) : x \in D(f)}
    <3>1. BOMs(i)[f] \in BOM
      BY <1>1, <1>2, DueOfRelease
    <3>2. Understood(BOMs(i)[f])
      BY <1>2 DEF ShippedInv, SBOMInv
    <3>3. QED
      BY <3>1, <3>2, SBOMPackages
  <2>2. Had(i, left, seen[c]) = UNION {H(f) : f \in DOMAIN BOMs(i)}
    <3>1. {g \in DOMAIN BOMs(i) : <<i, g>> \notin left} = DOMAIN BOMs(i)
      OBVIOUS
    <3>2. QED
      BY <1>2, <3>1 DEF Had
  <2>3. PublishedFor(i, c) = {DebPackage(x) : x \in {y \in all : y.purl # Missing /\ y.purl.type = "deb"}}
    BY <1>2 DEF PublishedFor
  <2>4. {y \in all : y.purl # Missing /\ y.purl.type = "deb"} = UNION {D(f) : f \in DOMAIN BOMs(i)}
    OBVIOUS
  <2> HIDE DEF H, D, all
  <2>5. QED
    BY <2>1, <2>2, <2>3, <2>4
<1>3. CASE ~HasAllSBOMs(i)
  <2>1. i \in DOMAIN seen[c] /\ Fetched(i, seen[c][i], moment) /\ Parsable(Downloaded(i, seen[c][i]))
    BY <1>3 DEF ShippedInv, SeenInv
  <2>2. Range(PackageListsFromInRelease(i, seen[c][i])) = AptInstalls(Downloaded(i, seen[c][i]))
    BY <1>1, <2>1, PoolPackages
  <2>3. QED
    BY <1>3, <2>1, <2>2 DEF Had, PublishedFor
<1>4. QED
  BY <1>2, <1>3

\* Sources that are known of packages are what those packages ship.
LEMMA KnownIsShipped ==
    ASSUME NEW S, NEW P, KnownAs(S, P)
    PROVE  LET shipped == {SourceOf(p) : p \in P}
           IN /\ S \subseteq shipped
              /\ \A p \in shipped :
                   {q.version : q \in {e \in S : e.source = p.source
                                         /\ e.namespace \in SameAs(p.namespace)}} = {p.version}
<1>1. S \subseteq {SourceOf(p) : p \in P}
  BY DEF KnownAs
<1>2. ASSUME NEW p \in {SourceOf(q) : q \in P}
      PROVE  {q.version : q \in {e \in S : e.source = p.source
                                     /\ e.namespace \in SameAs(p.namespace)}} = {p.version}
  <2>1. PICK r \in P : p = SourceOf(r)
    OBVIOUS
  <2>2. p.source = r.source /\ p.namespace = r.namespace /\ p.version = r.sourceVersion
    BY <2>1 DEF SourceOf
  <2>3. Get(S, Identity(r)) = {e \in S : e.source = p.source /\ e.namespace \in SameAs(p.namespace)}
    BY <2>2, VariantsAreTheSame DEF Get, Identity
  <2>4. Get(S, Identity(r)) # {} /\ \A q \in Get(S, Identity(r)) : q.version = p.version
    BY <2>2 DEF KnownAs
  <2>5. QED
    BY <2>3, <2>4
<1>3. QED
  BY <1>1, <1>2

\* All that is delivered is complete.
LEMMA AllBegun ==
    ASSUME ShippedInv, left = {}
    PROVE  /\ DOMAIN index = Releases
           /\ \A k \in Releases : index[k] = SourcesOf(k)
           /\ \A k : HadBy(k, left, seen["index"]) = PublishedAs(k, "index")
<1>1. world \in DOMAIN Worlds
  BY DEF ShippedInv, ShippedTypeOK
<1>2. \A j \in Maintained : DueFrom(j) # {}
  BY <1>1, DueOfRelease
<1>3. Begun = Maintained
  BY <1>2 DEF Begun
<1>4. DOMAIN index = Releases
  BY <1>3, SameReleases DEF ShippedInv, IndexInv
<1>5. \A k \in Releases : index[k] = SourcesOf(k)
  BY <1>4 DEF SourcesOf
<1>6. "index" \in Consumers
  BY DEF Consumers
<1>7. \A k : HadBy(k, left, seen["index"]) = PublishedAs(k, "index")
  BY <1>6, HadAllPublished, SameReleases DEF HadBy, PublishedAs
<1>8. QED
  BY <1>4, <1>5, <1>7

\* A run goes on only with complete projections: every maintained release is in the
\* index with each source it ships in the one version it is shipped in, and with nothing
\* else, and the inventory is the union of the releases as they were downloaded.
THEOREM ProjectionsAreComplete == ShippedSpec => []ProjectionsMatchReleases
<1>1. ASSUME ShippedInv
      PROVE  ProjectionsMatchReleases
  <2> SUFFICES ASSUME feed = "complete"
               PROVE  /\ DOMAIN index = Releases
                      /\ \A k \in Releases :
                           LET shipped == {SourceOf(p) : p \in PublishedAs(k, "index")}
                           IN /\ index[k] \subseteq shipped
                              /\ \A p \in shipped :
                                   {q.version : q \in {e \in index[k] : e.source = p.source
                                                         /\ e.namespace \in SameAs(p.namespace)}}
                                     = {p.version}
                      /\ inventory = UNION {{Identity(p) : p \in PublishedFor(i, "inventory")} :
                                              i \in MaintainedReleases}
    BY DEF ProjectionsMatchReleases
  <2>1. left = {}
    BY <1>1 DEF ShippedInv
  <2>2. DOMAIN index = Releases
    BY <1>1, <2>1, AllBegun
  <2>3. ASSUME NEW k \in Releases
        PROVE  LET shipped == {SourceOf(p) : p \in PublishedAs(k, "index")}
               IN /\ index[k] \subseteq shipped
                  /\ \A p \in shipped :
                       {q.version : q \in {e \in index[k] : e.source = p.source
                                             /\ e.namespace \in SameAs(p.namespace)}} = {p.version}
    <3>1. KnownAs(SourcesOf(k), HadBy(k, left, seen["index"]))
      BY <1>1 DEF ShippedInv, IndexInv
    <3>2. KnownAs(index[k], PublishedAs(k, "index"))
      <4>1. index[k] = SourcesOf(k) /\ HadBy(k, left, seen["index"]) = PublishedAs(k, "index")
        BY <1>1, <2>1, AllBegun
      <4>2. QED
        BY <3>1, <4>1
    <3>3. QED
      BY <3>2, KnownIsShipped
  <2>4. inventory = UNION {{Identity(p) : p \in PublishedFor(i, "inventory")} : i \in MaintainedReleases}
    <3>1. "inventory" \in Consumers
      BY DEF Consumers
    <3>2. \A i \in Maintained : Had(i, left, seen["inventory"]) = PublishedFor(i, "inventory")
      BY <1>1, <2>1, <3>1, HadAllPublished
    <3>3. inventory = {Identity(p) : p \in UNION {Had(i, left, seen["inventory"]) : i \in Maintained}}
      BY <1>1 DEF ShippedInv, InventoryInv, AllHad
    <3>4. MaintainedReleases = Maintained
      BY SameReleases
    <3>5. QED
      BY <3>2, <3>3, <3>4
  <2>5. QED
    BY <2>2, <2>3, <2>4
<1>2. QED
  BY <1>1, ShippedInvariance, PTL

\* However the pools change while they are downloaded, list by list and once for each
\* consumer: a version in the index is one that a release of that name had in its SBOMs, or
\* that was the newest of its source for an architecture at some moment of the run.
THEOREM IndexedVersionsWereShipped == ShippedSpec => []IndexedVersionWasShipped
<1>1. ASSUME ShippedInv, feed = "complete", NEW k \in DOMAIN index, NEW p \in index[k]
      PROVE  \E i \in MaintainedReleases :
                /\ Key(i) = k
                /\ HasAllSBOMs(i) \/ WasNewest(i, p.source, p.version)
  <2>1. left = {} /\ world \in DOMAIN Worlds /\ moment \in Moments
    BY <1>1 DEF ShippedInv, ShippedTypeOK
  <2>2. k \in Releases /\ p \in SourcesOf(k)
    BY <1>1, <2>1, AllBegun
  <2>3. PICK q \in HadBy(k, left, seen["index"]) : p = SourceOf(q)
    BY <1>1, <2>2 DEF ShippedInv, IndexInv, KnownAs
  <2>4. PICK i \in Maintained : Key(i) = k /\ q \in Had(i, left, seen["index"])
    BY DEF HadBy
  <2>5. i \in MaintainedReleases
    BY SameReleases
  <2>6. CASE HasAllSBOMs(i)
    BY <2>4, <2>5, <2>6
  <2>7. CASE ~HasAllSBOMs(i)
    <3> DEFINE moments == seen["index"][i]
               lists == Downloaded(i, moments)
    <3>1. i \in DOMAIN seen["index"] /\ Fetched(i, moments, moment) /\ Parsable(lists)
      BY <1>1, <2>1, <2>7 DEF ShippedInv, SeenInv, Consumers
    <3>2. q \in Range(SelectInstalledVersions(Parsed(lists)))
      BY <2>4, <2>7, <3>1 DEF Had, PackageListsFromInRelease
    <3>3. /\ IsPool(lists) /\ DOMAIN lists = DOMAIN moments
          /\ \A n \in DOMAIN moments : lists[n] \in ToSet(ListsAt(i, moments[n]))
      BY <2>1, <3>1, DownloadedPool
    <3>4. \A n \in DOMAIN moments : moments[n] \in {"before", moment}
      BY <3>1 DEF Fetched
    <3> HIDE DEF moments, lists
    <3>5. PICK n \in DOMAIN lists : \E j \in DOMAIN lists[n] :
             /\ q = ParsedPackage(lists[n][j])
             /\ \A m \in DOMAIN lists[n] :
                   LET r == ParsedPackage(lists[n][m])
                   IN r.source = q.source => r.sourceVersion <= q.sourceVersion
      BY <3>1, <3>2, <3>3, SelectedIsNewest
    <3>6. lists[n] \in ListsInRun(i)
      BY <3>3, <3>4 DEF ListsInRun
    <3> DEFINE offered == lists[n]
               of == {x \in {ParsedPackage(y) : y \in ToSet(offered)} : x.source = p.source}
    <3>7. p.source = q.source /\ p.version = q.sourceVersion
      BY <2>3 DEF SourceOf
    <3>8. q \in of /\ \A r \in of : r.sourceVersion <= p.version
      BY <3>5, <3>7 DEF ToSet
    <3>9. WasNewest(i, p.source, p.version)
      BY <3>6, <3>7, <3>8 DEF WasNewest
    <3>10. QED
      BY <2>4, <2>5, <3>9
  <2>8. QED
    BY <2>6, <2>7
<1>2. ASSUME ShippedInv
      PROVE  IndexedVersionWasShipped
  BY <1>1, <1>2 DEF IndexedVersionWasShipped
<1>3. QED
  BY <1>2, ShippedInvariance, PTL
===============================================================================
