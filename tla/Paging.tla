-------------------------------- MODULE Paging --------------------------------
(***************************************************************************)
(* A list read page by page: utils/fetchAllPages.ts against the list       *)
(* handlers that page by offset (GET /appointments and its siblings).  The *)
(* appointments report and its export, the technicians' work queue and the *)
(* urgent lists are read this way, while other users add, remove and move  *)
(* rows.                                                                   *)
(***************************************************************************)
EXTENDS Integers, FiniteSets, SequencesExt

CONSTANTS
  Item,       \* ids of rows
  Key,        \* values of the column the list is ordered by
  PageSize,   \* rows of a page: 100 in the code
  MaxChanges  \* bound: changes to the table while the pages are read

ASSUME PageSizeAssumption == PageSize \in Nat \ {0}
ASSUME PagingBound == MaxChanges \in Nat /\ Key \subseteq Nat \ {0}

VARIABLES
  key,      \* the table: the key of each row
  page,     \* responses: the rows of each page that has arrived
  total,    \* rows counted with the first page, or Uncounted
  \* what the properties compare with:
  kept,     \* rows that have been there since the first request, unmoved
  changes,  \* changes since then
  tied      \* whether two rows had the same key meanwhile

pagingVars == <<key, page, total, kept, changes, tied>>

NoRow == 0
Uncounted == -1
Present == {i \in Item : key[i] # NoRow}
Ties(k) == \E i, j \in Item : i # j /\ k[i] = k[j] /\ k[i] # NoRow

MaxPages == (Cardinality(Item) + PageSize - 1) \div PageSize
Page == 1 .. MaxPages

\* ORDER BY a column that is not unique: rows with equal keys come in any
\* order, in another one at the next query.
Orders == {s \in SetToSeqs(Present) : \A i, j \in DOMAIN s : i < j => key[s[i]] >= key[s[j]]}

\* skip: (page - 1) * limit, take: limit.
Slice(s, p) == {s[n] : n \in {m \in DOMAIN s : (p - 1) * PageSize < m /\ m <= p * PageSize}}

\* Fault: a last page that is not full is forgotten.
FullPages(count) == count \div PageSize

\* Math.max(1, Math.ceil(total / limit)).
TotalPages(count) ==
  IF count = 0 THEN 1 ELSE (count + PageSize - 1) \div PageSize

\* fetchAllPages has asked for the first page.
PagingInit ==
  /\ key \in [Item -> Key \cup {NoRow}]
  /\ page = [p \in {} |-> {}]
  /\ total = Uncounted
  /\ kept = Present
  /\ changes = 0
  /\ tied = Ties(key)

\* The handler of page 1 reads the rows and counts them, in either order.
Count ==
  /\ total = Uncounted
  /\ total' = Cardinality(Present)
  /\ UNCHANGED <<key, page, kept, changes, tied>>

\* The other pages are asked for together once the first one has arrived.
Requested(p) == p = 1 \/ (1 \in DOMAIN page /\ total # Uncounted /\ p <= TotalPages(total))

ReadPage(p) ==
  /\ Requested(p) /\ p \notin DOMAIN page
  /\ \E s \in Orders :
       page' = [q \in DOMAIN page \cup {p} |-> IF q = p THEN Slice(s, p) ELSE page[q]]
  /\ UNCHANGED <<key, total, kept, changes, tied>>

Done ==
  /\ total # Uncounted /\ 1 \in DOMAIN page
  /\ \A p \in Page : p <= TotalPages(total) => p \in DOMAIN page

\* Other users add a row, remove one, or change its key: a moved row leaves one
\* place and enters another, and counts twice.
Change(i) ==
  /\ ~Done
  /\ \E k \in Key \cup {NoRow} :
       /\ k # key[i]
       /\ key' = [key EXCEPT ![i] = k]
       /\ changes' = changes + (IF NoRow \in {k, key[i]} THEN 1 ELSE 2)
  /\ changes' <= MaxChanges
  /\ kept' = kept \ {i}
  /\ tied' = (tied \/ Ties(key'))
  /\ UNCHANGED <<page, total>>

PagingNext == Count \/ (\E p \in Page : ReadPage(p)) \/ (\E i \in Item : Change(i))

PagingSpec == PagingInit /\ [][PagingNext]_pagingVars

-----------------------------------------------------------------------------
Fetched == UNION {page[p] : p \in DOMAIN page}

\* A row that nobody touched is missed only because others were: a change
\* pushes at most one row out of each second page that is still to be read.
LossIsBounded ==
  Done /\ ~tied =>
    Cardinality(kept \ Fetched) <= changes * (IF total > PageSize THEN TotalPages(total) \div 2 ELSE 1)
=============================================================================
