------------------------------- MODULE Paging -------------------------------
(***************************************************************************)
(* A reader walks through a listing page by page while rows are inserted    *)
(* and change their status.  PayLinks and the inbox page by a keyset cursor *)
(* over (created_at, id); invoices page by limit and offset over created_at *)
(* alone.  created_at is the start of the inserting transaction, so that a  *)
(* row may appear behind rows that are already visible.                     *)
(***************************************************************************)
EXTENDS Integers, Sequences, FiniteSets, SequencesExt

CONSTANTS
    PageRows,     \* row ids, in the order the database compares them
    PageLimit,    \* limit of the request
    MaxPageTime   \* bound on created_at

ASSUME PagingAssumption ==
    PageRows \subseteq Nat /\ PageLimit \in Nat \ {0} /\ MaxPageTime \in Nat

VARIABLES
    listing,     \* "keyset" or "offset", and whether it filters by status
    stored,      \* row ids of the table
    createdAt,
    listed,      \* rows with the status that the walk asks for
    walk,        \* the reader: pages so far, the cursor, and the rows at its start
    left         \* history: rows that changed status during the walk

pagingVars == <<listing, stored, createdAt, listed, walk, left>>

NoCursor == <<>>
Walked == walk.state = "done"   \* what happens later does not matter
Visible == {r \in PageRows : stored[r]}
Matching == IF listing.filtered THEN Visible \cap listed ELSE Visible

-----------------------------------------------------------------------------
(* Inserts.                                                                *)

(* A transaction that began at some time t commits its row. *)
AddRow(r, t) ==
    /\ ~ Walked /\ ~ stored[r]
    /\ stored' = [stored EXCEPT ![r] = TRUE]
    /\ createdAt' = [createdAt EXCEPT ![r] = t]
    /\ UNCHANGED <<listing, listed, walk, left>>

(* The row loses the status that the walk filters by. *)
StatusChanges(r) ==
    /\ ~ Walked /\ listing.filtered /\ r \in Visible \cap listed
    /\ listed' = listed \ {r}
    /\ left' = IF walk.state = "walking" THEN left \cup {r} ELSE left
    /\ UNCHANGED <<listing, stored, createdAt, walk>>

Least(a, b) == IF a < b THEN a ELSE b

(* Mutant: a row is skipped at every seam. *)
PageBeyond(rows, from) ==
    SubSeq(rows, IF from = 0 THEN 1 ELSE from + 2, Least(from + PageLimit, Len(rows)))

(* LIMIT limit OFFSET from. *)
PageAt(rows, from) == SubSeq(rows, from + 1, Least(from + PageLimit, Len(rows)))

-----------------------------------------------------------------------------
(* Keyset pages.                                                           *)

(* Mutant: the time alone marks the place. *)
TimeOnlyCursor(r) == <<createdAt[r], 0>>

(* encode_cursor of the last row of the page. *)
EncodeCursor(r) == <<createdAt[r], r>>

(* Mutant: the row of the cursor is part of the next page. *)
NotAfter(r, cursor) == createdAt[r] < cursor[1] \/ (createdAt[r] = cursor[1] /\ r <= cursor[2])

(* The row values compare as the OR / AND of the inbox spells them out. *)
Older(r, cursor) == createdAt[r] < cursor[1] \/ (createdAt[r] = cursor[1] /\ r < cursor[2])

(* ORDER BY created_at DESC, id DESC. *)
Descending(S) ==
    SetToSortSeq(S, LAMBDA a, b : createdAt[a] > createdAt[b] \/ (createdAt[a] = createdAt[b] /\ a > b))

(* One row more than the limit is fetched: it says that a page follows. *)
ListKeyset ==
    LET rows == Descending({r \in Matching : walk.cursor # NoCursor => Older(r, walk.cursor)})
        page == PageAt(rows, 0)
    IN  /\ listing.by = "keyset" /\ walk.state = "walking"
        /\ walk' = [walk EXCEPT !.seen = @ \o page,
                                !.cursor = IF Len(rows) > PageLimit THEN EncodeCursor(Last(page)) ELSE @,
                                !.state = IF Len(rows) > PageLimit THEN @ ELSE "done"]
        /\ UNCHANGED <<listing, stored, createdAt, listed, left>>

-----------------------------------------------------------------------------
(* Offset pages.                                                           *)

(* ORDER BY created_at DESC: rows of one time come in any order. *)
Orders(S) ==
    {q \in SetToSeqs(S) : \A i, j \in 1..Len(q) : i < j => createdAt[q[i]] >= createdAt[q[j]]}

(* The reader asks for the next offset until a page is short. *)
ListOffset ==
    \E rows \in Orders(Matching) :
        LET page == PageAt(rows, walk.offset)
        IN  /\ listing.by = "offset" /\ walk.state = "walking"
            /\ walk' = [walk EXCEPT !.seen = @ \o page, !.offset = @ + PageLimit,
                                    !.state = IF Len(page) < PageLimit THEN "done" ELSE @]
            /\ UNCHANGED <<listing, stored, createdAt, listed, left>>

StartWalk ==
    /\ walk.state = "idle"
    /\ walk' = [state |-> "walking", seen |-> <<>>, cursor |-> NoCursor, offset |-> 0, start |-> Matching]
    /\ UNCHANGED <<listing, stored, createdAt, listed, left>>

-----------------------------------------------------------------------------
PagingInit ==
    /\ listing \in [by : {"keyset", "offset"}, filtered : BOOLEAN]
    /\ stored = [r \in PageRows |-> FALSE]
    /\ createdAt = [r \in PageRows |-> 0]
    /\ listed = PageRows
    /\ walk = [state |-> "idle", seen |-> <<>>, cursor |-> NoCursor, offset |-> 0, start |-> {}]
    /\ left = {}

PagingNext ==
    \/ \E r \in PageRows : StatusChanges(r) \/ \E t \in 0..MaxPageTime : AddRow(r, t)
    \/ StartWalk \/ ListKeyset \/ ListOffset

PagingSpec == PagingInit /\ [][PagingNext]_pagingVars

-----------------------------------------------------------------------------
(* Properties.                                                             *)

(* Keyset pages of list_paylinks and list_inbox never show a row twice,     *)
(* whatever is inserted between two pages and however many rows share a     *)
(* created_at.                                                              *)
KeysetShowsOnce == listing.by = "keyset" => IsInjective(walk.seen)

(* They leave out none of the rows that were there when the walk began and  *)
(* kept the status it asks for.                                             *)
KeysetMissesNone ==
    listing.by = "keyset" /\ Walked => walk.start \ left \subseteq ToSet(walk.seen)

(* Offset pages of list_invoices may show a row again; they leave one out   *)
(* only if two rows share a created_at or a row left the filter.            *)
Ties == \E r, s \in Visible : r # s /\ createdAt[r] = createdAt[s]
OffsetMissesByTieOrFilter ==
    listing.by = "offset" /\ Walked /\ ~ Ties /\ left = {}
        => walk.start \subseteq ToSet(walk.seen)

(* A client that follows the pages to the end sees every row that stayed,   *)
(* each once; by offset it misses rows only if rows share a created_at or   *)
(* leave the filter.                                                        *)
WalksComplete ==
    KeysetShowsOnce /\ KeysetMissesNone /\ OffsetMissesByTieOrFilter
=============================================================================
