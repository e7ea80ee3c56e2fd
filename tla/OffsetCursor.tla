---------------------------- MODULE OffsetCursor ----------------------------
(* The pagination cursor of addon_toolkit/cursor.py: where a page starts,   *)
(* how long it is and how many items there are, or that there are "many     *)
(* more".  A client holds the encoding of the tuple of its fields; that     *)
(* there is no next or no previous page is None.                            *)
EXTENDS Integers

CONSTANTS MAX_INDEX, None

ASSUME OffsetCursorAssumption ==
    /\ MAX_INDEX \in Nat \ {0}
    /\ None \notin Int \X Int \X Int

OffsetCursors == [offset : Int, limit : Int, total_count : Int]

EncodeCursor(cursor) == <<cursor.offset, cursor.limit, cursor.total_count>>

DecodeCursor(string) ==
    [offset |-> string[1], limit |-> string[2], total_count |-> string[3]]

HasManyMore(cursor) == cursor.total_count = -1

MaxIndex(cursor) ==
    IF HasManyMore(cursor) \/ MAX_INDEX < cursor.total_count
    THEN MAX_INDEX ELSE cursor.total_count

IsValidCursor(cursor) ==
    /\ cursor.limit > 0
    /\ cursor.offset \in 0 .. MaxIndex(cursor) - 1

\* mutant: cursors are handed out without a check
StrUnchecked(cursor) == EncodeCursor(cursor)

StrIfValid(cursor) ==
    IF IsValidCursor(cursor) THEN EncodeCursor(cursor) ELSE None

NextCursorStr(cursor) == StrIfValid([cursor EXCEPT !.offset = @ + cursor.limit])

\* mutant: the page before overlaps this one
PrevOverlapping(cursor) == StrIfValid([cursor EXCEPT !.offset = @ - cursor.limit + 1])

PrevCursorStr(cursor) == StrIfValid([cursor EXCEPT !.offset = @ - cursor.limit])

FirstCursorStr(cursor) == EncodeCursor([cursor EXCEPT !.offset = 0])

IsLastPage(cursor) == cursor.offset + cursor.limit >= cursor.total_count
=============================================================================
