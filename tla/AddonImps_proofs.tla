---------------------------- MODULE AddonImps_proofs ----------------------------
(***************************************************************************)
(* Proofs about what the addon implementations list.                       *)
(*                                                                         *)
(* Of Listing and its OffsetCursor: a client that follows the cursors      *)
(* receives every item of the wanted type once, for any length of the      *)
(* folder, any page size and any limits, whichever way the service pages.  *)
(*                                                                         *)
(* Of Browse, KeyedItems, PathItems and JsonArguments: the ids that were   *)
(* listed lead back to their items, listings are complete and roots reach  *)
(* WaterButler, for any well-formed content of an account, any number of   *)
(* changes to it, and all implementations.                                 *)
(***************************************************************************)
EXTENDS Listing, Browse, FiniteSetTheorems, FunctionTheorems, SequenceTheorems, TLAPS


(* Cursors by offset. *)

\* A client that hands a cursor back hands back the same offset, limit and total
\* (decode_cursor_dataclass undoes encode_cursor_dataclass).
THEOREM DecodeUndoesEncode ==
    ASSUME NEW page \in OffsetCursors
    PROVE  DecodeCursor(EncodeCursor(page)) = page
BY DEF OffsetCursors, DecodeCursor, EncodeCursor

\* No cursor is mistaken for there being none.
LEMMA StrIsNotNone ==
    ASSUME NEW page \in OffsetCursors
    PROVE  EncodeCursor(page) # None
BY OffsetCursorAssumption DEF OffsetCursors, EncodeCursor

\* A cursor that is handed out is valid.
LEMMA StrIfValidIsEncoding ==
    ASSUME NEW page \in OffsetCursors, StrIfValid(page) # None
    PROVE  IsValidCursor(page) /\ StrIfValid(page) = EncodeCursor(page)
BY DEF StrIfValid

\* The previous page of the next page is this page, whatever the offsets, limits
\* and totals: no item is skipped or shown twice by going back and forth.
THEOREM PrevUndoesNext ==
    ASSUME NEW page \in OffsetCursors, IsValidCursor(page),
           NextCursorStr(page) # None
    PROVE  PrevCursorStr(DecodeCursor(NextCursorStr(page))) = EncodeCursor(page)
<1> DEFINE next == [page EXCEPT !.offset = @ + page.limit]
<1>1. next \in OffsetCursors
  BY DEF OffsetCursors
<1>2. NextCursorStr(page) = EncodeCursor(next)
  BY <1>1, StrIfValidIsEncoding DEF NextCursorStr
<1>3. DecodeCursor(NextCursorStr(page)) = next
  BY <1>1, <1>2, DecodeUndoesEncode
<1>4. [next EXCEPT !.offset = @ - next.limit] = page
  <2>1. next.offset = page.offset + page.limit /\ next.limit = page.limit
        /\ next.total_count = page.total_count
        /\ page.offset \in Int /\ page.limit \in Int
    BY DEF OffsetCursors
  <2>2. next.offset - next.limit = page.offset
    BY <2>1
  <2> DEFINE back == [next EXCEPT !.offset = @ - next.limit]
  <2>3. /\ back.offset = page.offset
        /\ back.limit = page.limit
        /\ back.total_count = page.total_count
        /\ back = [offset |-> back.offset, limit |-> back.limit,
                    total_count |-> back.total_count]
    BY <1>1, <2>1, <2>2 DEF OffsetCursors
  <2>4. page = [offset |-> page.offset, limit |-> page.limit,
                  total_count |-> page.total_count]
    BY DEF OffsetCursors
  <2>5. QED
    BY <2>3, <2>4
<1>5. PrevCursorStr(next) = StrIfValid(page)
  BY <1>4 DEF PrevCursorStr
<1>6. QED
  BY <1>3, <1>5 DEF StrIfValid

\* As long as the total is known and within MAX_INDEX, a page has no next cursor
\* exactly when it reaches the end of the list ...
THEOREM NoNextMeansLastPage ==
    ASSUME NEW page \in OffsetCursors, IsValidCursor(page),
           page.total_count \in 0 .. MAX_INDEX
    PROVE  NextCursorStr(page) = None <=> IsLastPage(page)
<1> DEFINE next == [page EXCEPT !.offset = @ + page.limit]
<1>1. next \in OffsetCursors /\ next.offset = page.offset + page.limit
      /\ next.limit = page.limit /\ next.total_count = page.total_count
  BY DEF OffsetCursors
<1>2. page.limit > 0 /\ page.offset >= 0 /\ page.offset \in Int /\ page.limit \in Int
  BY DEF IsValidCursor, OffsetCursors
<1>3. MaxIndex(next) = page.total_count
  BY <1>1, OffsetCursorAssumption DEF MaxIndex, HasManyMore
<1>4. IsValidCursor(next) <=> page.offset + page.limit < page.total_count
  BY <1>1, <1>2, <1>3 DEF IsValidCursor
<1>5. NextCursorStr(page) = None <=> ~IsValidCursor(next)
  BY <1>1, StrIsNotNone DEF NextCursorStr, StrIfValid
<1>6. QED
  BY <1>2, <1>4, <1>5 DEF IsLastPage

\* ... while a list of "many more" items calls every page the last one, with or
\* without a next cursor.
THEOREM ManyMoreIsAlwaysLastPage ==
    ASSUME NEW page \in OffsetCursors, IsValidCursor(page), HasManyMore(page)
    PROVE  IsLastPage(page)
BY DEF IsLastPage, IsValidCursor, HasManyMore, OffsetCursors

-----------------------------------------------------------------------------
(* Folders and pages. *)

\* The entries of a folder are the numbers up to its size.
LEMMA FolderIsFinite ==
    ASSUME folder \in Folders
    PROVE  /\ Size \in Nat
           /\ Entries = 1 .. Size
           /\ IsFiniteSet(Entries)
           /\ \A i \in Entries : folder[i] \in Kinds
<1>1. PICK n \in 0 .. MaxEntries : folder \in [1 .. n -> Kinds]
    BY DEF Folders
<1>2. n \in Nat /\ Entries = 1 .. n
    BY <1>1, ListingAssumption DEF Entries
<1>3. IsFiniteSet(1 .. n) /\ Cardinality(1 .. n) = n
    BY <1>2, FS_Interval
<1> QED
    BY <1>1, <1>2, <1>3 DEF Size, Entries

\* How many entries of a list come before each: 0, 1, 2, ... in their order.
LEMMA NumbersBefore ==
    ASSUME NEW S, S \subseteq Nat, IsFiniteSet(S), NEW i \in S
    PROVE  /\ NumberBefore(i, S) \in 0 .. Cardinality(S) - 1
           /\ \A j \in S : j < i => NumberBefore(j, S) < NumberBefore(i, S)
<1> DEFINE Low(j) == {k \in S : k < j}
<1>1. ASSUME NEW j \in S
      PROVE  /\ IsFiniteSet(Low(j)) /\ Cardinality(Low(j)) \in Nat
             /\ NumberBefore(j, S) = Cardinality(Low(j))
    <2>1. IsFiniteSet(Low(j))
        BY FS_Subset
    <2> QED BY <2>1, FS_CardinalityType DEF NumberBefore
<1>2. Cardinality(S) \in Nat
    BY FS_CardinalityType
<1>3. Cardinality(Low(i)) < Cardinality(S)
    <2>1. Low(i) \subseteq S /\ i \notin Low(i)
        BY DEF Low
    <2> HIDE DEF Low
    <2>2. Cardinality(Low(i)) <= Cardinality(S) /\ Cardinality(Low(i)) # Cardinality(S)
        BY <2>1, FS_Subset
    <2> QED BY <1>1, <1>2, <2>2
<1>4. ASSUME NEW j \in S, j < i PROVE Cardinality(Low(j)) < Cardinality(Low(i))
    <2>0. i \in Nat /\ j \in Nat
        OBVIOUS
    <2>1. Low(j) \subseteq Low(i) /\ j \in Low(i) /\ j \notin Low(j)
        <3>1. \A k \in Nat : k < j => k < i
            BY <1>4, <2>0
        <3>2. ~(j < j)
            BY <2>0
        <3> QED BY <1>4, <3>1, <3>2 DEF Low
    <2>2. IsFiniteSet(Low(i)) /\ Cardinality(Low(i)) \in Nat /\ Cardinality(Low(j)) \in Nat
        BY <1>1
    <2> HIDE DEF Low
    <2>3. Cardinality(Low(j)) <= Cardinality(Low(i)) /\ Cardinality(Low(j)) # Cardinality(Low(i))
        BY <2>1, <2>2, FS_Subset
    <2> QED BY <2>2, <2>3
<1> HIDE DEF Low
<1> QED
    BY <1>1, <1>2, <1>3, <1>4

\* In a folder as a whole the i-th entry comes after i - 1 others.
LEMMA NumberInFolder ==
    ASSUME folder \in Folders, NEW i \in Entries
    PROVE  i \in 1 .. Size /\ NumberBefore(i, Entries) = i - 1
<1>1. Size \in Nat /\ Entries = 1 .. Size
    BY FolderIsFinite
<1>2. {j \in Entries : j < i} = 1 .. i - 1
    BY <1>1
<1>3. Cardinality(1 .. i - 1) = i - 1
    BY <1>1, FS_Interval
<1> QED
    BY <1>1, <1>2, <1>3 DEF NumberBefore

\* No two entries of a list have the same number.
LEMMA NumbersDiffer ==
    ASSUME NEW S, S \subseteq Nat, IsFiniteSet(S), NEW i \in S, NEW j \in S,
           NumberBefore(i, S) = NumberBefore(j, S)
    PROVE  i = j
<1>1. NumberBefore(i, S) \in Int
    <2>1. Cardinality(S) \in Nat
        BY FS_CardinalityType
    <2>2. NumberBefore(i, S) \in 0 .. Cardinality(S) - 1
        BY NumbersBefore
    <2> QED BY <2>1, <2>2
<1>2. i < j => NumberBefore(i, S) < NumberBefore(j, S)
    BY NumbersBefore
<1>3. j < i => NumberBefore(j, S) < NumberBefore(i, S)
    BY NumbersBefore
<1> QED BY <1>1, <1>2, <1>3

\* A page is full when there is something beyond it.
LEMMA PageIsFull ==
    ASSUME NEW S, S \subseteq Nat, IsFiniteSet(S), NEW offset \in Nat, NEW limit \in Nat,
           NEW i \in S, NumberBefore(i, S) >= offset + limit
    PROVE  /\ IsFiniteSet(Slice(S, offset, limit))
           /\ Cardinality(Slice(S, offset, limit)) = limit
<1> DEFINE T == 0 .. Cardinality(S) - 1
           U == offset .. offset + limit - 1
           number == [j \in S |-> NumberBefore(j, S)]
           onPage == [j \in Slice(S, offset, limit) |-> NumberBefore(j, S)]
<1>1. /\ Cardinality(S) \in Nat
      /\ \A j \in S : NumberBefore(j, S) \in T
    BY FS_CardinalityType, NumbersBefore
<1>2. IsFiniteSet(T) /\ Cardinality(T) = Cardinality(S)
    BY <1>1, FS_Interval
<1>3. number \in Injection(S, T)
    <2>1. number \in [S -> T]
        BY <1>1
    <2>2. \A j, k \in S : number[j] = number[k] => j = k
        BY NumbersDiffer
    <2> QED BY <2>1, <2>2 DEF Injection, IsInjective
<1>4. number \in Surjection(S, T)
    BY <1>2, <1>3, FS_Injection
<1>5. U \subseteq T
    BY <1>1
<1>6. onPage \in Injection(Slice(S, offset, limit), U)
    <2>1. onPage \in [Slice(S, offset, limit) -> U]
        BY DEF Slice
    <2>2. \A j, k \in Slice(S, offset, limit) : onPage[j] = onPage[k] => j = k
        BY NumbersDiffer DEF Slice
    <2> QED BY <2>1, <2>2 DEF Injection, IsInjective
<1>7. onPage \in Surjection(Slice(S, offset, limit), U)
    <2>1. ASSUME NEW n \in U PROVE \E j \in Slice(S, offset, limit) : onPage[j] = n
        <3>1. PICK j \in S : number[j] = n
            BY <1>4, <1>5 DEF Surjection
        <3>2. j \in Slice(S, offset, limit)
            BY <3>1 DEF Slice
        <3> QED BY <3>1, <3>2
    <2>2. onPage \in [Slice(S, offset, limit) -> U]
        BY DEF Slice
    <2> QED BY <2>1, <2>2 DEF Surjection
<1>8. IsFiniteSet(U) /\ Cardinality(U) = limit
    BY FS_Interval
<1> HIDE DEF U, onPage
<1>9. /\ IsFiniteSet(Slice(S, offset, limit))
      /\ Cardinality(Slice(S, offset, limit)) = Cardinality(U)
    BY <1>6, <1>7, <1>8, FS_Injection
<1> QED BY <1>8, <1>9

-----------------------------------------------------------------------------
(* The inductive invariant: what the calls so far have gone through. *)

Numbered == {"github_repos", "github", "figshare_root", "figshare_articles", "figshare_files"}
Tokened == {"google_drive", "dropbox", "bitbucket", "bitbucket_repos", "gitlab",
            "gitlab_projects", "dataverse_mydata", "bitbucket_workspaces", "onedrive"}

\* How many entries of a list come before the page that the cursor leads to.
Offset ==
    IF listing = "box" THEN BoxCursor.offset
    ELSE IF listing \in Numbered THEN (PageNumber - 1) * PageSize
    ELSE IF listing \in Tokened THEN TokenOffset
    ELSE 0

\* The list that has an entry; projects and articles of figshare have one each.
ListOf(i) ==
    IF listing # "figshare_root" THEN Entries
    ELSE IF folder[i] = "folder" THEN OfKind(Entries, {"folder"})
    ELSE OfKind(Entries, {"file", "other"})

Number(i) == NumberBefore(i, ListOf(i))

IsWanted(i) ==
    ~IsHidden(folder[i]) /\ (listing \in Untyped \/ item_type \in {None, ItemOf(i).item_type})

\* The wanted entries among the first n of their list, and among the k after these.
Through(n) == {i \in Entries : IsWanted(i) /\ Number(i) < n}
Part(n, k) == {i \in Entries : IsWanted(i) /\ Number(i) \in n .. n + k - 1}

CursorOK ==
    \/ cursor = <<>>
    \/ listing = "box" /\ \E n \in Nat : cursor = <<n, PageSize, Size>>
    \/ listing \in Numbered \cup Tokened /\ \E n \in Nat \ {0} : cursor = <<n>>

\* Where the previous cursor of the next page leads.
BackOK ==
    walk = "more" /\ sample # None =>
        /\ listing = "box" =>
             \E n \in Nat : cursor = <<n + PageSize, PageSize, Size>> /\ sample.this = <<n, PageSize, Size>>
        /\ listing \in {"github_repos", "github"} =>
             \E n \in Nat : cursor = <<n + 1>> /\ sample.this = <<n>>

ListingIInv ==
    /\ ListingTypeOK
    /\ listing \in Roots => item_type = None
    /\ CursorOK
    /\ BackOK
    /\ ListedOnce
    /\ walk = "more" => listed = Items(Through(Offset))
    /\ CompleteUnlessCutShort

\* Numbers are natural numbers.
LEMMA NumbersAreNatural ==
    ASSUME folder \in Folders, NEW i \in Entries
    PROVE  Number(i) \in Nat /\ ListOf(i) \subseteq Nat /\ IsFiniteSet(ListOf(i)) /\ i \in ListOf(i)
<1>1. Entries \subseteq Nat /\ IsFiniteSet(Entries) /\ folder[i] \in Kinds
    BY FolderIsFinite
<1>2. ListOf(i) \subseteq Entries /\ i \in ListOf(i)
    BY <1>1 DEF ListOf, OfKind, Kinds
<1>3. IsFiniteSet(ListOf(i))
    BY <1>1, <1>2, FS_Subset
<1>4. Cardinality(ListOf(i)) \in Nat
    BY <1>3, FS_CardinalityType
<1>5. NumberBefore(i, ListOf(i)) \in 0 .. Cardinality(ListOf(i)) - 1
    BY <1>1, <1>2, <1>3, NumbersBefore
<1>6. Number(i) \in Nat
    BY <1>4, <1>5 DEF Number
<1> QED
    BY <1>1, <1>2, <1>3, <1>6

\* An item keeps the number of its entry.
LEMMA ItemsDiffer ==
    ASSUME NEW i, NEW j, ItemOf(i) = ItemOf(j)
    PROVE  i = j
BY DEF ItemOf

\* What a client should receive.
LEMMA WantedItems == Wanted = Items({i \in Entries : IsWanted(i)})
<1>1. CASE listing \in Untyped
    BY <1>1 DEF Wanted, Shown, Items, IsWanted
<1>2. CASE listing \notin Untyped
    BY <1>2 DEF Wanted, Shown, OfWantedType, Items, IsWanted
<1> QED BY <1>1, <1>2

\* One part after the other makes the whole, and no part overlaps another.
LEMMA PartsAddUp ==
    ASSUME folder \in Folders, NEW n \in Nat, NEW k \in Nat
    PROVE  /\ Items(Through(n + k)) = Items(Through(n)) \cup Items(Part(n, k))
           /\ Items(Through(n)) \cap Items(Part(n, k)) = {}
           /\ Items(Through(n)) \subseteq Wanted /\ Items(Part(n, k)) \subseteq Wanted
<1>1. Through(n + k) = Through(n) \cup Part(n, k)
    BY NumbersAreNatural DEF Through, Part
<1>2. Through(n) \cap Part(n, k) = {}
    BY NumbersAreNatural DEF Through, Part
<1>3. Through(n) \subseteq {i \in Entries : IsWanted(i)} /\ Part(n, k) \subseteq {i \in Entries : IsWanted(i)}
    BY DEF Through, Part
<1>4. Items(Through(n)) \cap Items(Part(n, k)) = {}
    BY <1>2, ItemsDiffer DEF Items
<1> QED
    BY <1>1, <1>3, <1>4, WantedItems DEF Items

\* A call changes neither the folder nor what is wanted of it.
LEMMA SameFolder ==
    ASSUME UNCHANGED <<listing, folder, item_type>>
    PROVE  /\ Entries' = Entries /\ Size' = Size /\ Wanted' = Wanted
           /\ CutShort' <=> CutShort
           /\ \A i : /\ ItemOf(i)' = ItemOf(i)
                     /\ IsWanted(i)' <=> IsWanted(i)
                     /\ Number(i)' = Number(i)
<1>1. Entries' = Entries /\ Size' = Size
    BY DEF Entries, Size
<1>2. FileKinds' = FileKinds
    BY DEF FileKinds
<1>3. ASSUME NEW i
      PROVE  ItemOf(i)' = ItemOf(i) /\ (IsHidden(folder[i])' <=> IsHidden(folder[i]))
    BY <1>2 DEF ItemOf, IsHidden
<1>4. ASSUME NEW i PROVE IsWanted(i)' <=> IsWanted(i)
    BY <1>3 DEF IsWanted
<1>5. ASSUME NEW i PROVE Number(i)' = Number(i)
    BY <1>1 DEF Number, NumberBefore, ListOf, OfKind
<1>6. Wanted' = Wanted
    BY <1>1, <1>3, <1>4, WantedItems, Zenon DEF Items, Wanted, Shown, OfWantedType
<1>7. CutShort' <=> CutShort
    <2>1. Unpaged' = Unpaged
        BY <1>1 DEF Unpaged, OfKind
    <2> QED BY <1>1, <1>6, <2>1 DEF CutShort
<1> QED
    BY <1>1, <1>3, <1>4, <1>5, <1>6, <1>7

\* The offset is a natural number, and the cursors of an OffsetCursor repeat the
\* size of the page and of the folder.
LEMMA OffsetType ==
    ASSUME ListingIInv
    PROVE  /\ Offset \in Nat
           /\ listing = "box" => BoxCursor.offset = Offset /\ BoxCursor.limit = PageSize
           /\ listing \in Numbered =>
                PageNumber \in Nat \ {0} /\ Offset = (PageNumber - 1) * PageSize
           /\ listing \in Tokened => Offset = TokenOffset
<1>1. PageSize \in Nat
    BY ListingAssumption
<1>2. CASE listing = "box"
    <2>1. CASE cursor = <<>>
        BY <1>1, <1>2, <2>1 DEF Offset, BoxCursor, DecodeCursor, Numbered, Tokened
    <2>2. CASE cursor # <<>>
        <3>1. PICK n \in Nat : cursor = <<n, PageSize, Size>>
            BY <1>2, <2>2 DEF ListingIInv, CursorOK, Numbered, Tokened
        <3> QED BY <1>1, <1>2, <2>2, <3>1 DEF Offset, BoxCursor, DecodeCursor, Numbered, Tokened
    <2> QED BY <2>1, <2>2
<1>3. CASE listing \in Numbered
    <2>1. PageNumber \in Nat \ {0}
        BY <1>3 DEF ListingIInv, CursorOK, PageNumber, Numbered, Tokened
    <2>2. \A n \in Nat \ {0} : (n - 1) * PageSize \in Nat
        BY <1>1
    <2> QED BY <1>3, <2>1, <2>2 DEF Offset, Numbered, Tokened
<1>4. CASE listing \in Tokened
    <2>1. TokenOffset \in Nat
        BY <1>4 DEF ListingIInv, CursorOK, TokenOffset, Numbered, Tokened
    <2> QED BY <1>4, <2>1 DEF Offset, Numbered, Tokened
<1>5. CASE listing # "box" /\ listing \notin Numbered /\ listing \notin Tokened
    BY <1>5 DEF Offset
<1> QED BY <1>2, <1>3, <1>4, <1>5

\* What a client should receive are items.
LEMMA WantedTypes ==
    ASSUME folder \in Folders
    PROVE  Wanted \subseteq ListedItem
<1>1. ASSUME NEW i \in Entries PROVE ItemOf(i) \in ListedItem
    <2>1. i \in Nat \ {0}
        BY FolderIsFinite
    <2> QED BY <2>1 DEF ItemOf, ListedItem, ItemType
<1> QED BY <1>1, WantedItems DEF Items

\* What a client receives of each list when the result has a part of it.
LEMMA PartReceived ==
    ASSUME ListingIInv, NEW k \in Nat, NEW result, Receive(result),
           result.items = Items(Part(Offset, k)),
           {result.this, result.next, result.prev} \subseteq Cursors \cup {None},
           result.next # None => Offset' = Offset + k /\ CursorOK' /\ BackOK',
           result.next = None =>
               CutShort \/ \A i \in Entries : IsWanted(i) => Number(i) < Offset + k
    PROVE  ListingIInv'
<1>0. Offset \in Nat /\ folder \in Folders /\ walk = "more"
    BY OffsetType DEF ListingIInv, ListingTypeOK, Receive
<1>1. /\ Entries' = Entries /\ Size' = Size /\ Wanted' = Wanted
      /\ CutShort' <=> CutShort
      /\ \A i : /\ ItemOf(i)' = ItemOf(i)
                /\ IsWanted(i)' <=> IsWanted(i)
                /\ Number(i)' = Number(i)
    BY SameFolder DEF Receive
<1>2. listed' = Items(Through(Offset + k)) /\ listed' \subseteq Wanted /\ repeated' = FALSE
    <2>1. listed = Items(Through(Offset)) /\ repeated = FALSE
        BY <1>0 DEF ListingIInv, ListedOnce, ListingTypeOK
    <2>2. listed' = listed \cup result.items /\ repeated' = (repeated \/ result.items \cap listed # {})
        BY DEF Receive
    <2>3. /\ Items(Through(Offset + k)) = Items(Through(Offset)) \cup Items(Part(Offset, k))
          /\ Items(Through(Offset)) \cap Items(Part(Offset, k)) = {}
          /\ Items(Through(Offset)) \subseteq Wanted /\ Items(Part(Offset, k)) \subseteq Wanted
        BY <1>0, PartsAddUp
    <2>4. repeated' = (FALSE \/ FALSE)
        BY <2>1, <2>2, <2>3
    <2> QED BY <2>1, <2>2, <2>3, <2>4
<1>3. ListedOnce'
    BY <1>1, <1>2 DEF ListedOnce
<1>4. walk' = "more" => listed' = Items(Through(Offset))'
    <2> SUFFICES ASSUME walk' = "more" PROVE listed' = Items(Through(Offset))'
        OBVIOUS
    <2>1. Offset' = Offset + k
        BY DEF Receive
    <2>2. Through(Offset)' = Through(Offset + k)
        BY <1>1, <2>1 DEF Through
    <2> QED BY <1>1, <1>2, <2>2 DEF Items
<1>5. CompleteUnlessCutShort'
    <2> SUFFICES ASSUME walk' = "done" PROVE listed' = Wanted' \/ CutShort'
        BY DEF CompleteUnlessCutShort
    <2>1. result.next = None
        BY DEF Receive
    <2>2. CASE CutShort
        BY <1>1, <2>2
    <2>3. CASE \A i \in Entries : IsWanted(i) => Number(i) < Offset + k
        <3>1. Through(Offset + k) = {i \in Entries : IsWanted(i)}
            BY <2>3 DEF Through
        <3> QED BY <1>1, <1>2, <3>1, WantedItems
    <2> QED BY <2>1, <2>2, <2>3
<1>6. CursorOK' /\ BackOK'
    <2>1. CASE result.next = None
        BY <2>1 DEF Receive, CursorOK, BackOK
    <2> QED BY <2>1
<1>7. ListingTypeOK'
    <2>1. listed' \subseteq ListedItem
        BY <1>0, <1>2, WantedTypes
    <2>2. cursor' \in Cursors
        BY DEF Receive, Cursors
    <2>3. walk' \in {"more", "done", "failed"} /\ sample' = result
        BY DEF Receive
    <2>4. UNCHANGED <<listing, folder, item_type>>
        BY DEF Receive
    <2> QED BY <1>2, <2>1, <2>2, <2>3, <2>4 DEF ListingIInv, ListingTypeOK
<1> QED
    BY <1>3, <1>4, <1>5, <1>6, <1>7 DEF ListingIInv, Receive

-----------------------------------------------------------------------------
(* The operations: what each returns is a part of what is wanted. *)

\* What is wanted, by operation.
LEMMA WantedByOperation ==
    ASSUME ListingIInv, NEW i \in Entries
    PROVE  /\ listing \in {"box", "google_drive", "bitbucket", "gitlab", "dropbox", "azure",
                           "owncloud"} =>
                (IsWanted(i) <=> item_type \in {None, ItemOf(i).item_type})
           /\ listing \in {"github_repos", "gitlab_projects", "dataverse_mydata",
                           "bitbucket_workspaces", "bitbucket_repos", "onedrive"} => IsWanted(i)
           /\ listing = "figshare_root" => (IsWanted(i) <=> folder[i] # "other")
           /\ listing = "github" =>
                (IsWanted(i) <=> folder[i] \in CASE item_type = None     -> Kinds
                                                 [] item_type = "FILE"   -> {"file"}
                                                 [] item_type = "FOLDER" -> {"folder"})
           /\ listing = "figshare_articles" =>
                (IsWanted(i) <=> item_type # "FILE" /\ folder[i] # "other")
           /\ listing = "figshare_files" => (IsWanted(i) <=> item_type # "FOLDER")
           /\ listing = "s3" =>
                (IsWanted(i) <=> /\ folder[i] # "other"
                                 /\ item_type \in {None, ItemOf(i).item_type})
           /\ listing = "dataverse" => (IsWanted(i) <=> item_type # "FILE")
           /\ listing = "dataverse_files" => (IsWanted(i) <=> item_type # "FOLDER")
           /\ listing = "dataverse_link" => (IsWanted(i) <=> folder[i] # "other")
           /\ listing \in {"zotero", "mendeley"} =>
                (IsWanted(i) <=> \/ folder[i] = "file" /\ item_type # "FOLDER"
                                 \/ folder[i] = "folder" /\ item_type # "FILE")
<1>0. /\ folder[i] \in {"file", "folder", "other"}
      /\ item_type \in {"FILE", "FOLDER", None} /\ None # "FILE" /\ None # "FOLDER"
      /\ listing \in Roots => item_type = None
    BY FolderIsFinite, ListingAssumption DEF ListingIInv, ListingTypeOK, Kinds, ItemType
<1>1. ItemOf(i).item_type = IF folder[i] \in FileKinds THEN "FILE" ELSE "FOLDER"
    BY DEF ItemOf
<1>2. ASSUME listing \in {"box", "google_drive", "bitbucket", "gitlab", "dropbox", "azure",
                          "owncloud"}
      PROVE  IsWanted(i) <=> item_type \in {None, ItemOf(i).item_type}
    BY <1>2 DEF IsWanted, IsHidden, Untyped
<1>3. ASSUME listing \in {"github_repos", "gitlab_projects", "dataverse_mydata",
                          "bitbucket_workspaces", "bitbucket_repos", "onedrive"}
      PROVE  IsWanted(i)
    BY <1>0, <1>3 DEF IsWanted, IsHidden, Untyped, Roots
<1>4. ASSUME listing = "figshare_root" PROVE IsWanted(i) <=> folder[i] # "other"
    BY <1>0, <1>4 DEF IsWanted, IsHidden, Roots
<1>5. ASSUME listing = "github"
      PROVE  IsWanted(i) <=> folder[i] \in CASE item_type = None     -> Kinds
                                             [] item_type = "FILE"   -> {"file"}
                                             [] item_type = "FOLDER" -> {"folder"}
    <2>1. FileKinds = {"file"}
        BY <1>5 DEF FileKinds
    <2>2. IsWanted(i) <=> /\ folder[i] = "other" => item_type = None
                          /\ item_type \in {None, ItemOf(i).item_type}
        BY <1>5 DEF IsWanted, IsHidden, Untyped
    <2> QED BY <1>0, <1>1, <2>1, <2>2 DEF Kinds
<1>6. ASSUME listing \in {"figshare_articles", "s3", "dataverse_link", "zotero", "mendeley"}
      PROVE  IsWanted(i) <=> /\ folder[i] # "other"
                             /\ listing \in Untyped \/ item_type \in {None, ItemOf(i).item_type}
    BY <1>6 DEF IsWanted, IsHidden
<1>7. ASSUME listing = "figshare_articles"
      PROVE  IsWanted(i) <=> item_type # "FILE" /\ folder[i] # "other"
    <2>1. FileKinds = {} /\ listing \notin Untyped
        BY <1>7 DEF FileKinds, Untyped
    <2> QED BY <1>0, <1>1, <1>6, <1>7, <2>1
<1>8. ASSUME listing \in {"figshare_files", "dataverse_files"}
      PROVE  IsWanted(i) <=> item_type # "FOLDER"
    <2>1. FileKinds = Kinds
        BY <1>8 DEF FileKinds
    <2>2. IsWanted(i) <=> item_type \in {None, ItemOf(i).item_type}
        BY <1>8 DEF IsWanted, IsHidden, Untyped
    <2> QED BY <1>0, <1>1, <2>1, <2>2 DEF Kinds
<1>9. ASSUME listing = "dataverse" PROVE IsWanted(i) <=> item_type # "FILE"
    <2>1. FileKinds = {}
        BY <1>9 DEF FileKinds
    <2>2. IsWanted(i) <=> item_type \in {None, ItemOf(i).item_type}
        BY <1>9 DEF IsWanted, IsHidden, Untyped
    <2> QED BY <1>0, <1>1, <2>1, <2>2
<1>10. ASSUME listing \in {"zotero", "mendeley"}
       PROVE  IsWanted(i) <=> \/ folder[i] = "file" /\ item_type # "FOLDER"
                              \/ folder[i] = "folder" /\ item_type # "FILE"
    <2>1. FileKinds = {"file"} /\ listing \notin Untyped
        BY <1>10 DEF FileKinds, Untyped
    <2> QED BY <1>0, <1>1, <1>6, <1>10, <2>1
<1>11. listing = "s3" => listing \notin Untyped
    BY DEF Untyped
<1>12. listing = "dataverse_link" => listing \in Untyped
    BY DEF Untyped
<1> QED
    BY <1>2, <1>3, <1>4, <1>5, <1>6, <1>7, <1>8, <1>9, <1>10, <1>11, <1>12

\* Items are selected by type like their entries.
LEMMA OfTypeItems ==
    ASSUME NEW S
    PROVE  OfWantedType(Items(S)) = Items({i \in S : item_type \in {None, ItemOf(i).item_type}})
BY DEF OfWantedType, Items

\* Unless there are two lists, a part is what is wanted of a page.
LEMMA PartOfPage ==
    ASSUME NEW n, NEW k, listing # "figshare_root"
    PROVE  Part(n, k) = {i \in Slice(Entries, n, k) : IsWanted(i)}
BY DEF Part, Slice, Number, ListOf

\* A page that is not the whole rest is full, and so is each of the two lists of
\* figshare.
LEMMA MoreMeansFull ==
    ASSUME folder \in Folders, NEW i \in Entries, NEW n \in Nat, NEW k \in Nat, Number(i) >= n + k
    PROVE  /\ IsFiniteSet(Slice(ListOf(i), n, k))
           /\ Cardinality(Slice(ListOf(i), n, k)) = k
           /\ n + k < Size
<1>1. ListOf(i) \subseteq Nat /\ IsFiniteSet(ListOf(i)) /\ i \in ListOf(i)
    BY NumbersAreNatural
<1>2. NumberBefore(i, ListOf(i)) >= n + k
    BY DEF Number
<1>3. ListOf(i) \subseteq Entries /\ IsFiniteSet(Entries) /\ Size \in Nat
    BY FolderIsFinite DEF ListOf, OfKind
<1>4. Cardinality(ListOf(i)) \in Nat /\ Cardinality(ListOf(i)) <= Size
    BY <1>1, <1>3, FS_CardinalityType, FS_Subset DEF Size
<1>5. NumberBefore(i, ListOf(i)) \in 0 .. Cardinality(ListOf(i)) - 1
    BY <1>1, NumbersBefore
<1>6. n + k < Size
    BY <1>2, <1>3, <1>4, <1>5
<1> QED
    BY <1>1, <1>2, <1>6, PageIsFull

\* If something is not wanted, less is wanted than there is.
LEMMA WantedIsLess ==
    ASSUME folder \in Folders, NEW i \in Entries, ~IsWanted(i)
    PROVE  Cardinality(Wanted) < Size
<1> DEFINE W == {j \in Entries : IsWanted(j)}
           item == [j \in W |-> ItemOf(j)]
<1>1. IsFiniteSet(Entries) /\ Size \in Nat /\ Cardinality(Entries) = Size
    BY FolderIsFinite DEF Size
<1>2. W \subseteq Entries /\ W # Entries
    OBVIOUS
<1>3. Wanted = Items(W)
    BY WantedItems
<1>4. item \in Surjection(W, Items(W))
    BY DEF Surjection, Items
<1> HIDE DEF W, item
<1>5. IsFiniteSet(W) /\ Cardinality(W) <= Size /\ Cardinality(W) # Size
    BY <1>1, <1>2, FS_Subset
<1>6. Cardinality(W) \in Nat
    BY <1>5, FS_CardinalityType
<1>7. IsFiniteSet(Items(W)) /\ Cardinality(Items(W)) <= Cardinality(W)
    BY <1>4, <1>5, FS_Surjection
<1>8. Cardinality(Items(W)) \in Nat
    BY <1>7, FS_CardinalityType
<1> QED
    BY <1>1, <1>3, <1>5, <1>6, <1>7, <1>8

-----------------------------------------------------------------------------
(* Each operation preserves the invariant. *)

\* An error ends the walk.
LEMMA FailIInv ==
    ASSUME ListingIInv, Fail
    PROVE  ListingIInv'
<1>1. UNCHANGED <<listing, folder, item_type>> /\ walk' = "failed" /\ sample' = None
      /\ cursor' = cursor /\ listed' = listed /\ repeated' = repeated
    BY DEF Fail
<1>2. Wanted' = Wanted /\ Size' = Size
    BY <1>1, SameFolder
<1>3. ListingTypeOK' /\ BackOK' /\ CompleteUnlessCutShort' /\ ListedOnce'
    BY <1>1, <1>2 DEF ListingIInv, ListingTypeOK, BackOK, CompleteUnlessCutShort, ListedOnce
<1>4. CursorOK'
    BY <1>1, <1>2 DEF ListingIInv, CursorOK
<1> QED
    BY <1>1, <1>3, <1>4 DEF ListingIInv

\* A result without cursors ends the walk.
LEMMA SampleReceived ==
    ASSUME ListingIInv, Offset = 0, NEW items, Receive(Sample(items)),
           items \subseteq Wanted, CutShort \/ items = Wanted
    PROVE  ListingIInv'
<1>0. /\ folder \in Folders /\ walk = "more"
      /\ listed = Items(Through(Offset)) /\ repeated = FALSE
    BY DEF ListingIInv, ListingTypeOK, ListedOnce, Receive
<1>1. Through(0) = {}
    BY <1>0, NumbersAreNatural DEF Through
<1>2. listed = {}
    BY <1>0, <1>1 DEF Items
<1>3. /\ Sample(items).items = items /\ Sample(items).next = None
      /\ {Sample(items).this, Sample(items).next, Sample(items).prev} \subseteq Cursors \cup {None}
    BY DEF Sample, Cursors
<1>4. /\ sample' = Sample(items) /\ walk' = "done" /\ cursor' = <<>>
      /\ listed' = items
      /\ UNCHANGED <<listing, folder, item_type>>
    BY <1>2, <1>3 DEF Receive
<1>5. repeated' = (FALSE \/ FALSE)
    BY <1>0, <1>2, <1>3 DEF Receive
<1>6. Wanted' = Wanted /\ (CutShort' <=> CutShort)
    BY <1>4, SameFolder
<1>7. ListedOnce' /\ CompleteUnlessCutShort' /\ CursorOK' /\ BackOK'
    BY <1>4, <1>5, <1>6 DEF ListedOnce, CompleteUnlessCutShort, CursorOK, BackOK
<1>8. items \subseteq ListedItem
    BY <1>0, WantedTypes
<1>9. ListingTypeOK'
    BY <1>3, <1>4, <1>5, <1>8 DEF ListingIInv, ListingTypeOK, Cursors
<1> QED
    BY <1>4, <1>7, <1>9 DEF ListingIInv

\* The first page of a list has the whole of it if it is not longer.
LEMMA FirstPageIs ==
    ASSUME folder \in Folders, NEW S, S \subseteq Entries, NEW n \in Nat
    PROVE  /\ Slice(S, 0, n) \subseteq S
           /\ ~(Cardinality(S) > n) => Slice(S, 0, n) = S
<1>1. S \subseteq Nat /\ IsFiniteSet(S)
    BY FolderIsFinite, FS_Subset
<1>2. Cardinality(S) \in Nat
    BY <1>1, FS_CardinalityType
<1>3. \A i \in S : NumberBefore(i, S) \in 0 .. Cardinality(S) - 1
    BY <1>1, NumbersBefore
<1>4. Slice(S, 0, n) = {i \in S : NumberBefore(i, S) \in 0 .. 0 + n - 1}
    BY DEF Slice
<1> QED BY <1>2, <1>3, <1>4

\* The whole folder is one part.
LEMMA WholeFolder ==
    ASSUME ListingIInv
    PROVE  /\ Size \in Nat
           /\ \A i \in Entries : Number(i) < Size
           /\ Part(0, Size) = {i \in Entries : IsWanted(i)}
<1>1. Size \in Nat /\ folder \in Folders
    BY FolderIsFinite DEF ListingIInv, ListingTypeOK
<1>2. ASSUME NEW i \in Entries PROVE Number(i) \in 0 .. Size - 1
    <2>1. Number(i) \in Nat
        BY <1>1, NumbersAreNatural
    <2>2. ASSUME Number(i) >= 0 + Size PROVE FALSE
        <3>1. 0 + Size < Size
            BY <1>1, <2>2, MoreMeansFull
        <3> QED BY <1>1, <3>1
    <2> QED BY <1>1, <2>1, <2>2
<1>3. Part(0, Size) = {i \in Entries : IsWanted(i)}
    BY <1>1, <1>2 DEF Part
<1>4. \A i \in Entries : Number(i) < Size
    BY <1>1, <1>2
<1> QED
    BY <1>1, <1>3, <1>4

\* What is wanted of documents and collections.
WantedOf(i) ==
    \/ folder[i] = "file" /\ item_type # "FOLDER"
    \/ folder[i] = "folder" /\ item_type # "FILE"

\* The documents and collections of a folder, of each the first page.
LEMMA DocumentsIInv ==
    ASSUME ListingIInv, Offset = 0, NEW documents, NEW collections,
           Receive(DocumentsAndCollections(documents, collections)),
           documents \subseteq Entries, OfKind(documents, {"file"}) = OfKind(Entries, {"file"}),
           collections \subseteq Entries, OfKind(collections, {"folder"}) = OfKind(Entries, {"folder"}),
           {documents, collections} \subseteq Unpaged,
           \A i \in Entries : IsWanted(i) <=> WantedOf(i)
    PROVE  ListingIInv'
<1> DEFINE S == (IF item_type = "FOLDER" THEN {} ELSE OfKind(FirstPage(documents), {"file"}))
                \cup (IF item_type = "FILE" THEN {} ELSE OfKind(FirstPage(collections), {"folder"}))
           W == {i \in Entries : IsWanted(i)}
<1>0. folder \in Folders /\ DefaultPage \in Nat
    BY ListingAssumption DEF ListingIInv, ListingTypeOK
<1>1. FirstPage(documents) \subseteq documents /\ FirstPage(collections) \subseteq collections
    BY <1>0, FirstPageIs DEF FirstPage
<1>2. S \subseteq W
    <2>1. ASSUME NEW i \in OfKind(FirstPage(documents), {"file"}), item_type # "FOLDER" PROVE i \in W
        BY <1>1, <2>1 DEF OfKind, WantedOf
    <2>2. ASSUME NEW i \in OfKind(FirstPage(collections), {"folder"}), item_type # "FILE" PROVE i \in W
        BY <1>1, <2>2 DEF OfKind, WantedOf
    <2> QED BY <2>1, <2>2
<1>3. CASE Cardinality(documents) > DefaultPage \/ Cardinality(collections) > DefaultPage
    <2>1. CutShort
        BY <1>3 DEF CutShort
    <2>2. Items(S) \subseteq Wanted
        BY <1>2, WantedItems DEF Items
    <2>3. Receive(Sample(Items(S)))
        BY DEF DocumentsAndCollections
    <2> HIDE DEF S
    <2> QED BY <2>1, <2>2, <2>3, SampleReceived
<1>4. CASE ~(Cardinality(documents) > DefaultPage) /\ ~(Cardinality(collections) > DefaultPage)
    <2>1. FirstPage(documents) = documents /\ FirstPage(collections) = collections
        BY <1>0, <1>4, FirstPageIs DEF FirstPage
    <2>2. W \subseteq S
        BY <2>1 DEF OfKind, WantedOf
    <2>3. Items(S) = Wanted
        BY <1>2, <2>2, WantedItems
    <2>4. Receive(Sample(Items(S)))
        BY DEF DocumentsAndCollections
    <2> HIDE DEF S
    <2> QED BY <2>3, <2>4, SampleReceived
<1> QED BY <1>3, <1>4

LEMMA ListAtOnceIInv ==
    ASSUME ListingIInv, ListAtOnce
    PROVE  ListingIInv'
<1> DEFINE W == {i \in Entries : IsWanted(i)}
           OfAsked(S) == {i \in S : item_type \in {None, ItemOf(i).item_type}}
<1>0. /\ listing \in {"azure", "s3", "owncloud", "dataverse", "dataverse_files",
                      "dataverse_link", "zotero", "mendeley"}
      /\ Offset = 0
      /\ folder \in Folders
    BY DEF ListAtOnce, Offset, Numbered, Tokened, ListingIInv, ListingTypeOK
<1>1. ASSUME NEW S, Receive(Sample(Items(S))), S = W PROVE ListingIInv'
    BY <1>0, <1>1, WantedItems, SampleReceived
<1>2. \A i \in Entries : folder[i] \in {"file", "folder", "other"}
    BY FolderIsFinite DEF ListingIInv, ListingTypeOK, Kinds
<1>3. ASSUME listing = "azure", Receive(Azure) PROVE ListingIInv'
    <2> DEFINE page == Slice(Entries, 0, MAX_RESULTS)
    <2>1. page \subseteq Entries /\ (~(Size > MAX_RESULTS) => page = Entries)
        BY <1>0, FirstPageIs, ListingAssumption DEF Size
    <2>2. Receive(Sample(Items(OfAsked(page))))
        BY <1>3, OfTypeItems DEF Azure
    <2>3. OfAsked(page) \subseteq W /\ (page = Entries => OfAsked(page) = W)
        BY <1>3, <2>1, WantedByOperation
    <2>4. CutShort \/ page = Entries
        BY <1>3, <2>1 DEF CutShort
    <2> HIDE DEF page
    <2>5. Items(OfAsked(page)) \subseteq Wanted /\ (CutShort \/ Items(OfAsked(page)) = Wanted)
        BY <2>3, <2>4, WantedItems DEF Items
    <2> QED BY <1>0, <2>2, <2>5, SampleReceived
<1>4. ASSUME listing = "s3", Receive(S3) PROVE ListingIInv'
    <2> DEFINE page == FirstPage(Entries)
               S == OfKind(page, {"file", "folder"})
    <2>1. page \subseteq Entries /\ (~(Size > DefaultPage) => page = Entries)
        BY <1>0, FirstPageIs, ListingAssumption DEF FirstPage, Size
    <2>2. Receive(Sample(Items(OfAsked(S))))
        BY <1>4, OfTypeItems DEF S3
    <2>3. OfAsked(S) \subseteq W /\ (page = Entries => OfAsked(S) = W)
        BY <1>2, <1>4, <2>1, WantedByOperation DEF OfKind
    <2>4. CutShort \/ page = Entries
        BY <1>4, <2>1 DEF CutShort, Unpaged, Size
    <2> HIDE DEF page, S
    <2>5. Items(OfAsked(S)) \subseteq Wanted /\ (CutShort \/ Items(OfAsked(S)) = Wanted)
        BY <2>3, <2>4, WantedItems DEF Items
    <2> QED BY <1>0, <2>2, <2>5, SampleReceived
<1>5. ASSUME listing = "owncloud", Receive(OwnCloud) PROVE ListingIInv'
    <2>1. OfAsked(Entries) = W
        BY <1>5, WantedByOperation
    <2>2. Receive(Sample(Items(OfAsked(Entries))))
        BY <1>5, OfTypeItems DEF OwnCloud
    <2> QED BY <1>1, <2>1, <2>2
<1>6. ASSUME listing = "dataverse", Receive(Dataverse) PROVE ListingIInv'
    <2>1. (IF item_type = "FILE" THEN {} ELSE Items(Entries)) = Items(W)
        BY <1>6, WantedByOperation DEF Items
    <2> HIDE DEF W
    <2> QED BY <1>1, <1>6, <2>1 DEF Dataverse
<1>7. ASSUME listing = "dataverse_files", Receive(DataverseFiles) PROVE ListingIInv'
    <2>1. (IF item_type = "FOLDER" THEN {} ELSE Items(Entries)) = Items(W)
        BY <1>7, WantedByOperation DEF Items
    <2> HIDE DEF W
    <2> QED BY <1>1, <1>7, <2>1 DEF DataverseFiles
<1>8. ASSUME listing = "dataverse_link", Receive(DataverseLink) PROVE ListingIInv'
    <2>1. OfKind(Entries, {"file", "folder"}) = W
        BY <1>2, <1>8, WantedByOperation DEF OfKind
    <2> QED BY <1>1, <1>8, <2>1 DEF DataverseLink
<1>9. ASSUME listing \in {"zotero", "mendeley"}
      PROVE  \A i \in Entries : IsWanted(i) <=> WantedOf(i)
    <2> TAKE i \in Entries
    <2> QED BY <1>9, WantedByOperation DEF WantedOf
<1>10. ASSUME listing = "zotero", Receive(Zotero) PROVE ListingIInv'
    <2> DEFINE documents == OfKind(Entries, {"file", "other"})
               collections == OfKind(Entries, {"folder"})
    <2>1. /\ documents \subseteq Entries /\ OfKind(documents, {"file"}) = OfKind(Entries, {"file"})
          /\ collections \subseteq Entries /\ OfKind(collections, {"folder"}) = OfKind(Entries, {"folder"})
        BY DEF OfKind
    <2>2. {documents, collections} \subseteq Unpaged
        BY <1>10 DEF Unpaged
    <2>3. Receive(DocumentsAndCollections(documents, collections))
        BY <1>10 DEF Zotero
    <2> HIDE DEF documents, collections
    <2> QED BY <1>0, <1>9, <1>10, <2>1, <2>2, <2>3, DocumentsIInv
<1>11. ASSUME listing = "mendeley", Receive(Mendeley) PROVE ListingIInv'
    <2> DEFINE documents == OfKind(Entries, {"file"})
               collections == OfKind(Entries, {"folder", "other"})
    <2>1. /\ documents \subseteq Entries /\ OfKind(documents, {"file"}) = OfKind(Entries, {"file"})
          /\ collections \subseteq Entries /\ OfKind(collections, {"folder"}) = OfKind(Entries, {"folder"})
        BY DEF OfKind
    <2>2. {documents, collections} \subseteq Unpaged
        BY <1>11 DEF Unpaged
    <2>3. Receive(DocumentsAndCollections(documents, collections))
        BY <1>11 DEF Mendeley
    <2> HIDE DEF documents, collections
    <2> QED BY <1>0, <1>9, <1>11, <2>1, <2>2, <2>3, DocumentsIInv
<1> QED
    BY <1>3, <1>4, <1>5, <1>6, <1>7, <1>8, <1>10, <1>11 DEF ListAtOnce

\* A next page by number starts where this one ends.
LEMMA NumberedAdvances ==
    ASSUME ListingIInv, listing \in Numbered, NEW result, Receive(result),
           result.next # None, result.next = <<PageNumber + 1>>
    PROVE  Offset' = Offset + PageSize
<1>1. /\ PageNumber \in Nat \ {0} /\ Offset = (PageNumber - 1) * PageSize
      /\ PageSize \in Nat
    BY OffsetType, ListingAssumption
<1>2. cursor' = <<PageNumber + 1>> /\ listing' = listing
    BY DEF Receive
<1>3. PageNumber' = PageNumber + 1
    BY <1>1, <1>2 DEF PageNumber
<1>4. Offset' = (PageNumber' - 1) * PageSize
    <2>1. listing # "box"
        BY DEF Numbered
    <2>2. listing' # "box" /\ listing' \in Numbered
        BY <1>2, <2>1
    <2> QED BY <2>2, Zenon DEF Offset
<1>5. \A n \in Nat \ {0}, k \in Nat : \A m, o :
          m = n + 1 /\ o = (m - 1) * k => o = (n - 1) * k + k
    <2> SUFFICES ASSUME NEW n \in Nat \ {0}, NEW k \in Nat
                 PROVE  (n + 1 - 1) * k = (n - 1) * k + k
        OBVIOUS
    <2>1. n + 1 - 1 = (n - 1) + 1
        OBVIOUS
    <2> QED BY <2>1
<1>6. /\ PageNumber \in Nat \ {0}
      /\ Offset = (PageNumber - 1) * PageSize
      /\ PageSize \in Nat
    BY <1>1
<1> QED
    BY <1>3, <1>4, <1>5, <1>6, Zenon

\* Pages by number.
LEMMA NumberedReceived ==
    ASSUME ListingIInv, listing \in Numbered, NEW result, Receive(result),
           result.items = Items(Part(Offset, PageSize)),
           result.next \in {None, <<PageNumber + 1>>},
           result.this \in Cursors, result.prev \in Cursors \cup {None},
           listing \in {"github_repos", "github"} => result.this = <<PageNumber>>,
           result.next = None =>
               CutShort \/ \A i \in Entries : IsWanted(i) => Number(i) < Offset + PageSize
    PROVE  ListingIInv'
<1>1. /\ PageNumber \in Nat \ {0} /\ Offset = (PageNumber - 1) * PageSize
      /\ PageSize \in Nat
    BY OffsetType, ListingAssumption
<1>2. ASSUME result.next # None PROVE Offset' = Offset + PageSize /\ CursorOK' /\ BackOK'
    <2>1. cursor' = <<PageNumber + 1>> /\ listing' = listing /\ sample' = result
        BY <1>2 DEF Receive
    <2>2. Offset' = Offset + PageSize
        BY <1>2, NumberedAdvances
    <2>3. CursorOK'
        <3>1. PageNumber + 1 \in Nat \ {0}
            BY <1>1
        <3> QED BY <2>1, <3>1 DEF CursorOK
    <2>4. BackOK'
        <3>1. listing # "box"
            BY DEF Numbered
        <3>2. PageNumber \in Nat
            BY <1>1
        <3> QED BY <2>1, <3>1, <3>2 DEF BackOK
    <2> QED BY <2>2, <2>3, <2>4
<1>3. {result.this, result.next, result.prev} \subseteq Cursors \cup {None}
    <2>1. <<PageNumber + 1>> \in Cursors
        BY <1>1 DEF Cursors
    <2> QED BY <2>1
<1> QED
    BY <1>1, <1>2, <1>3, PartReceived

\* When a page is not full after some entries were dropped, the listing ends: all
\* is listed, or it is cut short.
LEMMA DroppingCutsShort ==
    ASSUME ListingIInv, listing \in {"github", "figshare_articles", "figshare_root"},
           NEW i \in Entries, Number(i) >= Offset + PageSize,
           NEW j \in Entries, ~IsWanted(j)
    PROVE  CutShort
<1>1. folder \in Folders /\ Offset \in Nat /\ PageSize \in Nat
    BY OffsetType, ListingAssumption DEF ListingIInv, ListingTypeOK
<1>2. Offset + PageSize < Size /\ Size \in Nat
    BY <1>1, MoreMeansFull, FolderIsFinite
<1>3. Size > PageSize
    BY <1>1, <1>2
<1>4. Cardinality(Wanted) < Size
    BY <1>1, WantedIsLess
<1> QED
    BY <1>3, <1>4 DEF CutShort

\* What is left of a page that drops entries and is not full.
LEMMA DroppedPage ==
    ASSUME ListingIInv, listing \in {"github", "figshare_articles", "figshare_root"},
           NEW S, NEW i \in Entries, S = {j \in Slice(ListOf(i), Offset, PageSize) : IsWanted(j)},
           Number(i) >= Offset + PageSize, Cardinality(S) # PageSize
    PROVE  CutShort
<1> DEFINE page == Slice(ListOf(i), Offset, PageSize)
<1>1. folder \in Folders /\ Offset \in Nat /\ PageSize \in Nat
    BY OffsetType, ListingAssumption DEF ListingIInv, ListingTypeOK
<1>2. Cardinality(page) = PageSize
    BY <1>1, MoreMeansFull
<1>3. page \subseteq Entries
    BY DEF Slice, ListOf, OfKind
<1>4. S # page
    BY <1>2
<1>5. PICK j \in page : ~IsWanted(j)
    BY <1>4
<1> QED
    BY <1>3, <1>5, DroppingCutsShort

\* The result of PageCursor.
LEMMA PageCursorFields ==
    ASSUME ListingIInv, listing \in Numbered, NEW S
    PROVE  /\ PageCursor(S).items = Items(S)
           /\ PageCursor(S).this = <<PageNumber>> /\ PageCursor(S).this \in Cursors
           /\ PageCursor(S).next \in {None, <<PageNumber + 1>>}
           /\ PageCursor(S).next = None => Cardinality(S) # PageSize
           /\ PageCursor(S).prev \in {None, <<PageNumber - 1>>}
           /\ PageCursor(S).prev \in Cursors \cup {None}
<1>1. PageNumber \in Nat \ {0}
    BY OffsetType
<1>2. <<PageNumber>> \in Cursors /\ <<PageNumber + 1>> \in Cursors /\ <<PageNumber - 1>> \in Cursors
    BY <1>1 DEF Cursors
<1>3. <<PageNumber + 1>> # None
    BY <1>2, ListingAssumption
<1> QED
    BY <1>2, <1>3 DEF PageCursor

\* The next page of figshare.
LEMMA NextPageFields ==
    ASSUME ListingIInv, listing \in Numbered, NEW S
    PROVE  /\ NextPageAfter(S) \in {None, <<PageNumber + 1>>}
           /\ NextPageAfter(S) = None => Cardinality(S) # PageSize
<1>1. PageNumber \in Nat /\ PageSize \in Nat
    BY OffsetType, ListingAssumption
<1>2. <<PageNumber + 1>> \in Cursors
    BY <1>1 DEF Cursors
<1>3. <<PageNumber + 1>> # None
    BY <1>2, ListingAssumption
<1> QED
    BY <1>1, <1>3 DEF NextPageAfter

LEMMA NextPageReceived ==
    ASSUME ListingIInv, listing \in Numbered, listing \notin {"github_repos", "github"}, NEW S,
           Receive(SampleThen(Items(S), NextPageAfter(S))), S = Part(Offset, PageSize),
           Cardinality(S) # PageSize =>
               \A i \in Entries : IsWanted(i) => CutShort \/ Number(i) < Offset + PageSize
    PROVE  ListingIInv'
<1> DEFINE result == SampleThen(Items(S), NextPageAfter(S))
<1>1. /\ result.items = Items(Part(Offset, PageSize)) /\ result.next = NextPageAfter(S)
      /\ result.this = <<>> /\ result.prev = None
    BY DEF SampleThen, Sample
<1>2. <<>> \in Cursors
    BY DEF Cursors
<1>3. /\ NextPageAfter(S) \in {None, <<PageNumber + 1>>}
      /\ NextPageAfter(S) = None => Cardinality(S) # PageSize
    BY NextPageFields
<1> HIDE DEF result
<1>4. Receive(result)
    BY DEF result
<1> QED
    BY <1>1, <1>2, <1>3, <1>4, NumberedReceived

LEMMA GitHubReposIInv ==
    ASSUME ListingIInv, listing = "github_repos", Receive(GitHubRepos)
    PROVE  ListingIInv'
<1> DEFINE page == PageOf(Entries)
<1>0. /\ listing \in Numbered /\ Offset \in Nat /\ PageSize \in Nat /\ folder \in Folders
      /\ Offset = (PageNumber - 1) * PageSize
    BY OffsetType, ListingAssumption DEF Numbered, ListingIInv, ListingTypeOK
<1>1. page = Slice(Entries, Offset, PageSize)
    BY <1>0 DEF PageOf
<1>2. page = Part(Offset, PageSize)
    BY <1>1, PartOfPage, WantedByOperation DEF Slice
<1>3. ASSUME Cardinality(page) # PageSize, NEW i \in Entries PROVE Number(i) < Offset + PageSize
    <2>1. ListOf(i) = Entries /\ Number(i) \in Nat
        BY <1>0, NumbersAreNatural DEF ListOf
    <2>2. ~(Number(i) >= Offset + PageSize)
        BY <1>0, <1>1, <1>3, <2>1, MoreMeansFull
    <2> QED BY <1>0, <2>1, <2>2
<1> HIDE DEF page
<1>4. Receive(PageCursor(page))
    BY DEF GitHubRepos, page
<1> QED
    BY <1>0, <1>2, <1>3, <1>4, PageCursorFields, NumberedReceived

LEMMA GitHubContentsIInv ==
    ASSUME ListingIInv, listing = "github", Receive(GitHubContents)
    PROVE  ListingIInv'
<1> DEFINE kinds == CASE item_type = None     -> Kinds
                      [] item_type = "FILE"   -> {"file"}
                      [] item_type = "FOLDER" -> {"folder"}
           S == OfKind(PageOf(Entries), kinds)
<1>0. /\ listing \in Numbered /\ Offset \in Nat /\ PageSize \in Nat /\ folder \in Folders
      /\ Offset = (PageNumber - 1) * PageSize
    BY OffsetType, ListingAssumption DEF Numbered, ListingIInv, ListingTypeOK
<1>1. PageOf(Entries) = Slice(Entries, Offset, PageSize)
    BY <1>0 DEF PageOf
<1>2. \A i \in Entries : IsWanted(i) <=> folder[i] \in kinds
    BY WantedByOperation
<1>3. Receive(PageCursor(S))
    BY DEF GitHubContents
<1> HIDE DEF kinds
<1>4. S = {i \in Slice(Entries, Offset, PageSize) : IsWanted(i)}
    BY <1>1, <1>2 DEF OfKind, Slice
<1>5. S = Part(Offset, PageSize)
    BY <1>4, PartOfPage
<1>6. ASSUME Cardinality(S) # PageSize, NEW i \in Entries
      PROVE  CutShort \/ Number(i) < Offset + PageSize
    <2>1. ListOf(i) = Entries /\ Number(i) \in Nat
        BY <1>0, NumbersAreNatural DEF ListOf
    <2>2. CASE Number(i) >= Offset + PageSize
        BY <1>4, <1>6, <2>1, <2>2, DroppedPage
    <2> QED BY <1>0, <2>1, <2>2
<1> HIDE DEF S
<1> QED
    BY <1>0, <1>3, <1>5, <1>6, PageCursorFields, NumberedReceived

LEMMA FigshareArticlesIInv ==
    ASSUME ListingIInv, listing = "figshare_articles", Receive(FigshareArticles)
    PROVE  ListingIInv'
<1> DEFINE S == IF item_type = "FILE" THEN {}
                ELSE OfKind(PageOf(Entries), {"file", "folder"})
<1>0. /\ listing \in Numbered /\ Offset \in Nat /\ PageSize \in Nat \ {0} /\ folder \in Folders
      /\ Offset = (PageNumber - 1) * PageSize
    BY OffsetType, ListingAssumption DEF Numbered, ListingIInv, ListingTypeOK
<1>1. PageOf(Entries) = Slice(Entries, Offset, PageSize)
    BY <1>0 DEF PageOf
<1>2. \A i \in Entries : /\ IsWanted(i) <=> item_type # "FILE" /\ folder[i] # "other"
                         /\ folder[i] \in {"file", "folder", "other"}
    BY <1>0, WantedByOperation, FolderIsFinite DEF Kinds
<1>3. Receive(SampleThen(Items(S), NextPageAfter(S)))
    BY DEF FigshareArticles
<1>4. S = {i \in Slice(Entries, Offset, PageSize) : IsWanted(i)}
    BY <1>1, <1>2 DEF OfKind, Slice
<1>5. S = Part(Offset, PageSize)
    BY <1>4, PartOfPage
<1>6. ASSUME Cardinality(S) # PageSize, NEW i \in Entries
      PROVE  CutShort \/ Number(i) < Offset + PageSize
    <2>1. ListOf(i) = Entries /\ Number(i) \in Nat
        BY <1>0, NumbersAreNatural DEF ListOf
    <2>2. CASE Number(i) >= Offset + PageSize
        BY <1>4, <1>6, <2>1, <2>2, DroppedPage
    <2> QED BY <1>0, <2>1, <2>2
<1> HIDE DEF S
<1> QED
    BY <1>0, <1>3, <1>5, <1>6, NextPageReceived

LEMMA FigshareFilesIInv ==
    ASSUME ListingIInv, listing = "figshare_files", Receive(FigshareFiles)
    PROVE  ListingIInv'
<1> DEFINE S == IF item_type = "FOLDER" THEN {} ELSE PageOf(Entries)
<1>0. /\ listing \in Numbered /\ Offset \in Nat /\ PageSize \in Nat \ {0} /\ folder \in Folders
      /\ Offset = (PageNumber - 1) * PageSize
    BY OffsetType, ListingAssumption DEF Numbered, ListingIInv, ListingTypeOK
<1>1. PageOf(Entries) = Slice(Entries, Offset, PageSize)
    BY <1>0 DEF PageOf
<1>2. \A i \in Entries : IsWanted(i) <=> item_type # "FOLDER"
    BY WantedByOperation
<1>3. Receive(SampleThen(Items(S), NextPageAfter(S)))
    BY DEF FigshareFiles
<1>4. S = {i \in Slice(Entries, Offset, PageSize) : IsWanted(i)}
    BY <1>1, <1>2 DEF Slice
<1>5. S = Part(Offset, PageSize)
    BY <1>4, PartOfPage
<1>6. ASSUME Cardinality(S) # PageSize, NEW i \in Entries, IsWanted(i)
      PROVE  Number(i) < Offset + PageSize
    <2>1. ListOf(i) = Entries /\ Number(i) \in Nat /\ S = Slice(ListOf(i), Offset, PageSize)
        BY <1>0, <1>1, <1>2, <1>6, NumbersAreNatural DEF ListOf
    <2>2. ASSUME Number(i) >= Offset + PageSize PROVE FALSE
        BY <1>0, <1>6, <2>1, <2>2, MoreMeansFull
    <2> QED BY <1>0, <2>1, <2>2
<1> HIDE DEF S
<1> QED
    BY <1>0, <1>3, <1>5, <1>6, NextPageReceived

\* Projects and articles are paged together.
LEMMA FigshareRootIInv ==
    ASSUME ListingIInv, listing = "figshare_root", Receive(FigshareRoot)
    PROVE  ListingIInv'
<1> DEFINE projects == PageOf(OfKind(Entries, {"folder"}))
           articles == OfKind(PageOf(OfKind(Entries, {"file", "other"})), {"file"})
           next == IF NextPageAfter(projects) # None THEN NextPageAfter(projects)
                                                      ELSE NextPageAfter(articles)
           result == SampleThen(Items(projects \cup articles), next)
<1>0. /\ listing \in Numbered /\ Offset \in Nat /\ PageSize \in Nat \ {0} /\ folder \in Folders
      /\ Offset = (PageNumber - 1) * PageSize
    BY OffsetType, ListingAssumption DEF Numbered, ListingIInv, ListingTypeOK
<1>1. \A S : PageOf(S) = Slice(S, Offset, PageSize)
    BY <1>0 DEF PageOf
<1>2. \A i \in Entries : /\ IsWanted(i) <=> folder[i] # "other"
                         /\ folder[i] \in {"file", "folder", "other"}
    BY <1>0, WantedByOperation, FolderIsFinite DEF Kinds
<1>3. \A i \in Entries :
        /\ folder[i] = "folder" => ListOf(i) = OfKind(Entries, {"folder"})
        /\ folder[i] # "folder" => ListOf(i) = OfKind(Entries, {"file", "other"})
    BY DEF ListOf
<1>4. Receive(result)
    BY DEF FigshareRoot
<1>5. projects \cup articles = Part(Offset, PageSize)
    <2>1. ASSUME NEW i \in Entries
          PROVE  i \in projects \cup articles <=> i \in Part(Offset, PageSize)
        <3>1. CASE folder[i] = "folder"
            BY <1>1, <1>2, <1>3, <3>1 DEF Part, Number, OfKind, Slice
        <3>2. CASE folder[i] = "file"
            BY <1>1, <1>2, <1>3, <3>2 DEF Part, Number, OfKind, Slice
        <3>3. CASE folder[i] = "other"
            BY <1>1, <1>2, <3>3 DEF Part, OfKind, Slice
        <3> QED BY <1>2, <3>1, <3>2, <3>3
    <2>2. projects \cup articles \subseteq Entries /\ Part(Offset, PageSize) \subseteq Entries
        BY <1>1 DEF OfKind, Slice, Part
    <2> HIDE DEF projects, articles
    <2> QED BY <2>1, <2>2
<1>6. \A S : NextPageAfter(S) \in {None, <<PageNumber + 1>>}
             /\ (NextPageAfter(S) = None => Cardinality(S) # PageSize)
    BY <1>0, NextPageFields
<1>7. ASSUME next = None, NEW i \in Entries, IsWanted(i)
      PROVE  CutShort \/ Number(i) < Offset + PageSize
    <2>0. Cardinality(projects) # PageSize /\ Cardinality(articles) # PageSize
        BY <1>6, <1>7
    <2>1. Number(i) \in Nat
        BY <1>0, NumbersAreNatural
    <2>2. CASE folder[i] = "folder" /\ Number(i) >= Offset + PageSize
        <3>1. projects = Slice(ListOf(i), Offset, PageSize)
            BY <1>1, <1>3, <2>2
        <3>2. Cardinality(Slice(ListOf(i), Offset, PageSize)) = PageSize
            BY <1>0, <2>2, MoreMeansFull
        <3> QED BY <2>0, <3>1, <3>2
    <2>3. CASE folder[i] = "file" /\ Number(i) >= Offset + PageSize
        <3>1. articles = {j \in Slice(ListOf(i), Offset, PageSize) : IsWanted(j)}
            BY <1>1, <1>2, <1>3, <2>3 DEF OfKind, Slice
        <3> HIDE DEF articles
        <3> QED BY <2>0, <2>3, <3>1, DroppedPage
    <2> QED BY <1>0, <1>2, <1>7, <2>1, <2>2, <2>3
<1> HIDE DEF projects, articles
<1>8. /\ result.items = Items(Part(Offset, PageSize)) /\ result.next = next
      /\ result.this = <<>> /\ result.prev = None
    BY <1>5 DEF SampleThen, Sample
<1>9. next \in {None, <<PageNumber + 1>>}
    BY <1>6
<1>10. <<>> \in Cursors /\ listing \notin {"github_repos", "github"}
    BY DEF Cursors
<1> HIDE DEF next, result
<1> QED
    BY <1>0, <1>4, <1>7, <1>8, <1>9, <1>10, NumberedReceived

\* Pages of a token are as long as the service likes.
LEMMA TokenPage ==
    ASSUME ListingIInv, listing \in Tokened, NEW n \in 1 .. PageSize
    PROVE  LET page == Slice(Entries, TokenOffset, n)
           IN  /\ TokenAfter(page) # None => TokenAfter(page) = <<TokenOffset + n>>
               /\ TokenAfter(page) = None => \A i \in Entries : Number(i) < TokenOffset + n
<1> DEFINE t == TokenOffset
           page == Slice(Entries, t, n)
<1>0. /\ t \in Nat /\ n \in Nat /\ folder \in Folders
      /\ Size \in Nat /\ Entries = 1 .. Size /\ listing # "figshare_root"
    BY OffsetType, ListingAssumption, FolderIsFinite DEF ListingIInv, ListingTypeOK, Tokened
<1>1. ASSUME NEW i \in Entries PROVE ListOf(i) = Entries /\ Number(i) = i - 1
    BY <1>0, NumberInFolder DEF ListOf, Number
<1>2. ASSUME NEW i \in Entries, Number(i) >= t + n
      PROVE  Cardinality(page) = n /\ t + n < Size
    BY <1>0, <1>1, <1>2, MoreMeansFull
<1>3. ASSUME t + Cardinality(page) < Size PROVE Cardinality(page) = n
    <2>1. CASE Size >= t + n + 1
        <3>1. Size \in Entries /\ Number(Size) >= t + n
            BY <1>0, <1>1, <2>1
        <3> QED BY <1>2, <3>1
    <2>2. CASE ~(Size >= t + n + 1)
        <3>1. page = t + 1 .. Size
            BY <1>0, <2>2, NumberInFolder DEF Slice
        <3>2. Cardinality(t + 1 .. Size) = IF t + 1 > Size THEN 0 ELSE Size - (t + 1) + 1
            BY <1>0, FS_Interval
        <3> HIDE DEF page
        <3> QED BY <1>0, <1>3, <3>1, <3>2
    <2> QED BY <2>1, <2>2
<1>4. TokenAfter(page) # None => TokenAfter(page) = <<t + n>>
    BY <1>3 DEF TokenAfter
<1>5. ASSUME TokenAfter(page) = None, NEW i \in Entries PROVE Number(i) < t + n
    <2>1. Number(i) \in Int
        BY <1>0, <1>1
    <2>2. ASSUME Number(i) >= t + n PROVE FALSE
        <3>1. Cardinality(page) = n /\ t + n < Size
            BY <1>2, <2>2
        <3>2. TokenAfter(page) = <<t + n>>
            BY <3>1 DEF TokenAfter
        <3>3. <<t + n>> \in Cursors
            BY <1>0 DEF Cursors
        <3> QED BY <1>5, <3>2, <3>3, ListingAssumption
    <2> QED BY <1>0, <2>1, <2>2
<1> QED BY <1>4, <1>5

\* A next page of a token starts where this one ends.
LEMMA TokenAdvances ==
    ASSUME ListingIInv, listing \in Tokened, NEW n \in 1 .. PageSize, NEW result, Receive(result),
           result.next # None, result.next = <<TokenOffset + n>>
    PROVE  Offset' = Offset + n /\ cursor' = <<TokenOffset + n>>
<1>1. TokenOffset \in Nat /\ n \in Nat /\ Offset = TokenOffset
    BY OffsetType, ListingAssumption
<1>2. cursor' = <<TokenOffset + n>> /\ listing' = listing
    BY DEF Receive
<1>3. TokenOffset' = TokenOffset + n
    BY <1>1, <1>2 DEF TokenOffset
<1>4. listing' # "box" /\ listing' \notin Numbered /\ listing' \in Tokened
    BY <1>2 DEF Tokened, Numbered
<1>5. Offset' = TokenOffset'
    BY <1>4, Zenon DEF Offset
<1> QED
    BY <1>1, <1>2, <1>3, <1>5

LEMMA ListByTokenIInv ==
    ASSUME ListingIInv, ListByToken
    PROVE  ListingIInv'
<1>1. PICK n \in 1 .. PageSize : ByToken(Slice(Entries, TokenOffset, n))
    BY DEF ListByToken
<1> DEFINE page == Slice(Entries, TokenOffset, n)
           items == IF listing \in {"google_drive", "bitbucket", "gitlab", "dropbox"}
                    THEN OfWantedType(Items(page)) ELSE Items(page)
           result == SampleThen(items, TokenAfter(page))
<1>0. /\ listing \in Tokened /\ listing # "figshare_root" /\ n \in Nat /\ TokenOffset \in Nat
      /\ Offset = TokenOffset
    BY OffsetType, ListingAssumption DEF ListByToken, Tokened
<1>2. CASE Fail
    BY <1>2, FailIInv
<1>3. CASE Receive(result)
    <2>1. items = Items(Part(Offset, n))
        <3>0. Part(Offset, n) = {i \in page : IsWanted(i)} /\ page \subseteq Entries
            BY <1>0, PartOfPage DEF Slice
        <3>1. CASE listing \in {"google_drive", "bitbucket", "gitlab", "dropbox"}
            <4>1. {i \in page : item_type \in {None, ItemOf(i).item_type}} = Part(Offset, n)
                BY <3>0, <3>1, WantedByOperation
            <4> HIDE DEF page
            <4> QED BY <3>1, <4>1, OfTypeItems
        <3>2. CASE listing \notin {"google_drive", "bitbucket", "gitlab", "dropbox"}
            <4>1. page = Part(Offset, n)
                BY <1>0, <3>0, <3>2, WantedByOperation DEF Tokened
            <4> HIDE DEF page
            <4> QED BY <3>2, <4>1
        <3> QED BY <3>1, <3>2
    <2>2. /\ result.items = items /\ result.next = TokenAfter(page)
          /\ result.this = <<>> /\ result.prev = None
        BY DEF SampleThen, Sample
    <2>3. /\ TokenAfter(page) # None => TokenAfter(page) = <<TokenOffset + n>>
          /\ TokenAfter(page) = None => \A i \in Entries : Number(i) < Offset + n
        BY <1>0, TokenPage
    <2>4. <<TokenOffset + n>> \in Cursors /\ <<>> \in Cursors
        BY <1>0 DEF Cursors
    <2> HIDE DEF result, items, page
    <2>5. ASSUME result.next # None PROVE Offset' = Offset + n /\ CursorOK' /\ BackOK'
        <3>1. result.next = <<TokenOffset + n>>
            BY <1>0, <2>2, <2>3, <2>5
        <3>2. Offset' = Offset + n /\ cursor' = <<TokenOffset + n>>
            BY <1>0, <1>3, <2>5, <3>1, TokenAdvances
        <3>3. listing' \notin Numbered /\ listing' \in Tokened
            BY <1>0, <1>3 DEF Receive, Tokened, Numbered
        <3>4. TokenOffset + n \in Nat \ {0}
            BY <1>0
        <3>5. CursorOK'
            BY <3>2, <3>3, <3>4 DEF CursorOK
        <3>6. BackOK'
            BY <3>3 DEF BackOK, Tokened
        <3> QED BY <3>2, <3>5, <3>6
    <2>6. {result.this, result.next, result.prev} \subseteq Cursors \cup {None}
        BY <2>2, <2>3, <2>4
    <2> QED
        BY <1>0, <1>3, <2>1, <2>2, <2>3, <2>5, <2>6, PartReceived
<1>4. Fail \/ Receive(result)
    <2>1. TypedByToken(page) = SampleThen(OfWantedType(Items(page)), TokenAfter(page))
          /\ UntypedByToken(page) = SampleThen(Items(page), TokenAfter(page))
        BY DEF TypedByToken, UntypedByToken
    <2> HIDE DEF page
    <2>2. ByToken(page)
        BY <1>1 DEF page
    <2> QED BY <2>1, <2>2 DEF ByToken
<1> QED BY <1>2, <1>3, <1>4

\* The cursors that Box returns: this page, the next and the previous one, all of
\* the same length.
LEMMA BoxCursors ==
    ASSUME ListingIInv, listing = "box"
    PROVE  /\ Box.items = OfWantedType(Items(Slice(Entries, Offset, PageSize)))
           /\ Box.this = <<Offset, PageSize, Size>>
           /\ Box.next \in {None, <<Offset + PageSize, PageSize, Size>>}
           /\ Box.prev = None \/ /\ Box.prev = <<Offset - PageSize, PageSize, Size>>
                                 /\ Offset - PageSize \in Nat
           /\ Box.next = None => CutShort \/ Size <= Offset + PageSize
           /\ Box.next # None => Offset + PageSize < Size
<1> DEFINE parsed == [BoxCursor EXCEPT !.total_count = Size]
           at(n) == [offset |-> n, limit |-> PageSize, total_count |-> Size]
<1>0. /\ Offset \in Nat /\ PageSize \in Nat \ {0} /\ Size \in Nat
      /\ BoxCursor.offset = Offset /\ BoxCursor.limit = PageSize
    BY OffsetType, ListingAssumption, FolderIsFinite DEF ListingIInv, ListingTypeOK
<1>1. parsed = at(Offset)
    BY <1>0 DEF BoxCursor, DecodeCursor
<1>2. ASSUME NEW n \in Int
      PROVE  /\ at(n) \in OffsetCursors
             /\ EncodeCursor(at(n)) = <<n, PageSize, Size>>
             /\ at(n).offset = n /\ at(n).limit = PageSize /\ at(n).total_count = Size
    BY <1>0 DEF OffsetCursors, EncodeCursor
<1>3. /\ [at(Offset) EXCEPT !.offset = @ + at(Offset).limit] = at(Offset + PageSize)
      /\ [at(Offset) EXCEPT !.offset = @ - at(Offset).limit] = at(Offset - PageSize)
    OBVIOUS
<1>4. /\ NextCursorStr(at(Offset)) = StrIfValid(at(Offset + PageSize))
      /\ PrevCursorStr(at(Offset)) = StrIfValid(at(Offset - PageSize))
    BY <1>3 DEF NextCursorStr, PrevCursorStr
<1>5. Offset + PageSize \in Int /\ Offset - PageSize \in Int
    BY <1>0
<1>6. /\ Box.items = OfWantedType(Items(Slice(Entries, Offset, PageSize)))
      /\ Box.this = EncodeCursor(parsed)
      /\ Box.next = NextCursorStr(parsed)
      /\ Box.prev = PrevCursorStr(parsed)
    BY <1>0 DEF Box, BoxPage
<1> HIDE DEF at, parsed
<1>7. ASSUME StrIfValid(at(Offset - PageSize)) # None
      PROVE  Offset - PageSize \in Nat
    BY <1>2, <1>5, <1>7, StrIfValidIsEncoding DEF IsValidCursor
<1>8. ASSUME StrIfValid(at(Offset + PageSize)) = None
      PROVE  CutShort \/ Size <= Offset + PageSize
    <2>1. ~IsValidCursor(at(Offset + PageSize))
        BY <1>2, <1>5, <1>8, StrIsNotNone DEF StrIfValid
    <2>2. MAX_INDEX \in Nat
        BY OffsetCursorAssumption
    <2>3. MaxIndex(at(Offset + PageSize)) = IF MAX_INDEX < Size THEN MAX_INDEX ELSE Size
        BY <1>0, <1>2, <1>5 DEF MaxIndex, HasManyMore
    <2>4. CASE MAX_INDEX < Size
        BY <1>0, <2>2, <2>4 DEF CutShort
    <2>5. CASE ~(MAX_INDEX < Size)
        BY <1>0, <1>2, <1>5, <2>1, <2>3, <2>5 DEF IsValidCursor
    <2> QED BY <2>4, <2>5
<1>9. ASSUME StrIfValid(at(Offset + PageSize)) # None
      PROVE  Offset + PageSize < Size
    <2>1. IsValidCursor(at(Offset + PageSize))
        BY <1>2, <1>5, <1>9, StrIfValidIsEncoding
    <2>2. MAX_INDEX \in Nat
        BY OffsetCursorAssumption
    <2>3. MaxIndex(at(Offset + PageSize)) = IF MAX_INDEX < Size THEN MAX_INDEX ELSE Size
        BY <1>0, <1>2, <1>5 DEF MaxIndex, HasManyMore
    <2> QED BY <1>0, <1>2, <1>5, <2>1, <2>2, <2>3 DEF IsValidCursor
<1> QED
    BY <1>0, <1>1, <1>2, <1>4, <1>5, <1>6, <1>7, <1>8, <1>9 DEF StrIfValid

\* A next page by offset starts where this one ends.
LEMMA BoxAdvances ==
    ASSUME ListingIInv, listing = "box", Receive(Box), Box.next # None
    PROVE  /\ Offset' = Offset + PageSize
           /\ cursor' = <<Offset + PageSize, PageSize, Size>>
           /\ listing' = listing /\ sample' = Box /\ Size' = Size
<1>1. Box.next = <<Offset + PageSize, PageSize, Size>>
    BY BoxCursors
<1>2. /\ UNCHANGED <<listing, folder, item_type>>
      /\ cursor' = Box.next /\ sample' = Box
    BY DEF Receive
<1>3. Size' = Size
    BY <1>2, SameFolder
<1>4. cursor' # <<>>
    BY <1>1, <1>2
<1>5. BoxCursor'.offset = Offset + PageSize
    BY <1>1, <1>2, <1>4 DEF BoxCursor, DecodeCursor
<1>6. Offset' = BoxCursor'.offset
    <2>1. listing' = "box"
        BY <1>2
    <2> QED BY <2>1, Zenon DEF Offset
<1> QED
    BY <1>1, <1>2, <1>3, <1>5, <1>6

LEMMA ListByOffsetIInv ==
    ASSUME ListingIInv, ListByOffset
    PROVE  ListingIInv'
<1>0. /\ listing = "box" /\ Offset \in Nat /\ PageSize \in Nat \ {0}
      /\ Size \in Nat /\ folder \in Folders
    BY OffsetType, ListingAssumption, FolderIsFinite DEF ListByOffset, ListingIInv, ListingTypeOK
<1>1. CASE Fail
    BY <1>1, FailIInv
<1>2. CASE Receive(Box)
    <2>1. Box.items = Items(Part(Offset, PageSize))
        <3>1. {i \in Slice(Entries, Offset, PageSize) : item_type \in {None, ItemOf(i).item_type}}
                = Part(Offset, PageSize)
            BY <1>0, PartOfPage, WantedByOperation DEF Slice
        <3> QED BY <1>0, <3>1, BoxCursors, OfTypeItems
    <2>2. \A n \in Nat : <<n, PageSize, Size>> \in Cursors
        BY <1>0 DEF Cursors
    <2>3. {Box.this, Box.next, Box.prev} \subseteq Cursors \cup {None}
        <3>1. Offset + PageSize \in Nat
            BY <1>0
        <3>2. Box.this = <<Offset, PageSize, Size>>
            BY <1>0, BoxCursors
        <3>3. Box.next \in {None, <<Offset + PageSize, PageSize, Size>>}
            BY <1>0, BoxCursors
        <3>4. Box.prev = None \/ /\ Box.prev = <<Offset - PageSize, PageSize, Size>>
                                 /\ Offset - PageSize \in Nat
            BY <1>0, BoxCursors
        <3> QED BY <1>0, <2>2, <3>1, <3>2, <3>3, <3>4
    <2>4. ASSUME Box.next # None PROVE Offset' = Offset + PageSize /\ CursorOK' /\ BackOK'
        <3>1. /\ Offset' = Offset + PageSize
              /\ cursor' = <<Offset + PageSize, PageSize, Size>>
              /\ listing' = listing /\ sample' = Box /\ Size' = Size
            BY <1>0, <1>2, <2>4, BoxAdvances
        <3>2. CursorOK'
            <4>1. \E n \in Nat : cursor' = <<n, PageSize, Size'>>
                <5>1. Offset + PageSize \in Nat
                    BY <1>0
                <5> QED BY <3>1, <5>1
            <4>2. listing' = "box"
                BY <1>0, <3>1
            <4> QED BY <4>1, <4>2 DEF CursorOK
        <3>3. BackOK'
            <4>1. Box.this = <<Offset, PageSize, Size>>
                BY <1>0, BoxCursors
            <4> QED BY <1>0, <3>1, <4>1 DEF BackOK
        <3> QED BY <3>1, <3>2, <3>3
    <2>5. ASSUME Box.next = None
          PROVE  CutShort \/ \A i \in Entries : IsWanted(i) => Number(i) < Offset + PageSize
        <3>1. CASE CutShort
            BY <3>1
        <3>2. CASE Size <= Offset + PageSize
            <4>1. \A i \in Entries : Number(i) \in Nat /\ Number(i) < Size
                BY <1>0, WholeFolder, NumbersAreNatural
            <4> QED BY <1>0, <3>2, <4>1
        <3> QED BY <1>0, <2>5, <3>1, <3>2, BoxCursors
    <2>6. PageSize \in Nat
        BY <1>0
    <2> QED BY <1>2, <2>1, <2>3, <2>4, <2>5, <2>6, PartReceived
<1> QED BY <1>1, <1>2 DEF ListByOffset

-----------------------------------------------------------------------------
(* The theorems. *)

\* Nothing has been listed in the beginning.
LEMMA InitIInv == ListingInit => ListingIInv
<1> SUFFICES ASSUME ListingInit PROVE ListingIInv
    OBVIOUS
<1>0. folder \in Folders /\ PageSize \in Nat
    BY ListingAssumption DEF ListingInit
<1>1. <<>> \in Cursors /\ Roots \subseteq Roots \cup Untyped \cup Typed
    BY DEF Cursors
<1>2. item_type \in ItemType \cup {None} /\ (listing \in Roots => item_type = None)
    BY DEF ListingInit
<1>3. ListingTypeOK /\ CursorOK /\ BackOK /\ ListedOnce /\ CompleteUnlessCutShort
    BY <1>1, <1>2 DEF ListingInit, ListingTypeOK, CursorOK, BackOK, ListedOnce, CompleteUnlessCutShort
<1>4. Offset = 0
    <2>1. PageNumber = 1 /\ TokenOffset = 0 /\ BoxCursor.offset = 0
        BY DEF ListingInit, PageNumber, TokenOffset, BoxCursor, DecodeCursor
    <2>2. (1 - 1) * PageSize = 0
        BY <1>0
    <2> QED BY <2>1, <2>2 DEF Offset
<1>5. Through(0) = {}
    BY <1>0, NumbersAreNatural DEF Through
<1>6. listed = Items(Through(Offset))
    BY <1>4, <1>5 DEF ListingInit, Items
<1> QED
    BY <1>2, <1>3, <1>6 DEF ListingIInv

\* Every call preserves the invariant.
LEMMA NextIInv == ListingIInv /\ [ListingNext]_listing_vars => ListingIInv'
<1> SUFFICES ASSUME ListingIInv, [ListingNext]_listing_vars PROVE ListingIInv'
    OBVIOUS
<1>1. ASSUME ListByPageNumber PROVE ListingIInv'
    BY <1>1, GitHubReposIInv, GitHubContentsIInv, FigshareRootIInv, FigshareArticlesIInv,
       FigshareFilesIInv DEF ListByPageNumber
<1>2. CASE UNCHANGED listing_vars
    <2>1. UNCHANGED <<listing, folder, item_type>> /\ UNCHANGED <<cursor, listed, repeated, walk, sample>>
        BY <1>2 DEF listing_vars
    <2>2. /\ Size' = Size /\ Wanted' = Wanted /\ (CutShort' <=> CutShort) /\ Entries' = Entries
          /\ \A i : /\ ItemOf(i)' = ItemOf(i)
                    /\ IsWanted(i)' <=> IsWanted(i)
                    /\ Number(i)' = Number(i)
        BY <2>1, SameFolder
    <2>3. ListingTypeOK' /\ CursorOK' /\ BackOK' /\ ListedOnce' /\ CompleteUnlessCutShort'
        BY <2>1, <2>2 DEF ListingIInv, ListingTypeOK, CursorOK, BackOK, ListedOnce, CompleteUnlessCutShort
    <2>4. Offset' = Offset
        BY <2>1 DEF Offset, BoxCursor, PageNumber, TokenOffset
    <2>5. Items(Through(Offset))' = Items(Through(Offset))
        BY <2>2, <2>4 DEF Items, Through
    <2> QED BY <2>1, <2>3, <2>5 DEF ListingIInv
<1> QED
    BY <1>1, <1>2, ListByOffsetIInv, ListByTokenIInv, ListAtOnceIInv DEF ListingNext

LEMMA ListingInvariance == ListingSpec => []ListingIInv
BY InitIInv, NextIInv, PTL DEF ListingSpec

\* Cursors stay within their types: none has a negative offset.
THEOREM ListingTypeCorrect == ListingSpec => []ListingTypeOK
<1>1. ListingIInv => ListingTypeOK
    BY DEF ListingIInv
<1> QED BY <1>1, ListingInvariance, PTL

\* Pages do not overlap, and have nothing but the items that were asked for.
THEOREM NothingIsListedTwice == ListingSpec => []ListedOnce
<1>1. ListingIInv => ListedOnce
    BY DEF ListingIInv
<1> QED BY <1>1, ListingInvariance, PTL

\* At the last page a client has seen every item that it asked for, except where
\* CutShort says: no other listing skips something between two pages or ends early.
THEOREM NothingIsSkipped == ListingSpec => []CompleteUnlessCutShort
<1>1. ListingIInv => CompleteUnlessCutShort
    BY DEF ListingIInv
<1> QED BY <1>1, ListingInvariance, PTL

\* The previous cursor of a page is the one of the page before.
LEMMA PrevStep ==
    ASSUME ListingIInv, ListingNext, None \notin {sample, sample'}, sample'.prev # None
    PROVE  sample'.prev = sample.this
<1>0. \A S, next : Sample(S).prev = None /\ SampleThen(S, next).prev = None
    BY DEF Sample, SampleThen
<1>1. ASSUME NEW result, Receive(result), result.prev = None PROVE FALSE
    BY <1>1 DEF Receive
<1>2. CASE Fail
    BY <1>2 DEF Fail
<1>3. CASE listing = "box" /\ Receive(Box)
    <2>1. PICK n \in Nat : cursor = <<n + PageSize, PageSize, Size>> /\ sample.this = <<n, PageSize, Size>>
        BY <1>3 DEF ListingIInv, BackOK, Receive
    <2>2. BoxCursor.offset = n + PageSize
        BY <2>1 DEF BoxCursor, DecodeCursor
    <2>3. Offset = n + PageSize
        BY <1>3, <2>2, OffsetType
    <2>4. PageSize \in Nat
        BY ListingAssumption
    <2>5. Offset - PageSize = n
        BY <2>3, <2>4
    <2>6. sample' = Box
        BY <1>3 DEF Receive
    <2>7. Box.prev = <<n, PageSize, Size>>
        BY <1>3, <2>5, <2>6, BoxCursors
    <2> QED BY <2>1, <2>6, <2>7
<1>4. ASSUME NEW S, listing \in {"github_repos", "github"}, Receive(PageCursor(S))
      PROVE  sample'.prev = sample.this
    <2>1. PICK n \in Nat : cursor = <<n + 1>> /\ sample.this = <<n>>
        BY <1>4 DEF ListingIInv, BackOK, Receive
    <2>2. PageNumber = n + 1
        BY <2>1 DEF PageNumber
    <2>3. listing \in Numbered
        BY <1>4 DEF Numbered
    <2>4. sample' = PageCursor(S)
        BY <1>4 DEF Receive
    <2>5. PageCursor(S).prev = <<PageNumber - 1>>
        BY <2>3, <2>4, PageCursorFields
    <2> QED BY <2>1, <2>2, <2>4, <2>5
<1>5. CASE ListByOffset
    BY <1>2, <1>3, <1>5 DEF ListByOffset
<1>6. CASE ListByPageNumber
    <2>1. ASSUME NEW S, NEW next, Receive(SampleThen(S, next)) PROVE FALSE
        BY <1>0, <1>1, <2>1
    <2>2. ASSUME listing = "github_repos", Receive(GitHubRepos) PROVE sample'.prev = sample.this
        BY <1>4, <2>2 DEF GitHubRepos
    <2>3. ASSUME listing = "github", Receive(GitHubContents) PROVE sample'.prev = sample.this
        BY <1>4, <2>3 DEF GitHubContents
    <2>4. ~Receive(FigshareRoot) /\ ~Receive(FigshareArticles) /\ ~Receive(FigshareFiles)
        BY <2>1 DEF FigshareRoot, FigshareArticles, FigshareFiles
    <2> QED BY <1>6, <2>2, <2>3, <2>4 DEF ListByPageNumber
<1>7. CASE ListByToken
    <2>1. ASSUME NEW page, ByToken(page) PROVE Fail
        <3>1. TypedByToken(page).prev = None /\ UntypedByToken(page).prev = None
            BY <1>0 DEF TypedByToken, UntypedByToken
        <3> QED BY <1>1, <2>1, <3>1 DEF ByToken
    <2> QED BY <1>2, <1>7, <2>1 DEF ListByToken
<1>8. CASE ListAtOnce
    <2>1. ASSUME NEW S, Receive(Sample(S)) PROVE FALSE
        BY <1>0, <1>1, <2>1
    <2> QED
        BY <1>8, <2>1 DEF ListAtOnce, Azure, S3, OwnCloud, Dataverse, DataverseFiles,
           DataverseLink, Zotero, Mendeley, DocumentsAndCollections
<1> QED BY <1>5, <1>6, <1>7, <1>8 DEF ListingNext

\* Going back from a page leads to the page that led there, for every operation
\* that hands out previous cursors.
THEOREM PrevLeadsToThis == ListingSpec => PrevLeadsBack
<1>1. ListingIInv /\ [ListingNext]_listing_vars =>
        [None \notin {sample, sample'} /\ sample'.prev # None => sample'.prev = sample.this]_listing_vars
    BY PrevStep
<1> QED
    BY <1>1, ListingInvariance, PTL DEF ListingSpec, PrevLeadsBack

\* A page is within the list that it is a part of, and so within the folder.
LEMMA PageWithin ==
    ASSUME folder \in Folders, NEW L \in SUBSET Entries, NEW n \in Nat, NEW k \in Nat \ {0},
           NEW S \in SUBSET Slice(L, n, k), Cardinality(S) >= k
    PROVE  n < Size
<1>1. Entries \subseteq Nat /\ IsFiniteSet(Entries) /\ Size = Cardinality(Entries)
    BY FolderIsFinite DEF Size
<1>2. IsFiniteSet(L) /\ Cardinality(L) <= Cardinality(Entries) /\ L \subseteq Nat
    BY <1>1, FS_Subset
<1>3. PICK i : i \in S
    <2>1. S # {}
        BY FS_EmptySet
    <2> QED BY <2>1
<1>4. i \in L /\ NumberBefore(i, L) >= n
    BY <1>3 DEF Slice
<1>5. NumberBefore(i, L) \in 0 .. Cardinality(L) - 1
    BY <1>2, <1>4, NumbersBefore
<1>6. Cardinality(L) \in Nat /\ Cardinality(Entries) \in Nat
    BY <1>1, <1>2, FS_CardinalityType
<1> QED
    BY <1>1, <1>2, <1>4, <1>5, <1>6

\* The page of a next cursor has entries on it, and the next page starts behind it.
Advances == walk' = "more" => Offset < Size /\ Offset < Offset'

\* By number: a next cursor means a full page.
LEMMA NumberedStep ==
    ASSUME ListingIInv, listing \in Numbered, NEW result, Receive(result),
           result.next \in {None, <<PageNumber + 1>>},
           result.next # None =>
               \E L \in SUBSET Entries : \E S \in SUBSET PageOf(L) : Cardinality(S) >= PageSize
    PROVE  Advances
<1> SUFFICES ASSUME walk' = "more" PROVE Offset < Size /\ Offset < Offset'
    BY DEF Advances
<1>1. /\ Offset \in Nat /\ PageSize \in Nat \ {0} /\ folder \in Folders
      /\ Offset = (PageNumber - 1) * PageSize
    BY OffsetType, ListingAssumption DEF ListingIInv, ListingTypeOK
<1>2. result.next # None /\ result.next = <<PageNumber + 1>>
    BY DEF Receive
<1>3. Offset' = Offset + PageSize
    BY <1>2, NumberedAdvances
<1>4. PICK L \in SUBSET Entries : \E S \in SUBSET PageOf(L) : Cardinality(S) >= PageSize
    BY <1>2
<1>5. PICK S \in SUBSET PageOf(L) : Cardinality(S) >= PageSize
    BY <1>4
<1>6. PageOf(L) = Slice(L, Offset, PageSize)
    BY <1>1 DEF PageOf
<1>7. Offset < Size
    BY <1>1, <1>5, <1>6, PageWithin
<1>8. Offset < Offset + PageSize
    BY <1>1
<1> QED
    BY <1>3, <1>7, <1>8

LEMMA ListByPageNumberAdvances ==
    ASSUME ListingIInv, ListByPageNumber
    PROVE  Advances
<1>0. listing \in Numbered /\ PageSize \in Nat \ {0}
    BY ListingAssumption DEF ListByPageNumber, Numbered
<1>1. ASSUME NEW L \in SUBSET Entries, NEW S \in SUBSET PageOf(L), Receive(PageCursor(S))
      PROVE  Advances
    <2>1. /\ PageCursor(S).next \in {None, <<PageNumber + 1>>}
          /\ PageCursor(S).next # None => Cardinality(S) = PageSize
        BY <1>0, PageCursorFields DEF PageCursor
    <2>2. PageCursor(S).next # None => Cardinality(S) >= PageSize
        BY <1>0, <2>1
    <2> QED BY <1>0, <1>1, <2>1, <2>2, NumberedStep
<1>2. ASSUME NEW S PROVE NextPageAfter(S) # None => Cardinality(S) >= PageSize
    BY DEF NextPageAfter
<1>3. ASSUME NEW L \in SUBSET Entries, NEW S \in SUBSET PageOf(L), NEW items,
             Receive(SampleThen(items, NextPageAfter(S)))
      PROVE  Advances
    <2>1. SampleThen(items, NextPageAfter(S)).next = NextPageAfter(S)
        BY DEF SampleThen, Sample
    <2>2. NextPageAfter(S) \in {None, <<PageNumber + 1>>}
        BY <1>0, NextPageFields
    <2> QED BY <1>0, <1>2, <1>3, <2>1, <2>2, NumberedStep
<1>4. ASSUME NEW L, NEW kinds PROVE OfKind(L, kinds) \subseteq L
    BY DEF OfKind
<1>5. ASSUME listing = "github_repos", Receive(GitHubRepos) PROVE Advances
    BY <1>1, <1>5 DEF GitHubRepos
<1>6. ASSUME listing = "github", Receive(GitHubContents) PROVE Advances
    BY <1>1, <1>4, <1>6 DEF GitHubContents
<1>7. ASSUME listing = "figshare_articles", Receive(FigshareArticles) PROVE Advances
    BY <1>3, <1>4, <1>7 DEF FigshareArticles
<1>8. ASSUME listing = "figshare_files", Receive(FigshareFiles) PROVE Advances
    BY <1>3, <1>8 DEF FigshareFiles
<1>9. ASSUME listing = "figshare_root", Receive(FigshareRoot) PROVE Advances
    <2> DEFINE projects == PageOf(OfKind(Entries, {"folder"}))
               articles == OfKind(PageOf(OfKind(Entries, {"file", "other"})), {"file"})
    <2>1. /\ projects \in SUBSET PageOf(OfKind(Entries, {"folder"}))
          /\ articles \in SUBSET PageOf(OfKind(Entries, {"file", "other"}))
          /\ OfKind(Entries, {"folder"}) \in SUBSET Entries
          /\ OfKind(Entries, {"file", "other"}) \in SUBSET Entries
        BY <1>4
    <2>2. CASE NextPageAfter(projects) # None
        <3>1. Receive(SampleThen(Items(projects \cup articles), NextPageAfter(projects)))
            BY <1>9, <2>2, Zenon DEF FigshareRoot
        <3> HIDE DEF projects, articles
        <3> QED BY <1>3, <2>1, <3>1
    <2>3. CASE NextPageAfter(projects) = None
        <3>1. Receive(SampleThen(Items(projects \cup articles), NextPageAfter(articles)))
            BY <1>9, <2>3, Zenon DEF FigshareRoot
        <3> HIDE DEF projects, articles
        <3> QED BY <1>3, <2>1, <3>1
    <2> QED BY <2>2, <2>3
<1> QED
    BY <1>5, <1>6, <1>7, <1>8, <1>9 DEF ListByPageNumber

LEMMA ListByTokenAdvances ==
    ASSUME ListingIInv, ListByToken
    PROVE  Advances
<1> SUFFICES ASSUME walk' = "more" PROVE Offset < Size /\ Offset < Offset'
    BY DEF Advances
<1>1. PICK n \in 1 .. PageSize : ByToken(Slice(Entries, TokenOffset, n))
    BY DEF ListByToken
<1> DEFINE page == Slice(Entries, TokenOffset, n)
<1>2. /\ listing \in Tokened /\ TokenOffset \in Nat /\ Offset = TokenOffset /\ n \in Nat \ {0}
      /\ IsFiniteSet(page) /\ Cardinality(page) \in Nat /\ Size \in Nat
    <2>1. listing \in Tokened /\ folder \in Folders
        BY DEF ListByToken, Tokened, ListingIInv, ListingTypeOK
    <2>2. page \subseteq Entries
        BY DEF Slice
    <2> HIDE DEF page
    <2> QED BY <2>1, <2>2, OffsetType, ListingAssumption, FolderIsFinite, FS_Subset, FS_CardinalityType
<1>3. ASSUME NEW items, Receive(SampleThen(items, TokenAfter(page)))
      PROVE  Offset < Size /\ Offset < Offset'
    <2>1. SampleThen(items, TokenAfter(page)).next = TokenAfter(page)
        BY DEF SampleThen, Sample
    <2>2. TokenAfter(page) # None
        BY <1>3, <2>1 DEF Receive
    <2>3. TokenAfter(page) = <<TokenOffset + n>>
        BY <1>2, <2>2, TokenPage
    <2>4. TokenOffset + Cardinality(page) < Size
        BY <2>2 DEF TokenAfter
    <2>5. Offset' = Offset + n
        BY <1>2, <1>3, <2>1, <2>2, <2>3, TokenAdvances
    <2> HIDE DEF page
    <2> QED BY <1>2, <2>4, <2>5
<1>4. ~Fail
    BY DEF Fail
<1> HIDE DEF page
<1>5. ByToken(page)
    BY <1>1 DEF page
<1> QED
    BY <1>3, <1>4, <1>5 DEF ByToken, TypedByToken, UntypedByToken

LEMMA ListByOffsetAdvances ==
    ASSUME ListingIInv, ListByOffset
    PROVE  Advances
<1> SUFFICES ASSUME walk' = "more" PROVE Offset < Size /\ Offset < Offset'
    BY DEF Advances
<1>1. listing = "box" /\ Receive(Box)
    BY DEF ListByOffset, Fail
<1>2. Box.next # None
    BY <1>1 DEF Receive
<1>3. /\ Offset \in Nat /\ PageSize \in Nat \ {0} /\ Size \in Nat
    BY OffsetType, ListingAssumption, FolderIsFinite DEF ListingIInv, ListingTypeOK
<1>4. Offset' = Offset + PageSize /\ Offset + PageSize < Size
    BY <1>1, <1>2, BoxAdvances, BoxCursors
<1> QED
    BY <1>3, <1>4

\* Every cursor leads further into the folder, and none leads on from beyond its
\* end: a client is not sent in circles by next_sample_cursor, so that WalkEnds
\* depends on nothing but the client going on.
THEOREM CursorsAdvance == ListingSpec => [][Advances]_listing_vars
<1>1. ASSUME ListingIInv, ListAtOnce PROVE Advances
    <2>1. ASSUME NEW items, Receive(Sample(items)) PROVE walk' = "done"
        BY <2>1 DEF Receive, Sample
    <2> QED
        BY <1>1, <2>1 DEF ListAtOnce, Azure, S3, OwnCloud, Dataverse, DataverseFiles,
           DataverseLink, Zotero, Mendeley, DocumentsAndCollections, Advances
<1>2. ListingIInv /\ [ListingNext]_listing_vars => [Advances]_listing_vars
    BY <1>1, ListByOffsetAdvances, ListByPageNumberAdvances, ListByTokenAdvances DEF ListingNext
<1> QED
    BY <1>2, ListingInvariance, PTL DEF ListingSpec

--------------------------------------------------------------------------------
(***************************************************************************)
(* What an implementation makes of a thing o in the content c.             *)
(***************************************************************************)
Named(i, id, type) == i.id = id /\ i.type = type

IsAccount(i, o) == Named(i, <<>>, "folder") /\ o.path = <<>>

BoxForm(i, o) == IsAccount(i, o) \/ Named(i, <<o.kind, ":", o.key>>, FileOrFolder(o))

DropboxKeyForm(i, o) ==
    \/ i.id \in DropboxRootIds /\ i.type = "folder" /\ o.path = <<>>
    \/ Named(i, <<o.key>>, FileOrFolder(o)) /\ o.path # <<>>

DropboxPathForm(i, o) ==
    o.path # <<>> /\ o.kind = "folder" /\ Named(i, <<"/">> \o Join(o.path, "/"), "folder")

DriveForm(i, o) == Named(i, <<o.key>>, FileOrFolder(o))

OneDriveForm(i, o) == i.id \in {<<o.key>>, <<o.alias>>} /\ i.type = FileOrFolder(o)

FigshareForm(c, i, o) ==
    \/ o.kind \in {"project", "article"} /\ Named(i, <<o.kind, "/", o.key>>, "folder")
    \/ /\ o.kind = "file"
       /\ \E a \in c : /\ IsIn(o, a)
                       /\ a.kind = "article"
                       /\ Named(i, <<"article", "/", a.key, "/", "files", "/", o.key>>, "file")

DataverseForm(i, o) ==
    \/ IsAccount(i, o)
    \/ /\ o.kind \in DataverseKinds
       /\ Named(i, <<o.kind, "/", o.key>>, FileOrFolder(o))
       /\ i.root => o.kind = "dataset"

LinkForm(i, o) ==
    \/ IsAccount(i, o)
    \/ o.kind \in DataverseKinds /\ o.alias # NoAlias /\ Named(i, <<o.kind, "/", o.alias>>, LinkType(o))

ZoteroForm(c, i, o) ==
    \/ o.kind = "library" /\ Named(i, <<"collection", ":", o.key, ":", "ROOT">>, "collection")
    \/ /\ o.kind \in {"collection", "document"}
       /\ \E l \in c : /\ l.kind = "library"
                       /\ IsPrefix(l.path, o.path)
                       /\ Named(i, <<o.kind, ":", l.key, ":", o.key>>, o.kind)

MendeleyForm(i, o) ==
    IF o.path = <<>> THEN Named(i, <<"ROOT">>, "collection") ELSE Named(i, <<o.kind, ":", o.key>>, o.kind)

(* Names that ran together are tokens of their own. *)
HasTokens(id) == id # <<>> /\ \E S : id \in Seq(S)

(* Only a directory in a repository itself has its path in its id. *)
GithubForm(i, o) ==
    CASE o.kind = "repository" -> Named(i, FullName(o) \o <<":">>, "folder")
      [] o.kind = "file"       -> i.type = "file" /\ ~i.root /\ i.id = Inner(o, 2)
      [] o.kind = "folder"     -> /\ i.type = "folder" /\ ~i.root /\ HasTokens(i.id)
                                  /\ Len(o.path) = 3 => i.id = FullName(o) \o <<":">> \o Inner(o, 2)
      [] OTHER -> FALSE

GitlabForm(c, i, o) ==
    \E p \in c : /\ p.kind = "repository"
                 /\ IsPrefix(p.path, o.path)
                 /\ Named(i, Join(p.path, "%2F") \o <<":">> \o Inner(o, Len(p.path)), FileOrFolder(o))

BitbucketForm(i, o) ==
    /\ o.path # <<>>
    /\ Named(i, BitbucketItem(o).id, FileOrFolder(o))
    /\ i.root => o.kind = "repository"

S3Form(i, o) ==
    /\ o.path # <<>>
    /\ \/ Named(i, BlobItem(o).id, FileOrFolder(o))
       \/ Named(i, BlobKey(o), "file") /\ o.kind = "file"

AzureForm(i, o) ==
    /\ o.path # <<>>
    /\ i.id = BlobItem(o).id
    /\ i.type \in IF Len(o.path) = 1 THEN {FileOrFolder(o)} ELSE {FileOrFolder(o), "file"}

OwncloudForm(i, o) ==
    \/ IsAccount(i, o)
    \/ \E q \in {OwncloudPath(o), <<"/">> \o Join(o.path, "/")} : Named(i, <<FileOrFolder(o), ":">> \o q, FileOrFolder(o))

Form(s, c, i, o) ==
    /\ i.of = o.oid
    /\ i.root => i.type \in {"folder", "collection"}
    /\ CASE s = "box"         -> BoxForm(i, o)
         [] s = "dropbox"     -> DropboxKeyForm(i, o) \/ DropboxPathForm(i, o)
         [] s = "googledrive" -> DriveForm(i, o)
         [] s = "onedrive"    -> OneDriveForm(i, o)
         [] s = "figshare"    -> FigshareForm(c, i, o)
         [] s = "dataverse"   -> DataverseForm(i, o)
         [] s = "link"        -> LinkForm(i, o)
         [] s = "zotero"      -> ZoteroForm(c, i, o)
         [] s = "mendeley"    -> MendeleyForm(i, o)
         [] s = "github"      -> GithubForm(i, o)
         [] s = "gitlab"      -> GitlabForm(c, i, o)
         [] s = "bitbucket"   -> BitbucketForm(i, o)
         [] s = "s3"          -> S3Form(i, o)
         [] s = "azure"       -> AzureForm(i, o)
         [] s = "owncloud"    -> OwncloudForm(i, o)

(* Item i was made of something in c. *)
MadeOf(s, c, i) == \E o \in c : Form(s, c, i, o)

(***************************************************************************)
(* The content c is what is left of d, under other names.                  *)
(***************************************************************************)
SameThing(x, y) ==
    x.oid = y.oid /\ x.kind = y.kind /\ x.key = y.key /\ x.alias = y.alias /\ Len(x.path) = Len(y.path)

LeftOf(d, c) ==
    /\ \A x \in c : \E y \in d : SameThing(x, y)
    /\ \A x, y \in c, u, v \in d :
          SameThing(x, u) /\ SameThing(y, v) => (IsPrefix(x.path, y.path) <=> IsPrefix(u.path, v.path))
    /\ \A y \in c, u, v \in d : SameThing(y, v) /\ IsPrefix(u.path, v.path) => \E x \in c : SameThing(x, u)

(* What the ids that are paths are made of. *)
Tokens == Names \cup {":", "/", ":/", "%2F", "file", "folder", "repository", "workspace"}

(* An id that the picker may hold. *)
GoodId(s, id) ==
    /\ id = <<>> => s # "figshare"
    /\ s \notin KeyedImps \cup {"github"} => id \in Seq(Tokens)
    /\ s = "github" => HasTokens(id)
    /\ s = "owncloud" => Len(id) # 2

IInv ==
    /\ TypeOK
    /\ WellFormed(imp, content)
    /\ LeftOf(Content[imp], content)
    /\ \A i \in fresh : MadeOf(imp, content, i)
    /\ \A i \in held : Stable(i) => MadeOf(imp, Content[imp], i)
    /\ \A i \in held : GoodId(imp, i.id)

(***************************************************************************)
(* Prefixes.                                                               *)
(***************************************************************************)
LEMMA PrefixOf ==
    ASSUME NEW S, NEW s \in Seq(S), NEW t \in Seq(S)
    PROVE  IsPrefix(s, t) <=> Len(s) <= Len(t) /\ \A k \in 1..Len(s) : s[k] = t[k]
<1>1. ASSUME Len(s) <= Len(t)
      PROVE  SubSeq(s, 1, Len(s)) = SubSeq(t, 1, Len(s)) <=> \A k \in 1..Len(s) : s[k] = t[k]
    <2>1. /\ SubSeq(s, 1, Len(s)) \in Seq(S) /\ SubSeq(t, 1, Len(s)) \in Seq(S)
          /\ Len(SubSeq(s, 1, Len(s))) = Len(s) /\ Len(SubSeq(t, 1, Len(s))) = Len(s)
          /\ \A k \in 1..Len(s) : SubSeq(s, 1, Len(s))[k] = s[k] /\ SubSeq(t, 1, Len(s))[k] = t[k]
        BY <1>1
    <2> QED BY <2>1, SeqEqual
<1> QED BY <1>1 DEF IsPrefix

LEMMA PrefixItself ==
    ASSUME NEW S, NEW s \in Seq(S), NEW t \in Seq(S)
    PROVE  /\ IsPrefix(s, s)
           /\ IsPrefix(s, t) /\ Len(s) = Len(t) => s = t
           /\ IsPrefix(s, t) => Len(s) <= Len(t)
BY PrefixOf, SeqEqual

LEMMA PrefixOfPrefix ==
    ASSUME NEW S, NEW s \in Seq(S), NEW t \in Seq(S), NEW u \in Seq(S), IsPrefix(t, u)
    PROVE  /\ IsPrefix(s, t) => IsPrefix(s, u)
           /\ IsPrefix(s, u) /\ Len(s) <= Len(t) => IsPrefix(s, t)
<1>1. Len(t) <= Len(u) /\ \A k \in 1..Len(t) : t[k] = u[k]
    BY PrefixOf
<1> QED BY <1>1, PrefixOf

(***************************************************************************)
(* Changes of the content.                                                 *)
(***************************************************************************)
Renamed(o, name, x) ==
    IF IsPrefix(o.path, x.path) THEN [x EXCEPT !.path[Len(o.path)] = name] ELSE x

(* The path that o gets. *)
NewPath(o, name) == Append(Front(o.path), name)

LEMMA NewPathIs ==
    ASSUME NEW o \in Things, o.path # <<>>, NEW name \in Names
    PROVE  /\ NewPath(o, name) \in Seq(Names)
           /\ Len(NewPath(o, name)) = Len(o.path)
           /\ Len(o.path) \in Nat \ {0}
           /\ NewPath(o, name)[Len(o.path)] = name
           /\ \A k \in 1..(Len(o.path) - 1) : NewPath(o, name)[k] = o.path[k]
<1>1. o.path \in Seq(Names) /\ Len(o.path) \in Nat \ {0}
    BY DEF Things
<1>2. /\ Front(o.path) \in Seq(Names)
      /\ Len(Front(o.path)) = Len(o.path) - 1
      /\ \A k \in 1..(Len(o.path) - 1) : Front(o.path)[k] = o.path[k]
    BY <1>1 DEF Front
<1> QED BY <1>1, <1>2 DEF NewPath

(* The same of paths. *)
LEMMA PathPrefix ==
    ASSUME NEW s \in Seq(Names), NEW t \in Seq(Names)
    PROVE  IsPrefix(s, t) <=> Len(s) <= Len(t) /\ \A k \in 1..Len(s) : s[k] = t[k]
BY PrefixOf

LEMMA ThingPath ==
    ASSUME NEW x \in Things
    PROVE  x.path \in Seq(Names) /\ Len(x.path) \in Nat
BY DEF Things

LEMMA RenamedIs ==
    ASSUME NEW o \in Things, o.path # <<>>, NEW name \in Names, NEW x \in Things
    PROVE  /\ Renamed(o, name, x) \in Things
           /\ SameThing(Renamed(o, name, x), x)
           /\ \A k \in 1..Len(x.path) :
                 Renamed(o, name, x).path[k] = IF IsPrefix(o.path, x.path) /\ k = Len(o.path) THEN name ELSE x.path[k]
<1> DEFINE L == Len(o.path)
<1>1. o.path \in Seq(Names) /\ L \in Nat \ {0} /\ x.path \in Seq(Names)
    BY DEF Things
<1>2. CASE ~IsPrefix(o.path, x.path)
    BY <1>2 DEF Renamed, SameThing
<1>3. CASE IsPrefix(o.path, x.path)
    <2>1. L \in 1..Len(x.path)
        BY <1>1, <1>3, PrefixOf
    <2> DEFINE path == [x.path EXCEPT ![L] = name]
    <2>2. /\ path \in Seq(Names)
          /\ Len(path) = Len(x.path)
          /\ \A k \in 1..Len(x.path) : path[k] = IF k = L THEN name ELSE x.path[k]
        BY <1>1, <2>1
    <2>3. Renamed(o, name, x) = [x EXCEPT !.path = path]
        BY <1>3 DEF Renamed
    <2>4. /\ [x EXCEPT !.path = path] \in Things
          /\ [x EXCEPT !.path = path].path = path
          /\ [x EXCEPT !.path = path].oid = x.oid
          /\ [x EXCEPT !.path = path].kind = x.kind
          /\ [x EXCEPT !.path = path].key = x.key
          /\ [x EXCEPT !.path = path].alias = x.alias
        BY <2>2 DEF Things
    <2> QED BY <1>3, <2>2, <2>3, <2>4 DEF SameThing
<1> QED BY <1>2, <1>3

(* Paths P, X and Y; Q is P with another last name, p and q are X and Y with this name *)
(* if P leads to them.                                                                 *)
Replaced(P, name, X, p) ==
    /\ p \in Seq(Names) /\ Len(p) = Len(X)
    /\ \A k \in 1..Len(X) : p[k] = IF IsPrefix(P, X) /\ k = Len(P) THEN name ELSE X[k]

LEMMA RenamedPrefixes ==
    ASSUME NEW P \in Seq(Names), NEW X \in Seq(Names), NEW Y \in Seq(Names), Len(P) > 0,
           NEW name, NEW Q, Replaced(P, name, P, Q),
           NEW p, Replaced(P, name, X, p), NEW q, Replaced(P, name, Y, q),
           ~IsPrefix(Q, X), ~IsPrefix(Q, Y)
    PROVE  IsPrefix(p, q) <=> IsPrefix(X, Y)
<1> DEFINE L == Len(P)
<1>1. L \in Nat \ {0} /\ Len(X) \in Nat /\ Len(Y) \in Nat
    OBVIOUS
<1>0. /\ Q \in Seq(Names) /\ Len(Q) = L /\ Q[L] = name /\ \A k \in 1..(L - 1) : Q[k] = P[k]
      /\ p \in Seq(Names) /\ Len(p) = Len(X)
      /\ q \in Seq(Names) /\ Len(q) = Len(Y)
    BY <1>1, PrefixItself DEF Replaced
<1>2. IsPrefix(P, X) <=> L <= Len(X) /\ \A k \in 1..L : P[k] = X[k]
    BY PathPrefix
<1>3. IsPrefix(P, Y) <=> L <= Len(Y) /\ \A k \in 1..L : P[k] = Y[k]
    BY PathPrefix
<1>4. ~(L <= Len(X) /\ \A k \in 1..L : Q[k] = X[k])
    BY <1>0, PathPrefix
<1>5. ~(L <= Len(Y) /\ \A k \in 1..L : Q[k] = Y[k])
    BY <1>0, PathPrefix
<1>6. IsPrefix(p, q) <=> Len(X) <= Len(Y) /\ \A k \in 1..Len(X) : p[k] = q[k]
    BY <1>0, PathPrefix
<1>7. IsPrefix(X, Y) <=> Len(X) <= Len(Y) /\ \A k \in 1..Len(X) : X[k] = Y[k]
    BY PathPrefix
<1>8. CASE IsPrefix(P, X) /\ IsPrefix(P, Y)
    <2>1. ASSUME NEW k \in 1..Len(X), Len(X) <= Len(Y)
          PROVE  p[k] = q[k] <=> X[k] = Y[k]
        <3>1. k \in 1..Len(Y) /\ (k = L => X[k] = Y[k])
            BY <1>1, <1>2, <1>3, <1>8, <2>1
        <3> QED BY <1>8, <3>1 DEF Replaced
    <2> QED BY <1>6, <1>7, <2>1
<1>9. CASE ~IsPrefix(P, X) /\ ~IsPrefix(P, Y)
    <2>1. (\A k \in 1..Len(X) : p[k] = X[k]) /\ (\A k \in 1..Len(Y) : q[k] = Y[k])
        BY <1>9 DEF Replaced
    <2> QED BY <1>1, <1>6, <1>7, <2>1
<1>10. CASE IsPrefix(P, X) /\ ~IsPrefix(P, Y)
    <2>1. ~IsPrefix(X, Y)
        BY <1>10, PrefixOfPrefix
    <2>2. ASSUME IsPrefix(p, q) PROVE FALSE
        <3>1. L <= Len(Y)
            BY <1>1, <1>2, <1>6, <1>10, <2>2
        <3>2. ASSUME NEW k \in 1..L PROVE Q[k] = Y[k]
            <4>1. k \in 1..Len(X) /\ k \in 1..Len(Y)
                BY <1>1, <1>2, <1>10, <3>1
            <4>2. p[k] = q[k] /\ q[k] = Y[k]
                BY <1>6, <1>10, <2>2, <4>1 DEF Replaced
            <4>3. p[k] = Q[k]
                BY <1>0, <1>1, <1>2, <1>10, <4>1 DEF Replaced
            <4> QED BY <4>2, <4>3
        <3> QED BY <1>5, <3>1, <3>2
    <2> QED BY <2>1, <2>2
<1>11. CASE ~IsPrefix(P, X) /\ IsPrefix(P, Y)
    <2>1. CASE Len(X) < L
        <3>1. ASSUME NEW k \in 1..Len(X), Len(X) <= Len(Y)
              PROVE  p[k] = X[k] /\ q[k] = Y[k]
            <4>1. k \in 1..Len(Y) /\ k # L
                BY <1>1, <2>1, <3>1
            <4> QED BY <1>11, <4>1 DEF Replaced
        <3> QED BY <1>6, <1>7, <3>1
    <2>2. CASE L <= Len(X)
        <3>1. ~IsPrefix(X, Y)
            BY <1>11, <2>2, PrefixOfPrefix
        <3>2. ASSUME IsPrefix(p, q) PROVE FALSE
            <4>1. ASSUME NEW k \in 1..L PROVE Q[k] = X[k]
                <5>1. k \in 1..Len(X) /\ k \in 1..Len(Y)
                    BY <1>1, <1>3, <1>11, <2>2
                <5>2. p[k] = q[k] /\ p[k] = X[k]
                    BY <1>6, <1>11, <3>2, <5>1 DEF Replaced
                <5>3. q[k] = Q[k]
                    BY <1>0, <1>1, <1>3, <1>11, <5>1 DEF Replaced
                <5> QED BY <5>2, <5>3
            <4> QED BY <1>4, <2>2, <4>1
        <3> QED BY <3>1, <3>2
    <2> QED BY <1>1, <2>1, <2>2
<1> QED BY <1>8, <1>9, <1>10, <1>11

(* A new name changes no relation between paths, if nothing else has it. *)
LEMMA RenameKeepsPrefixes ==
    ASSUME NEW o \in Things, o.path # <<>>, NEW name \in Names, NEW x \in Things, NEW y \in Things,
           ~IsPrefix(NewPath(o, name), x.path), ~IsPrefix(NewPath(o, name), y.path)
    PROVE  IsPrefix(Renamed(o, name, x).path, Renamed(o, name, y).path) <=> IsPrefix(x.path, y.path)
<1> DEFINE Q == NewPath(o, name)
           p == Renamed(o, name, x).path
           q == Renamed(o, name, y).path
<1>1. o.path \in Seq(Names) /\ x.path \in Seq(Names) /\ y.path \in Seq(Names)
    BY ThingPath
<1>2. Replaced(o.path, name, o.path, Q) /\ Len(o.path) > 0
    <2>1. /\ Q \in Seq(Names) /\ Len(Q) = Len(o.path) /\ Len(o.path) \in Nat \ {0}
          /\ Q[Len(o.path)] = name /\ \A k \in 1..(Len(o.path) - 1) : Q[k] = o.path[k]
        BY NewPathIs
    <2> HIDE DEF Q
    <2>2. \A k \in 1..Len(o.path) : Q[k] = IF k = Len(o.path) THEN name ELSE o.path[k]
        BY <2>1
    <2> QED BY <1>1, <2>1, <2>2, PrefixItself DEF Replaced
<1>3. Replaced(o.path, name, x.path, p)
    BY RenamedIs, ThingPath DEF SameThing, Replaced
<1>4. Replaced(o.path, name, y.path, q)
    BY RenamedIs, ThingPath DEF SameThing, Replaced
<1> HIDE DEF Q, p, q
<1>5. ~IsPrefix(Q, x.path) /\ ~IsPrefix(Q, y.path)
    BY DEF Q
<1>6. IsPrefix(p, q) <=> IsPrefix(x.path, y.path)
    BY <1>1, <1>2, <1>3, <1>4, <1>5, RenamedPrefixes
<1> QED BY <1>6 DEF p, q

(* What has the same oid in two contents is the same. *)
LEMMA SameThings ==
    ASSUME NEW d, Tree(d), NEW x, NEW u \in d, NEW v \in d, SameThing(x, u), SameThing(x, v)
    PROVE  u = v
BY DEF Tree, SameThing

LEMMA AllIsLeft ==
    ASSUME NEW d, Tree(d)
    PROVE  LeftOf(d, d)
<1>1. \A x, u \in d : SameThing(x, u) => x = u
    BY DEF Tree, SameThing
<1>2. \A x \in d : SameThing(x, x)
    BY DEF SameThing
<1> QED BY <1>1, <1>2 DEF LeftOf

LEMMA DeletedLeft ==
    ASSUME NEW d, NEW c, LeftOf(d, c), c \subseteq Things, NEW o \in c
    PROVE  LeftOf(d, {x \in c : ~IsPrefix(o.path, x.path)})
<1> DEFINE rest == {x \in c : ~IsPrefix(o.path, x.path)}
<1>1. ASSUME NEW y \in rest, NEW u \in d, NEW v \in d, SameThing(y, v), IsPrefix(u.path, v.path)
      PROVE  \E x \in rest : SameThing(x, u)
    <2>1. PICK x \in c : SameThing(x, u)
        BY <1>1 DEF LeftOf
    <2>2. IsPrefix(x.path, y.path)
        BY <1>1, <2>1 DEF LeftOf
    <2>3. o.path \in Seq(Names) /\ x.path \in Seq(Names) /\ y.path \in Seq(Names)
        BY ThingPath
    <2>4. ~IsPrefix(o.path, x.path)
        BY <1>1, <2>2, <2>3, PrefixOfPrefix
    <2> QED BY <2>1, <2>4
<1>2. /\ \A x \in rest : \E y \in d : SameThing(x, y)
      /\ \A x, y \in rest, u, v \in d :
            SameThing(x, u) /\ SameThing(y, v) => (IsPrefix(x.path, y.path) <=> IsPrefix(u.path, v.path))
    BY DEF LeftOf
<1> QED BY <1>1, <1>2 DEF LeftOf

LEMMA RenamedLeft ==
    ASSUME NEW d, NEW c, LeftOf(d, c), c \subseteq Things, NEW o \in c, o.path # <<>>, NEW name \in Names,
           \A x \in c : ~IsPrefix(NewPath(o, name), x.path)
    PROVE  LeftOf(d, {Renamed(o, name, x) : x \in c})
<1> DEFINE R(x) == Renamed(o, name, x)
           new == {R(x) : x \in c}
<1>1. ASSUME NEW x \in c PROVE SameThing(R(x), x)
    BY RenamedIs
<1>2. ASSUME NEW x \in c, NEW y \in c PROVE IsPrefix(R(x).path, R(y).path) <=> IsPrefix(x.path, y.path)
    BY RenameKeepsPrefixes
<1> HIDE DEF R
<1>3. \A x \in c : \A u : SameThing(R(x), u) <=> SameThing(x, u)
    BY <1>1 DEF SameThing
<1>4. \A x \in new : \E y \in d : SameThing(x, y)
    BY <1>3 DEF LeftOf
<1>5. \A x, y \in new, u, v \in d :
         SameThing(x, u) /\ SameThing(y, v) => (IsPrefix(x.path, y.path) <=> IsPrefix(u.path, v.path))
    BY <1>2, <1>3 DEF LeftOf
<1>6. ASSUME NEW y \in new, NEW u \in d, NEW v \in d, SameThing(y, v), IsPrefix(u.path, v.path)
      PROVE  \E x \in new : SameThing(x, u)
    <2>1. PICK z \in c : y = R(z)
        OBVIOUS
    <2>2. SameThing(z, v)
        BY <1>3, <1>6, <2>1
    <2>3. PICK x \in c : SameThing(x, u)
        BY <1>6, <2>2 DEF LeftOf
    <2>4. SameThing(R(x), u)
        BY <1>3, <2>3
    <2> QED BY <2>4
<1>7. LeftOf(d, new)
    BY <1>4, <1>5, <1>6 DEF LeftOf
<1> QED BY <1>7 DEF R

LEMMA LeftTree ==
    ASSUME NEW d, Tree(d), NEW c, LeftOf(d, c), c \subseteq Things, IsFiniteSet(c)
    PROVE  Tree(c)
<1> SUFFICES ASSUME NEW x \in c, NEW y \in c, x.oid = y.oid \/ x.path = y.path
             PROVE  x = y
    BY DEF Tree
<1>1. PICK u \in d : SameThing(x, u)
    BY DEF LeftOf
<1>2. PICK v \in d : SameThing(y, v)
    BY DEF LeftOf
<1>3. /\ x.path \in Seq(Names) /\ y.path \in Seq(Names)
      /\ u.path \in Seq(Names) /\ v.path \in Seq(Names)
    BY ThingPath DEF Tree
<1>4. IsPrefix(x.path, y.path) <=> IsPrefix(u.path, v.path)
    BY <1>1, <1>2 DEF LeftOf
<1>5. u = v
    <2>1. CASE x.oid = y.oid
        BY <1>1, <1>2, <2>1 DEF Tree, SameThing
    <2>2. CASE x.path = y.path
        <3>1. IsPrefix(u.path, v.path) /\ Len(u.path) = Len(v.path)
            BY <1>1, <1>2, <1>3, <1>4, <2>2, PrefixItself DEF SameThing
        <3>2. u.path = v.path
            BY <1>3, <3>1, PrefixItself
        <3> QED BY <3>2 DEF Tree
    <2> QED BY <2>1, <2>2
<1>6. x.path = y.path
    <2>1. IsPrefix(x.path, y.path) /\ Len(x.path) = Len(y.path)
        BY <1>1, <1>2, <1>3, <1>4, <1>5, PrefixItself DEF SameThing
    <2> QED BY <1>3, <2>1, PrefixItself
<1> QED BY <1>1, <1>2, <1>5, <1>6 DEF SameThing, Things

(* What is known of two things that are left, and of those that they are. *)
LEMMA LeftPair ==
    ASSUME NEW d, Tree(d), NEW c, LeftOf(d, c), Tree(c),
           NEW x \in c, NEW y \in c, NEW u \in d, NEW v \in d, SameThing(x, u), SameThing(y, v)
    PROVE  /\ x = y <=> u = v
           /\ IsPrefix(x.path, y.path) <=> IsPrefix(u.path, v.path)
           /\ IsIn(x, y) <=> IsIn(u, v)
           /\ Alike(x, y) <=> Alike(u, v)
<1>1. x = y <=> u = v
    BY DEF Tree, SameThing
<1>2. IsPrefix(x.path, y.path) <=> IsPrefix(u.path, v.path)
    BY DEF LeftOf
<1>3. IsPrefix(y.path, x.path) <=> IsPrefix(v.path, u.path)
    BY DEF LeftOf
<1> QED BY <1>1, <1>2, <1>3 DEF SameThing, IsIn, Alike

LEMMA NoPath ==
    ASSUME NEW x \in Things
    PROVE  x.path = <<>> <=> Len(x.path) = 0
BY DEF Things

LEMMA LeftRoot ==
    ASSUME NEW x \in Things, NEW u \in Things, SameThing(x, u)
    PROVE  x.path = <<>> <=> u.path = <<>>
BY NoPath DEF SameThing

LEMMA LeftKinds ==
    ASSUME NEW d, Tree(d), NEW c, LeftOf(d, c), Tree(c)
    PROVE  /\ \A kinds : OfKinds(d, kinds) => OfKinds(c, kinds)
           /\ \A kind, n : AtLevel(d, kind, n) => AtLevel(c, kind, n)
           /\ KeysDiffer(d) => KeysDiffer(c)
           /\ KeysDiffer(d \ Account(d)) => KeysDiffer(c \ Account(c))
           /\ KeysOfKindDiffer(d) => KeysOfKindDiffer(c)
           /\ \A holds : Placed(d, holds) => Placed(c, holds)
<1>0. \A x \in c : \E u \in d : SameThing(x, u)
    BY DEF LeftOf
<1>1. ASSUME NEW kinds, OfKinds(d, kinds) PROVE OfKinds(c, kinds)
    BY <1>0, <1>1 DEF OfKinds, SameThing
<1>2. ASSUME NEW kind, NEW n, AtLevel(d, kind, n) PROVE AtLevel(c, kind, n)
    BY <1>0, <1>2 DEF AtLevel, SameThing
<1>3. ASSUME NEW x \in c, NEW y \in c, Alike(x, y),
             \/ KeysDiffer(d)
             \/ KeysOfKindDiffer(d) /\ x.kind = y.kind
             \/ KeysDiffer(d \ Account(d)) /\ x \notin Account(c) /\ y \notin Account(c)
      PROVE  x = y
    <2>1. PICK u \in d : SameThing(x, u)
        BY <1>0
    <2>2. PICK v \in d : SameThing(y, v)
        BY <1>0
    <2>3. (x = y <=> u = v) /\ Alike(u, v)
        BY <1>3, <2>1, <2>2, LeftPair
    <2>4. x.kind = u.kind /\ y.kind = v.kind
        BY <2>1, <2>2 DEF SameThing
    <2>5. (x \in Account(c) <=> u \in Account(d)) /\ (y \in Account(c) <=> v \in Account(d))
        BY <2>1, <2>2, LeftRoot DEF Account, At, Tree
    <2> QED BY <1>3, <2>3, <2>4, <2>5 DEF KeysDiffer, KeysOfKindDiffer
<1>4. ASSUME NEW holds, Placed(d, holds) PROVE Placed(c, holds)
    <2> SUFFICES ASSUME NEW x \in c, x.path # <<>>
                 PROVE  \E o \in c : IsIn(x, o) /\ <<o.kind, x.kind>> \in holds
        BY DEF Placed
    <2>1. PICK u \in d : SameThing(x, u)
        BY <1>0
    <2>2. u.path # <<>>
        BY <2>1, LeftRoot DEF Tree
    <2>3. PICK v \in d : IsIn(u, v) /\ <<v.kind, u.kind>> \in holds
        BY <1>4, <2>2 DEF Placed
    <2>4. PICK o \in c : SameThing(o, v)
        BY <2>1, <2>3 DEF LeftOf, IsIn
    <2>5. IsIn(x, o)
        BY <2>1, <2>3, <2>4, LeftPair
    <2> QED BY <2>1, <2>3, <2>4, <2>5 DEF SameThing
<1>5. /\ KeysDiffer(d) => KeysDiffer(c)
      /\ KeysDiffer(d \ Account(d)) => KeysDiffer(c \ Account(c))
      /\ KeysOfKindDiffer(d) => KeysOfKindDiffer(c)
    BY <1>3 DEF KeysDiffer, KeysOfKindDiffer
<1> QED BY <1>1, <1>2, <1>4, <1>5

LEMMA LeftLibraries ==
    ASSUME NEW d, Tree(d), NEW c, LeftOf(d, c), Tree(c), InLibraries(d)
    PROVE  InLibraries(c)
<1>0. \A x \in c : \E u \in d : SameThing(x, u)
    BY DEF LeftOf
<1>1. AtLevel(c, "library", 1)
    BY LeftKinds DEF InLibraries
<1>2. ASSUME NEW x \in c, x.path # <<>>
      PROVE  \E l \in c : l.kind = "library" /\ IsPrefix(l.path, x.path)
    <2>1. PICK u \in d : SameThing(x, u)
        BY <1>0
    <2>2. u.path # <<>>
        BY <1>2, <2>1, LeftRoot DEF Tree
    <2>3. PICK k \in d : k.kind = "library" /\ IsPrefix(k.path, u.path)
        BY <2>2 DEF InLibraries
    <2>4. PICK l \in c : SameThing(l, k)
        BY <2>1, <2>3 DEF LeftOf
    <2>5. IsPrefix(l.path, x.path)
        BY <2>1, <2>3, <2>4, LeftPair
    <2> QED BY <2>3, <2>4, <2>5 DEF SameThing
<1>3. ASSUME NEW k \in c, NEW l \in c, k.kind = "library", l.kind = "library", k.key = l.key
      PROVE  k = l
    <2>1. PICK u \in d : SameThing(k, u)
        BY <1>0
    <2>2. PICK v \in d : SameThing(l, v)
        BY <1>0
    <2>3. u = v
        BY <1>3, <2>1, <2>2 DEF InLibraries, SameThing
    <2> QED BY <2>1, <2>2, <2>3, LeftPair
<1>4. ASSUME NEW l \in c, l.kind = "library", NEW x \in c, NEW y \in c,
             IsPrefix(l.path, x.path), IsPrefix(l.path, y.path), x.kind = y.kind, Alike(x, y)
      PROVE  x = y
    <2>1. PICK k \in d : SameThing(l, k)
        BY <1>0
    <2>2. PICK u \in d : SameThing(x, u)
        BY <1>0
    <2>3. PICK v \in d : SameThing(y, v)
        BY <1>0
    <2>4. IsPrefix(k.path, u.path) /\ IsPrefix(k.path, v.path) /\ Alike(u, v)
        BY <1>4, <2>1, <2>2, <2>3, LeftPair
    <2>5. k.kind = "library" /\ u.kind = v.kind
        BY <1>4, <2>1, <2>2, <2>3 DEF SameThing
    <2>6. u = v
        BY <2>4, <2>5 DEF InLibraries, KeysOfKindDiffer
    <2> QED BY <2>2, <2>3, <2>6, LeftPair
<1>5. \A o \in c : o.kind = "collection" => o.key \notin {"ROOT", "None"}
    BY <1>0 DEF InLibraries, SameThing
<1> QED BY <1>1, <1>2, <1>3, <1>4, <1>5 DEF InLibraries, KeysOfKindDiffer

(* Whatever the owner does, the content stays one that the service may hold. *)
LEMMA WellFormedLeft ==
    ASSUME NEW s \in AllImps, NEW d, WellFormed(s, d), NEW c, LeftOf(d, c), c \subseteq Things, IsFiniteSet(c)
    PROVE  WellFormed(s, c)
<1>1. Tree(d) /\ Tree(c)
    BY LeftTree DEF WellFormed
<1>2. /\ \A kinds : OfKinds(d, kinds) => OfKinds(c, kinds)
      /\ \A kind, n : AtLevel(d, kind, n) => AtLevel(c, kind, n)
      /\ KeysDiffer(d) => KeysDiffer(c)
      /\ KeysDiffer(d \ Account(d)) => KeysDiffer(c \ Account(c))
      /\ KeysOfKindDiffer(d) => KeysOfKindDiffer(c)
      /\ \A holds : Placed(d, holds) => Placed(c, holds)
    BY <1>1, LeftKinds
<1>3. \A x \in c : \E u \in d : SameThing(x, u) /\ (x.path = <<>> <=> u.path = <<>>)
    BY <1>1, LeftRoot DEF LeftOf, Tree
<1>4. CASE s = "box"
    BY <1>1, <1>2, <1>3, <1>4 DEF WellFormed, SameThing
<1>5. CASE s = "dropbox"
    <2>1. /\ OfKinds(d, {"file", "folder"}) /\ KeysDiffer(d \ Account(d))
          /\ \A o \in d : o.key # "/" /\ (o.path = <<>> => o.kind = "folder")
        BY <1>5 DEF WellFormed
    <2>2. \A o \in c : o.key # "/" /\ (o.path = <<>> => o.kind = "folder")
        BY <1>3, <2>1 DEF SameThing
    <2> QED BY <1>1, <1>2, <1>5, <2>1, <2>2 DEF WellFormed
<1>6. CASE s \in {"googledrive", "onedrive"}
    BY <1>1, <1>2, <1>6 DEF WellFormed
<1>7. CASE s = "figshare"
    BY <1>1, <1>2, <1>7 DEF WellFormed
<1>8. CASE s = "dataverse"
    BY <1>1, <1>2, <1>8 DEF WellFormed
<1>9. CASE s = "link"
    <2>1. PagesDiffer(d) => PagesDiffer(c)
        <3> SUFFICES ASSUME PagesDiffer(d), NEW x \in c, NEW y \in c,
                            \/ x.kind = y.kind /\ x.alias = y.alias /\ x.alias # NoAlias
                            \/ x.kind = "dataverse" /\ y.kind = "dataverse" /\ x.key = y.alias
                     PROVE  x = y
            BY DEF PagesDiffer
        <3>1. PICK u \in d : SameThing(x, u)
            BY <1>3
        <3>2. PICK v \in d : SameThing(y, v)
            BY <1>3
        <3>3. u = v
            BY <3>1, <3>2 DEF PagesDiffer, SameThing
        <3> QED BY <1>1, <3>1, <3>2, <3>3, LeftPair
    <2> QED BY <1>1, <1>2, <1>3, <1>9, <2>1 DEF WellFormed, SameThing
<1>10. CASE s = "zotero"
    BY <1>1, <1>2, <1>10, LeftLibraries DEF WellFormed
<1>11. CASE s = "mendeley"
    BY <1>1, <1>2, <1>3, <1>11 DEF WellFormed, SameThing
<1>12. CASE s = "github"
    BY <1>1, <1>2, <1>3, <1>12 DEF WellFormed, SameThing, HasRepositories
<1>13. CASE s = "gitlab"
    <2>1. ASSUME NEW x \in c, NEW y \in c, x.kind = "repository", y.kind = "repository", IsPrefix(x.path, y.path)
          PROVE  x = y
        <3>1. PICK u \in d : SameThing(x, u)
            BY <1>3
        <3>2. PICK v \in d : SameThing(y, v)
            BY <1>3
        <3>3. u.kind = "repository" /\ v.kind = "repository" /\ IsPrefix(u.path, v.path)
            BY <1>1, <2>1, <3>1, <3>2, LeftPair DEF SameThing
        <3>4. u = v
            BY <1>13, <3>3 DEF WellFormed
        <3> QED BY <1>1, <3>1, <3>2, <3>4, LeftPair
    <2> QED BY <1>1, <1>2, <1>13, <2>1 DEF WellFormed, HasRepositories
<1>14. CASE s = "bitbucket"
    BY <1>1, <1>2, <1>3, <1>14 DEF WellFormed, SameThing, HasRepositories
<1>15. CASE s \in {"s3", "azure"}
    BY <1>1, <1>2, <1>15 DEF WellFormed, HasBuckets
<1>16. CASE s = "owncloud"
    BY <1>1, <1>2, <1>3, <1>16 DEF WellFormed, SameThing
<1> QED BY <1>4, <1>5, <1>6, <1>7, <1>8, <1>9, <1>10, <1>11, <1>12, <1>13, <1>14, <1>15, <1>16 DEF AllImps

(***************************************************************************)
(* Results as JSON.                                                        *)
(***************************************************************************)
LEMMA JsonOfPlain ==
    ASSUME NEW x
    PROVE  /\ JsonForField(Plain("str"), Str(x)) = {Str(x)}
           /\ JsonForField(Plain("bool"), Bool(x)) = {Bool(x)}
BY DEF JsonForField, ValueAsJson, Plain, Str, Bool, Is

LEMMA JsonOfEnum ==
    ASSUME NEW names, NEW x
    PROVE  JsonForField(EnumOf(names), Enum(x)) = IF x \in DOMAIN names THEN {Str(<<names[x]>>)} ELSE {}
BY DEF JsonForField, ValueAsJson, EnumOf, Enum, Is, JsonForEnum

(* An item that has a JSON is written with its id, the name of its type and whether it *)
(* can be the root.                                                                    *)
IsJsonOf(s, i, j) ==
    /\ i.type \in DOMAIN ItemTypes(s)
    /\ j[2].item_id = Str(i.id)
    /\ j[2].item_type = Str(<<ItemTypes(s)[i.type]>>)
    /\ "can_be_root" \in DOMAIN j[2] => j[2].can_be_root = Bool(i.root)

LEMMA ItemFields ==
    ASSUME NEW s, NEW i
    PROVE  LET v == ItemValue(s, i)
               signature == ItemResult(s)
           IN  /\ v[1] = "object" /\ DOMAIN v[2] = DOMAIN signature
               /\ {"item_id", "item_type"} \subseteq DOMAIN signature
               /\ DOMAIN signature \subseteq {"item_id", "item_type", "can_be_root"}
               /\ v[2]["item_id"] = Str(i.id) /\ signature["item_id"] = Param(Plain("str"))
               /\ v[2]["item_type"] = Enum(i.type) /\ signature["item_type"] = Param(EnumOf(ItemTypes(s)))
               /\ "can_be_root" \in DOMAIN signature =>
                     /\ v[2]["can_be_root"] = Bool(i.root)
                     /\ signature["can_be_root"] = ParamOr(Plain("bool"), NoneValue)
<1>1. CASE s = "link"
    BY <1>1 DEF ItemValue, ItemResult, Object
<1>2. CASE s # "link"
    BY <1>2 DEF ItemValue, ItemResult, Object
<1> QED BY <1>1, <1>2

LEMMA ItemJson ==
    ASSUME NEW s, NEW i, NEW j \in JsonForDataclass(Dataclass(ItemResult(s)), ItemValue(s, i))
    PROVE  IsJsonOf(s, i, j)
<1> DEFINE f == ItemValue(s, i)[2]
           signature == ItemResult(s)
           kwargs == [n \in {n \in DOMAIN f : f[n] \notin signature[n].default} |-> f[n]]
           part(n) == JsonForField(signature[n].annotation, kwargs[n])
           names == DOMAIN kwargs \cap DOMAIN signature
<1>1. /\ ItemValue(s, i)[1] = "object" /\ DOMAIN f = DOMAIN signature
      /\ {"item_id", "item_type"} \subseteq DOMAIN signature
      /\ DOMAIN signature \subseteq {"item_id", "item_type", "can_be_root"}
      /\ f["item_id"] = Str(i.id) /\ signature["item_id"] = Param(Plain("str"))
      /\ f["item_type"] = Enum(i.type) /\ signature["item_type"] = Param(EnumOf(ItemTypes(s)))
      /\ "can_be_root" \in DOMAIN signature =>
            f["can_be_root"] = Bool(i.root) /\ signature["can_be_root"] = ParamOr(Plain("bool"), NoneValue)
    BY ItemFields
<1> HIDE DEF f, signature
<1>2. JsonForDataclass(Dataclass(signature), ItemValue(s, i)) = {Object(json) : json \in AllOf(names, part)}
    BY <1>1 DEF JsonForDataclass, ValueAsJson, Dataclass, Is, DataclassAsJson, KwargsAsJson, f
<1>3. /\ names = DOMAIN signature
      /\ \A n \in names : kwargs[n] = f[n]
    <2>1. f["item_id"] \notin signature["item_id"].default /\ f["item_type"] \notin signature["item_type"].default
        BY <1>1 DEF Param
    <2>2. "can_be_root" \in DOMAIN signature => f["can_be_root"] \notin signature["can_be_root"].default
        BY <1>1 DEF ParamOr, Bool, NoneValue
    <2> QED BY <1>1, <2>1, <2>2
<1>4. PICK json \in AllOf(names, part) : j = Object(json)
    BY <1>2 DEF signature
<1>5. /\ \A n \in names : part(n) # {}
      /\ json = [n \in names |-> CHOOSE v \in part(n) : TRUE]
    BY <1>4 DEF AllOf
<1> HIDE DEF kwargs, names
<1>6. /\ signature["item_id"].annotation = Plain("str")
      /\ signature["item_type"].annotation = EnumOf(ItemTypes(s))
      /\ "can_be_root" \in DOMAIN signature => signature["can_be_root"].annotation = Plain("bool")
    BY <1>1 DEF Param, ParamOr
<1>7. part("item_id") = {Str(i.id)}
    BY <1>1, <1>3, <1>6, JsonOfPlain
<1>8. i.type \in DOMAIN ItemTypes(s) /\ part("item_type") = {Str(<<ItemTypes(s)[i.type]>>)}
    <2>1. part("item_type") = JsonForField(EnumOf(ItemTypes(s)), Enum(i.type))
        BY <1>1, <1>3, <1>6
    <2>2. part("item_type") # {}
        BY <1>1, <1>3, <1>5
    <2>3. JsonForField(EnumOf(ItemTypes(s)), Enum(i.type))
            = IF i.type \in DOMAIN ItemTypes(s) THEN {Str(<<ItemTypes(s)[i.type]>>)} ELSE {}
        BY JsonOfEnum
    <2> QED BY <2>1, <2>2, <2>3
<1>9. "can_be_root" \in DOMAIN signature => part("can_be_root") = {Bool(i.root)}
    BY <1>1, <1>3, <1>6, JsonOfPlain
<1> HIDE DEF part
<1>10. /\ json["item_id"] = Str(i.id) /\ json["item_type"] = Str(<<ItemTypes(s)[i.type]>>)
       /\ DOMAIN json = DOMAIN signature
       /\ "can_be_root" \in DOMAIN signature => json["can_be_root"] = Bool(i.root)
    BY <1>1, <1>3, <1>5, <1>7, <1>8, <1>9
<1> QED BY <1>4, <1>8, <1>10 DEF IsJsonOf, Object

(* What an answer has was made of an item of the operation's result; it may say that it *)
(* can be the root only if this item does.                                              *)
AnswerOf(a, i) == a.id = i.id /\ a.type = i.type /\ a.of = i.of /\ (a.root => i.root)

LEMMA TypesAreLowered ==
    ASSUME NEW s, NEW type \in DOMAIN ItemTypes(s)
    PROVE  Lower(<<ItemTypes(s)[type]>>) = type
BY DEF ItemTypes, Lower

LEMMA ListJson ==
    ASSUME NEW a, NEW values, NEW l \in JsonForCollection(CollectionOf(a), List(values))
    PROVE  \A i \in DOMAIN values : l[2][i] \in JsonForDataclass(a, values[i])
<1> DEFINE parts(k) == JsonForDataclass(a, values[k])
<1>1. JsonForCollection(CollectionOf(a), List(values)) = {List(f) : f \in AllOf(DOMAIN values, parts)}
    BY DEF JsonForCollection, ValueAsJson, CollectionOf, List, Is
<1>2. PICK f \in AllOf(DOMAIN values, parts) : l = List(f)
    BY <1>1
<1>3. \A i \in DOMAIN values : f[i] \in parts(i)
    <2>1. (\A i \in DOMAIN values : parts(i) # {}) /\ f = [i \in DOMAIN values |-> CHOOSE v \in parts(i) : TRUE]
        BY DEF AllOf
    <2> QED BY <2>1
<1> QED BY <1>2, <1>3 DEF List

LEMMA SampleJson ==
    ASSUME NEW a, NEW l, NEW j \in JsonForTypedValue(Dataclass([items |-> Param(a)]), Object([items |-> l]))
    PROVE  j[2].items \in JsonForCollection(a, l)
<1> DEFINE signature == [items |-> Param(a)]
           instance == [items |-> l]
           kwargs == [n \in {n \in DOMAIN instance : instance[n] \notin signature[n].default} |-> instance[n]]
           part(n) == JsonForCollection(signature[n].annotation, kwargs[n])
           names == DOMAIN kwargs \cap DOMAIN signature
<1>1. /\ DOMAIN instance = {"items"} /\ instance["items"] = l
      /\ DOMAIN signature = {"items"} /\ signature["items"].default = {} /\ signature["items"].annotation = a
    BY DEF Param
<1> HIDE DEF signature, instance
<1>2. JsonForTypedValue(Dataclass(signature), Object(instance)) = {Object(json) : json \in AllOf(names, part)}
    BY DEF JsonForTypedValue, ValueAsJson, Dataclass, Object, Is, DataclassAsJson, KwargsAsJson
<1>3. PICK json \in AllOf(names, part) : j = Object(json)
    BY <1>2 DEF signature, instance
<1>4. (\A n \in names : part(n) # {}) /\ json = [n \in names |-> CHOOSE v \in part(n) : TRUE]
    BY <1>3 DEF AllOf
<1>5. names = {"items"} /\ kwargs["items"] = l
    BY <1>1
<1> HIDE DEF names, kwargs
<1>6. part("items") = JsonForCollection(a, l)
    BY <1>1, <1>5
<1>7. json["items"] \in part("items")
    <2> HIDE DEF part
    <2> QED BY <1>4, <1>5
<1> QED BY <1>3, <1>6, <1>7 DEF Object

LEMMA AnswerItems ==
    ASSUME NEW s, NEW items, NEW answer \in Answer(s, items), NEW a \in answer
    PROVE  \E i \in items : AnswerOf(a, i) /\ a.type \in DOMAIN ItemTypes(s)
<1> DEFINE values == [i \in items |-> ItemValue(s, i)]
           item(j, of) == [id |-> j.item_id[2], type |-> Lower(j.item_type[2]), of |-> of,
                           root |-> "can_be_root" \in DOMAIN j /\ j.can_be_root[2]]
<1>1. ItemSampleResult(s) = [items |-> Param(CollectionOf(Dataclass(ItemResult(s))))]
    BY DEF ItemSampleResult
<1>2. PICK j \in JsonForTypedValue(Dataclass(ItemSampleResult(s)), Object([items |-> List(values)])) :
         answer = {item(j[2].items[2][i][2], i.of) : i \in items}
    BY Zenon DEF Answer
<1>3. j[2].items \in JsonForCollection(CollectionOf(Dataclass(ItemResult(s))), List(values))
    BY <1>1, SampleJson
<1>4. \A i \in items : j[2].items[2][i] \in JsonForDataclass(Dataclass(ItemResult(s)), ItemValue(s, i))
    BY <1>3, ListJson
<1> DEFINE json(i) == j[2].items[2][i]
<1>5. PICK i \in items : a = item(json(i)[2], i.of)
    BY <1>2, Zenon
<1>6. IsJsonOf(s, i, json(i))
    BY <1>4, ItemJson
<1> HIDE DEF json
<1>7. /\ json(i)[2].item_id[2] = i.id
      /\ json(i)[2].item_type[2] = <<ItemTypes(s)[i.type]>>
      /\ "can_be_root" \in DOMAIN json(i)[2] => json(i)[2].can_be_root[2] = i.root
    BY <1>6 DEF IsJsonOf, Str, Bool
<1>8. i.type \in DOMAIN ItemTypes(s) /\ Lower(<<ItemTypes(s)[i.type]>>) = i.type
    BY <1>6, TypesAreLowered DEF IsJsonOf
<1> QED BY <1>5, <1>7, <1>8 DEF AnswerOf

(***************************************************************************)
(* Requests as JSON.                                                       *)
(***************************************************************************)
LEMMA ParsedStr ==
    ASSUME NEW x
    PROVE  TypedValueFromJson(Plain("str"), Str(x)) = {Str(x)} /\ MeetsProperty(Plain("str"), Str(x))
BY DEF TypedValueFromJson, ValueOfJson, Plain, Str, Is, MeetsProperty, MeetsAnnotation

LEMMA ParsedEnum ==
    ASSUME NEW s, NEW type \in DOMAIN ItemTypes(s)
    PROVE  LET a == Optional(EnumOf(ItemTypes(s)))
               json == Str(<<ItemTypes(s)[type]>>)
           IN  TypedValueFromJson(a, json) = {Enum(type)} /\ MeetsProperty(a, json)
<1> DEFINE names == ItemTypes(s)
           a == Optional(EnumOf(names))
           json == Str(<<names[type]>>)
<1>1. a.type = "enum" /\ a.of = names /\ json[1] = "str" /\ json[2] = <<names[type]>> /\ Lower(<<names[type]>>) = type
    BY TypesAreLowered DEF Optional, EnumOf, Str
<1> HIDE DEF a, json, names
<1>2. TypedValueFromJson(a, json) = {Enum(value) : value \in {value \in DOMAIN names : value = type}}
    BY <1>1 DEF TypedValueFromJson, ValueOfJson, Is
<1>3. type \in DOMAIN names
    BY DEF names
<1>4. TypedValueFromJson(a, json) = {Enum(type)}
    BY <1>2, <1>3
<1>5. MeetsProperty(a, json)
    BY <1>1, <1>3 DEF MeetsProperty, MeetsAnnotation, Is
<1> QED BY <1>4, <1>5 DEF a, json, names

(* Arguments that have a JSON each, and one for every name that is required. *)
LEMMA ParsedArguments ==
    ASSUME NEW signature, NEW json, NEW kwargs, DOMAIN kwargs = DOMAIN json,
           DOMAIN json \subseteq DOMAIN signature, RequiredNames(signature) \subseteq DOMAIN json,
           \A n \in DOMAIN json : /\ TypedValueFromJson(signature[n].annotation, json[n]) = {kwargs[n]}
                                  /\ MeetsProperty(signature[n].annotation, json[n]),
           kwargs = [n \in DOMAIN kwargs |-> kwargs[n]]
    PROVE  Arguments(signature, json) = {kwargs}
<1> DEFINE part(n) == TypedValueFromJson(signature[n].annotation, json[n])
<1>1. MeetsSchema(signature, json)
    BY DEF MeetsSchema, ObjectMeets
<1>2. Arguments(signature, json) = AllOf(DOMAIN json, part)
    BY <1>1 DEF Arguments, KwargsFromJson, KwargsOfJson
<1>3. \A n \in DOMAIN json : part(n) = {kwargs[n]}
    OBVIOUS
<1> HIDE DEF part
<1>4. AllOf(DOMAIN json, part) = {[n \in DOMAIN json |-> CHOOSE v \in part(n) : TRUE]}
    BY <1>3 DEF AllOf
<1>5. [n \in DOMAIN json |-> CHOOSE v \in part(n) : TRUE] = [n \in DOMAIN json |-> kwargs[n]]
    BY <1>3
<1> QED BY <1>2, <1>4, <1>5

LEMMA OpenIsUnderstood ==
    ASSUME NEW i
    PROVE  Arguments(GetItemInfoKwargs, OpenRequest(i)) = {OpenRequest(i)}
<1>1. /\ DOMAIN OpenRequest(i) = {"item_id"} /\ OpenRequest(i)["item_id"] = Str(i.id)
      /\ OpenRequest(i) = [n \in DOMAIN OpenRequest(i) |-> OpenRequest(i)[n]]
    BY DEF OpenRequest
<1>2. /\ DOMAIN GetItemInfoKwargs = {"item_id"} /\ RequiredNames(GetItemInfoKwargs) \subseteq {"item_id"}
      /\ GetItemInfoKwargs["item_id"].annotation = Plain("str")
    BY DEF GetItemInfoKwargs, Param, RequiredNames
<1> QED BY <1>1, <1>2, ParsedArguments, ParsedStr

LEMMA ListIsUnderstood ==
    ASSUME NEW s, NEW i, NEW type \in Types(s)
    PROVE  \E kwargs : /\ Arguments(ListChildItemsKwargs(s), ListRequest(s, i, type)) = {kwargs}
                       /\ \A c : PerformList(s, c, kwargs) = ListChildItems(s, c, i.id, type)
<1> DEFINE id == IF s \in CitationImps THEN "collection_id" ELSE "item_id"
           of == IF s \in CitationImps THEN "filter_items" ELSE "item_type"
           signature == ListChildItemsKwargs(s)
           json == ListRequest(s, i, type)
           kwargs == [n \in IF type = "any" THEN {id} ELSE {id, of} |-> IF n = id THEN Str(i.id) ELSE Enum(type)]
<1>1. id # of /\ "any" \notin DOMAIN ItemTypes(s)
    BY DEF ItemTypes
<1>2. /\ {id, of} \subseteq DOMAIN signature /\ RequiredNames(signature) \subseteq {id}
      /\ signature[id].annotation = Plain("str")
      /\ signature[of].annotation = Optional(EnumOf(ItemTypes(s)))
    <2>1. CASE s \in CitationImps
        BY <2>1 DEF ListChildItemsKwargs, Param, ParamOr, RequiredNames
    <2>2. CASE s \notin CitationImps
        BY <2>2 DEF ListChildItemsKwargs, Param, ParamOr, RequiredNames
    <2> QED BY <2>1, <2>2
<1>3. json = [n \in IF type = "any" THEN {id} ELSE {id, of} |->
                IF n = id THEN Str(i.id) ELSE Str(<<ItemTypes(s)[type]>>)]
    BY DEF ListRequest
<1>4. /\ TypedValueFromJson(Plain("str"), Str(i.id)) = {Str(i.id)}
      /\ MeetsProperty(Plain("str"), Str(i.id))
    BY ParsedStr
<1>5. type # "any" => /\ TypedValueFromJson(Optional(EnumOf(ItemTypes(s))), Str(<<ItemTypes(s)[type]>>)) = {Enum(type)}
                      /\ MeetsProperty(Optional(EnumOf(ItemTypes(s))), Str(<<ItemTypes(s)[type]>>))
    <2>1. type # "any" => type \in DOMAIN ItemTypes(s)
        BY DEF Types
    <2> QED BY <2>1, ParsedEnum
<1> HIDE DEF signature, json, id, of
<1>6. DOMAIN json = DOMAIN kwargs /\ DOMAIN json \subseteq {id, of} /\ id \in DOMAIN json
    BY <1>3
<1>7. ASSUME NEW n \in DOMAIN json
      PROVE  /\ TypedValueFromJson(signature[n].annotation, json[n]) = {kwargs[n]}
             /\ MeetsProperty(signature[n].annotation, json[n])
    <2>1. CASE n = id
        BY <1>2, <1>3, <1>4, <2>1
    <2>2. CASE n # id
        <3>1. n = of /\ type # "any" /\ json[n] = Str(<<ItemTypes(s)[type]>>) /\ kwargs[n] = Enum(type)
            BY <1>3, <2>2
        <3> QED BY <1>2, <1>5, <3>1
    <2> QED BY <2>1, <2>2
<1>8. Arguments(signature, json) = {kwargs}
    <2> HIDE DEF kwargs
    <2>1. kwargs = [n \in DOMAIN kwargs |-> kwargs[n]]
        BY DEF kwargs
    <2> QED BY <1>2, <1>6, <1>7, <2>1, ParsedArguments
<1>9. ASSUME NEW c PROVE PerformList(s, c, kwargs) = ListChildItems(s, c, i.id, type)
    <2>1. kwargs[id][2] = i.id
        BY DEF Str
    <2>2. (IF of \in DOMAIN kwargs THEN kwargs[of][2] ELSE "any") = type
        BY <1>1 DEF Enum
    <2> HIDE DEF kwargs
    <2>3. PerformList(s, c, kwargs) = ListChildItems(s, c, kwargs[id][2], IF of \in DOMAIN kwargs THEN kwargs[of][2] ELSE "any")
        BY DEF PerformList, id, of
    <2> QED BY <2>1, <2>2, <2>3
<1> QED BY <1>8, <1>9 DEF signature, json

(***************************************************************************)
(* Ids are joined and split.                                               *)
(***************************************************************************)
(* A sequence with the names at the odd places, and something between any two. *)
Spaced(joined, names) ==
    /\ Len(joined) = IF Len(names) = 0 THEN 0 ELSE 2 * Len(names) - 1
    /\ \A k \in 1..Len(names) : joined[2 * k - 1] = names[k]

LEMMA JoinIs ==
    ASSUME NEW names \in Seq(Names), NEW sep \in Tokens
    PROVE  LET joined == Join(names, sep)
           IN  /\ joined \in Seq(Tokens)
               /\ Spaced(joined, names)
               /\ \A k \in 1..Len(joined) : joined[k] \in Names \cup {sep}
<1> DEFINE joined == Join(names, sep)
           n == Len(names)
           m == IF n = 0 THEN 0 ELSE 2 * n - 1
<1>1. n \in Nat /\ m \in Nat /\ 1..(2 * n - 1) = 1..m
    OBVIOUS
<1>2. joined = [k \in 1..m |-> IF k % 2 = 1 THEN names[(k + 1) \div 2] ELSE sep]
    BY <1>1 DEF Join
<1>3. \A k \in 1..m : k % 2 = 1 => (k + 1) \div 2 \in 1..n
    BY <1>1
<1>6. \A k \in 1..n : 2 * k - 1 \in 1..m /\ (2 * k - 1) % 2 = 1 /\ ((2 * k - 1) + 1) \div 2 = k
    BY <1>1
<1>7. \A k \in 1..n : 2 * k - 1 \in 1..m /\ joined[2 * k - 1] = names[k]
    BY <1>2, <1>6
<1> HIDE DEF joined, m
<1>4. ASSUME NEW k \in 1..m PROVE joined[k] \in Names \cup {sep}
    <2>1. CASE k % 2 = 1
        <3>1. joined[k] = names[(k + 1) \div 2] /\ (k + 1) \div 2 \in 1..n
            BY <1>2, <1>3, <2>1
        <3>2. \A j \in 1..n : names[j] \in Names
            BY ElementOfSeq
        <3> HIDE DEF n
        <3> QED BY <3>1, <3>2
    <2>2. CASE k % 2 # 1
        BY <1>2, <2>2
    <2> QED BY <2>1, <2>2
<1>5. joined \in Seq(Tokens) /\ Len(joined) = m
    <2>1. \A k \in 1..m : joined[k] \in Tokens
        BY <1>4 DEF Tokens
    <2>2. DOMAIN joined = 1..m /\ joined = [k \in 1..m |-> joined[k]]
        BY <1>2
    <2> QED BY <1>1, <2>1, <2>2
<1>8. Spaced(joined, names)
    BY <1>5, <1>7 DEF Spaced, m
<1>9. \A k \in 1..Len(joined) : joined[k] \in Names \cup {sep}
    BY <1>4, <1>5
<1> QED BY <1>5, <1>8, <1>9 DEF joined

LEMMA SpacedInjective ==
    ASSUME NEW names \in Seq(Names), NEW others \in Seq(Names), NEW joined,
           Spaced(joined, names), Spaced(joined, others)
    PROVE  names = others
<1>1. Len(names) = Len(others)
    BY DEF Spaced
<1>2. \A k \in 1..Len(names) : names[k] = others[k]
    BY <1>1 DEF Spaced
<1> QED BY <1>1, <1>2, SeqEqual

LEMMA JoinInjective ==
    ASSUME NEW names \in Seq(Names), NEW others \in Seq(Names), NEW sep \in Tokens,
           Join(names, sep) = Join(others, sep)
    PROVE  names = others
<1>1. Spaced(Join(names, sep), names)
    BY JoinIs
<1>2. Spaced(Join(others, sep), others)
    BY JoinIs
<1> QED BY <1>1, <1>2, SpacedInjective

(* An id with the token t is split where it has t first. *)
LEMMA IdIs ==
    ASSUME NEW S, NEW a \in Seq(S), NEW b \in Seq(S), NEW t \in S
    PROVE  LET id == a \o <<t>> \o b
           IN  /\ id \in Seq(S) /\ Len(id) = Len(a) + 1 + Len(b)
               /\ id[Len(a) + 1] = t
               /\ \A k \in 1..Len(a) : id[k] = a[k]
               /\ \A k \in 1..Len(b) : id[Len(a) + 1 + k] = b[k]
<1> DEFINE c == a \o <<t>>
           id == c \o b
<1>0. Len(a) \in Nat /\ Len(b) \in Nat /\ <<t>> \in Seq(S) /\ Len(<<t>>) = 1 /\ <<t>>[1] = t
    <2>1. Len(a) \in Nat /\ Len(b) \in Nat
        OBVIOUS
    <2>2. <<t>> \in Seq(S) /\ Len(<<t>>) = 1 /\ <<t>>[1] = t
        OBVIOUS
    <2> QED BY <2>1, <2>2
<1>1. /\ c \in Seq(S) /\ Len(c) = Len(a) + 1
      /\ \A k \in 1..(Len(a) + 1) : c[k] = IF k <= Len(a) THEN a[k] ELSE <<t>>[k - Len(a)]
    BY <1>0, ConcatProperties
<1> HIDE DEF c
<1>2. /\ id \in Seq(S) /\ Len(id) = Len(a) + 1 + Len(b)
      /\ \A k \in 1..(Len(a) + 1 + Len(b)) : id[k] = IF k <= Len(a) + 1 THEN c[k] ELSE b[k - (Len(a) + 1)]
    <2>1. /\ id \in Seq(S) /\ Len(id) = Len(c) + Len(b)
          /\ \A k \in 1..(Len(c) + Len(b)) : id[k] = IF k <= Len(c) THEN c[k] ELSE b[k - Len(c)]
        <3>1. c \in Seq(S)
            BY <1>1
        <3> QED BY <3>1, ConcatProperties, SMTT(30)
    <2>2. Len(c) = Len(a) + 1
        BY <1>1
    <2> QED BY <2>1, <2>2, Zenon
<1> HIDE DEF id
<1>3. id[Len(a) + 1] = t
    BY <1>0, <1>1, <1>2
<1>4. \A k \in 1..Len(a) : id[k] = a[k]
    BY <1>0, <1>1, <1>2
<1>5. \A k \in 1..Len(b) : id[Len(a) + 1 + k] = b[k]
    <2> TAKE k \in 1..Len(b)
    <2>1. Len(a) + 1 + k \in 1..(Len(a) + 1 + Len(b)) /\ ~(Len(a) + 1 + k <= Len(a) + 1) /\ (Len(a) + 1 + k) - (Len(a) + 1) = k
        BY <1>0
    <2> QED BY <1>2, <2>1
<1> QED BY <1>2, <1>3, <1>4, <1>5 DEF id, c

LEMMA SplitOf ==
    ASSUME NEW S, NEW a \in Seq(S), NEW b \in Seq(S), NEW t \in S, \A k \in 1..Len(a) : a[k] # t
    PROVE  SplitOnce(a \o <<t>> \o b, t) = {<<a, b>>}
<1> DEFINE id == a \o <<t>> \o b
           n == Len(a) + 1
           isFirst(k) == id[k] = t /\ \A j \in 1..(k - 1) : id[j] # t
<1>0. Len(a) \in Nat /\ Len(b) \in Nat
    OBVIOUS
<1>1. /\ id \in Seq(S) /\ Len(id) = Len(a) + 1 + Len(b)
      /\ id[n] = t
      /\ \A k \in 1..Len(a) : id[k] = a[k]
      /\ \A k \in 1..Len(b) : id[n + k] = b[k]
    BY IdIs
<1> HIDE DEF id
<1>2. n \in 1..Len(id) /\ DOMAIN id = 1..Len(id) /\ 1..(n - 1) = 1..Len(a)
    BY <1>0, <1>1
<1>3. {k \in DOMAIN id : isFirst(k)} = {n}
    <2>1. isFirst(n)
        BY <1>1, <1>2
    <2>2. ASSUME NEW k \in DOMAIN id, isFirst(k)
          PROVE  k = n
        <3>1. k \in 1..Len(id) /\ (k < n \/ k = n \/ n < k)
            BY <1>0, <1>2
        <3>2. CASE k < n
            <4>1. k \in 1..Len(a)
                BY <1>0, <3>1, <3>2
            <4> QED BY <1>1, <2>2, <4>1
        <3>3. CASE n < k
            <4>1. n \in 1..(k - 1)
                BY <1>0, <3>1, <3>3
            <4> QED BY <1>1, <2>2, <4>1
        <3> QED BY <3>1, <3>2, <3>3
    <2> QED BY <1>2, <2>1, <2>2
<1>4. SubSeq(id, 1, n - 1) = a
    <2>0. 1 \in Int /\ n - 1 \in Int /\ \A k \in 1..(n - 1) : id[k] \in S
        BY <1>0, <1>1, <1>2
    <2>1. SubSeq(id, 1, n - 1) \in Seq(S) /\ Len(SubSeq(id, 1, n - 1)) = Len(a)
        BY <1>0, <2>0, SubSeqProperties
    <2>2. \A k \in 1..Len(a) : SubSeq(id, 1, n - 1)[k] = a[k]
        BY <1>0, <1>1, <2>0, SubSeqProperties
    <2> QED BY <2>1, <2>2, SeqEqual
<1>5. SubSeq(id, n + 1, Len(id)) = b
    <2>0. n + 1 \in Int /\ Len(id) \in Int /\ \A k \in (n + 1)..Len(id) : id[k] \in S
        BY <1>0, <1>1
    <2> DEFINE tail == SubSeq(id, n + 1, Len(id))
    <2>1. /\ tail \in Seq(S)
          /\ Len(tail) = IF n + 1 <= Len(id) THEN Len(id) - (n + 1) + 1 ELSE 0
          /\ \A k \in 1..(Len(id) - (n + 1) + 1) : tail[k] = id[n + 1 + k - 1]
        BY <2>0, SubSeqProperties
    <2>2. Len(tail) = Len(b) /\ Len(id) - (n + 1) + 1 = Len(b)
        BY <1>0, <1>1, <2>1
    <2>3. ASSUME NEW k \in 1..Len(b) PROVE tail[k] = b[k]
        <3>1. n + 1 + k - 1 = n + k
            BY <1>0
        <3> QED BY <1>1, <2>1, <2>2, <3>1
    <2> QED BY <2>1, <2>2, <2>3, SeqEqual
<1>6. SplitOnce(id, t) = {<<SubSeq(id, 1, i - 1), SubSeq(id, i + 1, Len(id))>> : i \in {k \in DOMAIN id : isFirst(k)}}
    BY Zenon DEF SplitOnce
<1> HIDE DEF isFirst
<1>7. SplitOnce(id, t) = {<<SubSeq(id, 1, n - 1), SubSeq(id, n + 1, Len(id))>>}
    BY <1>3, <1>6
<1>8. SplitOnce(id, t) = {<<a, b>>}
    BY <1>4, <1>5, <1>7
<1> QED BY <1>8 DEF id

IsCut(S, id, t, p) == p[1] \in Seq(S) /\ p[2] \in Seq(S) /\ id = p[1] \o <<t>> \o p[2]

LEMMA SplitBack ==
    ASSUME NEW S, NEW id \in Seq(S), NEW t, NEW p \in SplitOnce(id, t)
    PROVE  IsCut(S, id, t, p)
<1>1. PICK i \in DOMAIN id : id[i] = t /\ p = <<SubSeq(id, 1, i - 1), SubSeq(id, i + 1, Len(id))>>
    BY DEF SplitOnce
<1> DEFINE a == SubSeq(id, 1, i - 1)
           b == SubSeq(id, i + 1, Len(id))
<1>2. i \in 1..Len(id) /\ Len(id) \in Nat /\ t \in S
    BY <1>1
<1>3. /\ a \in Seq(S) /\ Len(a) = i - 1 /\ \A k \in 1..(i - 1) : a[k] = id[k]
      /\ b \in Seq(S) /\ Len(b) = Len(id) - i /\ \A k \in 1..(Len(id) - i) : b[k] = id[i + k]
    BY <1>2
<1>4. p[1] = a /\ p[2] = b /\ p = <<a, b>>
    BY <1>1
<1> HIDE DEF a, b
<1> DEFINE joined == a \o <<t>> \o b
<1>5. /\ joined \in Seq(S) /\ Len(joined) = Len(a) + 1 + Len(b)
      /\ joined[Len(a) + 1] = t
      /\ \A k \in 1..Len(a) : joined[k] = a[k]
      /\ \A k \in 1..Len(b) : joined[Len(a) + 1 + k] = b[k]
    <2>1. a \in Seq(S) /\ b \in Seq(S) /\ t \in S
        BY <1>2, <1>3
    <2> QED BY <2>1, IdIs
<1> HIDE DEF joined
<1>6. Len(joined) = Len(id) /\ Len(a) + 1 = i
    <2>1. Len(a) = i - 1 /\ Len(b) = Len(id) - i /\ Len(joined) = Len(a) + 1 + Len(b) /\ i \in Nat
        BY <1>2, <1>3, <1>5
    <2> QED BY <1>2, <2>1
<1>7. ASSUME NEW k \in 1..Len(id) PROVE joined[k] = id[k]
    <2>1. CASE k < i
        <3>1. k \in 1..(i - 1) /\ k \in 1..Len(a)
            BY <1>2, <1>3, <2>1
        <3> QED BY <1>3, <1>5, <3>1
    <2>2. CASE k = i
        BY <1>1, <1>5, <1>6, <2>2
    <2>3. CASE i < k
        <3>1. k - i \in 1..(Len(id) - i) /\ i + (k - i) = k
            BY <1>2, <2>3
        <3>2. joined[i + (k - i)] = b[k - i] /\ b[k - i] = id[i + (k - i)]
            BY <1>3, <1>5, <1>6, <3>1
        <3> QED BY <3>1, <3>2
    <2> QED BY <1>2, <2>1, <2>2, <2>3
<1>8. joined = id
    BY <1>5, <1>6, <1>7, SeqEqual
<1> QED BY <1>3, <1>4, <1>8 DEF joined, IsCut

LEMMA OneOf ==
    ASSUME NEW S, NEW s \in Seq(S), NEW i \in 1..Len(s), NEW j, i = j
    PROVE  SubSeq(s, i, j) = <<s[i]>>
<1> DEFINE t == SubSeq(s, i, j)
<1>1. i \in Int /\ j \in Int /\ Len(s) \in Nat /\ \A n \in i..j : s[n] \in S
    OBVIOUS
<1>2. t \in Seq(S) /\ Len(t) = 1 /\ \A n \in 1..1 : t[n] = s[i + n - 1]
    BY <1>1, SubSeqProperties
<1>3. t[1] = s[i]
    BY <1>1, <1>2
<1> HIDE DEF t
<1>4. t = <<s[i]>>
    BY <1>2, <1>3
<1> QED BY <1>4 DEF t

(* An id of a kind and a key is split into them, whatever the key is. *)
LEMMA SplitOfId ==
    ASSUME NEW kind, NEW key, NEW t, kind # t
    PROVE  SplitOnce(<<kind, t, key>>, t) = {<< <<kind>>, <<key>> >>}
<1> DEFINE id == <<kind, t, key>>
           at == {i \in DOMAIN id : id[i] = t /\ \A j \in 1..(i - 1) : id[j] # t}
           cut(i) == <<SubSeq(id, 1, i - 1), SubSeq(id, i + 1, Len(id))>>
<1>1. Len(id) = 3 /\ DOMAIN id = 1..3 /\ id[1] = kind /\ id[2] = t /\ id[3] = key
    OBVIOUS
<1>2. at = {2}
    BY <1>1
<1>3. SubSeq(id, 1, 1) = <<kind>> /\ SubSeq(id, 3, 3) = <<key>>
    <2>1. id \in Seq({kind, t, key}) /\ 1 \in 1..Len(id) /\ 3 \in 1..Len(id)
        OBVIOUS
    <2> QED BY <1>1, <2>1, OneOf
<1>4. cut(2) = << <<kind>>, <<key>> >>
    <2>1. 2 - 1 = 1 /\ 2 + 1 = 3
        OBVIOUS
    <2> QED BY <1>1, <1>3, <2>1
<1>5. SplitOnce(id, t) = {cut(i) : i \in at}
    BY Zenon DEF SplitOnce
<1> HIDE DEF cut, at, id
<1>6. SplitOnce(id, t) = {cut(2)}
    BY <1>2, <1>5
<1> QED BY <1>4, <1>6 DEF id

(***************************************************************************)
(* Where the id of an item leads.  The item was made of o when the content *)
(* was d; with a key in its id this may be long ago.                       *)
(***************************************************************************)
Origin(d, o, i) ==
    /\ WellFormed(imp, d)
    /\ WellFormed(imp, content)
    /\ LeftOf(d, content)
    /\ o \in d
    /\ Form(imp, d, i, o)
    /\ d = content \/ Stable(i)

Opens(i) ==
    LET info == GetItemInfo(imp, content, i.id)
    IN  /\ \A x \in info : x.of = i.of /\ x.type = i.type
        /\ Now(i.of) # {} => info # {}

IsListed(i) == i.type \in {"folder", "collection"} /\ ~ListsItself(i) /\ ~Misspelled(i)

Lists(i) ==
    \A type \in Types(imp) : \A items \in ListChildItems(imp, content, i.id, type), o \in Now(i.of) :
        IsListed(i) => {x.of : x \in items} = Expected(o, Asked(i, type))

Answers(i) ==
    \A type \in Types(imp), o \in Now(i.of) :
        IsListed(i) /\ ~Refused(o) => ListChildItems(imp, content, i.id, type) # {}

Describes(i) ==
    imp \notin CitationImps /\ DescribesRoot(i) /\ (i.root \/ imp = "link") =>
        BuildWbConfig(imp, content, i.id) = Now(i.of)

(* What each thing in the content was, and which of them i was made of. *)
LEMMA Sources ==
    ASSUME NEW d, NEW o, NEW i, Origin(d, o, i), NEW x \in content
    PROVE  \E u \in d : SameThing(x, u) /\ (x \in Now(i.of) <=> u = o)
<1>1. PICK u \in d : SameThing(x, u)
    BY DEF Origin, LeftOf
<1>2. i.of = o.oid /\ Tree(d) /\ o \in d
    BY DEF Origin, Form, WellFormed
<1>3. x.oid = i.of <=> u = o
    BY <1>1, <1>2 DEF Tree, SameThing
<1> QED BY <1>1, <1>3 DEF Now

LEMMA OriginIs ==
    ASSUME NEW d, NEW o, NEW i, Origin(d, o, i)
    PROVE  /\ Tree(d) /\ Tree(content) /\ o \in d /\ o \in Things /\ i.of = o.oid
           /\ \A x \in Now(i.of) : x \in content /\ SameThing(x, o) /\ (x.path = <<>> <=> o.path = <<>>)
           /\ \A x, y \in Now(i.of) : x = y
<1>1. Tree(d) /\ Tree(content) /\ o \in d /\ o \in Things /\ i.of = o.oid
    BY DEF Origin, Form, WellFormed, Tree
<1>2. \A x \in Now(i.of) : x \in content /\ SameThing(x, o)
    BY Sources DEF Now
<1>3. \A x \in Now(i.of) : x.path = <<>> <=> o.path = <<>>
    BY <1>1, <1>2, LeftRoot DEF Tree
<1>4. \A x, y \in Now(i.of) : x = y
    BY <1>1 DEF Now, Tree
<1> QED BY <1>1, <1>2, <1>3, <1>4

LEMMA FoundByKind ==
    ASSUME NEW d, NEW o, NEW i, Origin(d, o, i), KeysOfKindDiffer(d), NEW key \in {o.key, o.alias}
    PROVE  Keyed(content, {o.kind}, <<key>>) = Now(i.of)
<1>1. ASSUME NEW x \in content
      PROVE  (x.kind = o.kind /\ key \in {x.key, x.alias}) <=> x \in Now(i.of)
    <2>1. PICK u \in d : SameThing(x, u) /\ (x \in Now(i.of) <=> u = o)
        BY Sources
    <2>2. u.kind = o.kind /\ key \in {u.key, u.alias} <=> u = o
        BY DEF Origin, KeysOfKindDiffer, Alike
    <2> QED BY <2>1, <2>2 DEF SameThing
<1>2. Keyed(content, {o.kind}, <<key>>) = {x \in content : x.kind = o.kind /\ key \in {x.key, x.alias}}
    BY DEF Keyed
<1>3. Now(i.of) \subseteq content
    BY DEF Now
<1> QED BY <1>1, <1>2, <1>3

LEMMA FoundByKey ==
    ASSUME NEW d, NEW o, NEW i, Origin(d, o, i), KeysDiffer(d), NEW key \in {o.key, o.alias},
           NEW kinds, o.kind \in kinds
    PROVE  Keyed(content, kinds, <<key>>) = Now(i.of)
<1>1. ASSUME NEW x \in content
      PROVE  (x.kind \in kinds /\ key \in {x.key, x.alias}) <=> x \in Now(i.of)
    <2>1. PICK u \in d : SameThing(x, u) /\ (x \in Now(i.of) <=> u = o)
        BY Sources
    <2>2. u.kind \in kinds /\ key \in {u.key, u.alias} <=> u = o
        BY DEF Origin, KeysDiffer, Alike
    <2> QED BY <2>1, <2>2 DEF SameThing
<1>2. Keyed(content, kinds, <<key>>) = {x \in content : x.kind \in kinds /\ key \in {x.key, x.alias}}
    BY DEF Keyed
<1>3. Now(i.of) \subseteq content
    BY DEF Now
<1> QED BY <1>1, <1>2, <1>3

(***************************************************************************)
(* Listings.                                                               *)
(***************************************************************************)
(* The items are those of the things. *)
ItemsOf(items, things) ==
    /\ \A y \in items : \E x \in things : y.of = x.oid /\ y.type = FileOrFolder(x)
    /\ \A x \in things : \E y \in items : y.of = x.oid /\ y.type = FileOrFolder(x)

NoDrafts(things) == \A x \in things : x.kind # "draft"

LEMMA ExpectedFiles ==
    ASSUME imp \notin CitationImps, NEW o, NEW type
    PROVE  Expected(o, type) = {x.oid : x \in {x \in Under(content, o.path) :
                                                 type \in {"any", FileOrFolder(x)} /\ x.kind # "draft"}}
BY DEF Expected

LEMMA AllListed ==
    ASSUME imp \notin CitationImps, NEW o, NEW items,
           ItemsOf(items, Under(content, o.path)), NoDrafts(Under(content, o.path))
    PROVE  /\ \A type : {y.of : y \in OfType(items, type)} = Expected(o, type)
           /\ {y.of : y \in items} = Expected(o, "any")
<1> DEFINE under == Under(content, o.path)
<1>0. ItemsOf(items, under) /\ NoDrafts(under)
    OBVIOUS
<1> HIDE DEF under
<1>1. ASSUME NEW type
      PROVE  {y.of : y \in OfType(items, type)} = {x.oid : x \in {x \in under : type \in {"any", FileOrFolder(x)} /\ x.kind # "draft"}}
    <2>1. ASSUME NEW y \in OfType(items, type)
          PROVE  \E x \in under : y.of = x.oid /\ type \in {"any", FileOrFolder(x)} /\ x.kind # "draft"
        BY <1>0 DEF OfType, ItemsOf, NoDrafts
    <2>2. ASSUME NEW x \in under, type \in {"any", FileOrFolder(x)}
          PROVE  \E y \in OfType(items, type) : y.of = x.oid
        BY <1>0, <2>2 DEF OfType, ItemsOf
    <2> QED BY <2>1, <2>2
<1>2. \A type : {y.of : y \in OfType(items, type)} = Expected(o, type)
    BY <1>1, ExpectedFiles DEF under
<1>3. OfType(items, "any") = items
    BY DEF OfType
<1>4. {y.of : y \in OfType(items, "any")} = Expected(o, "any")
    BY <1>2
<1> QED BY <1>2, <1>3, <1>4

(* Nothing is a draft where there are only files, folders and what holds them. *)
LEMMA NoDraftKinds ==
    ASSUME NEW c, NEW kinds, OfKinds(c, kinds), "draft" \notin kinds
    PROVE  \A path : NoDrafts(Under(c, path))
BY DEF OfKinds, NoDrafts, Under

LEMMA BoxLeads ==
    ASSUME imp = "box", NEW d, NEW o, NEW i, Origin(d, o, i)
    PROVE  Opens(i) /\ Lists(i) /\ Answers(i) /\ Describes(i)
<1> DEFINE q == << <<o.kind>>, <<o.key>> >>
<1>1. /\ KeysOfKindDiffer(d) /\ OfKinds(d, {"file", "folder"}) /\ OfKinds(content, {"file", "folder"})
      /\ o.path = <<>> => o.kind = "folder" /\ "0" \in {o.key, o.alias}
      /\ o.kind \in {"file", "folder"} /\ o.kind # ":"
      /\ BoxForm(i, o) /\ (i.root => i.type \in {"folder", "collection"})
    BY DEF Origin, WellFormed, Form, OfKinds
<1>2. /\ \A x \in Now(i.of) : x \in content /\ x.oid = i.of /\ x.kind = o.kind
      /\ \A x, y \in Now(i.of) : x = y
    BY OriginIs DEF Now, SameThing
<1>3. SplitOnce(<<o.kind, ":", o.key>>, ":") = {q}
    BY <1>1, SplitOfId
<1>4. q[1] = <<o.kind>> /\ q[1][1] = o.kind /\ q[2] = <<o.key>>
    OBVIOUS
<1> HIDE DEF q
<1>5. /\ BoxAt(content, i.id) = Now(i.of)
      /\ i.type = FileOrFolder(o)
      /\ i.id # <<>> => i.id = <<o.kind, ":", o.key>>
    <2>1. CASE IsAccount(i, o)
        <3>1. BoxParse(i.id) = {<< <<"folder">>, <<"0">> >>}
            BY <2>1 DEF IsAccount, Named, BoxParse
        <3>2. BoxAt(content, i.id) = Keyed(content, {"folder"}, <<"0">>)
            BY <3>1 DEF BoxAt
        <3>3. Keyed(content, {"folder"}, <<"0">>) = Now(i.of)
            BY <1>1, <2>1, FoundByKind DEF IsAccount
        <3> QED BY <1>1, <2>1, <3>2, <3>3 DEF IsAccount, Named, FileOrFolder
    <2>2. CASE Named(i, <<o.kind, ":", o.key>>, FileOrFolder(o))
        <3>1. BoxParse(i.id) = {q}
            <4>1. i.id # <<>> /\ SplitOnce(i.id, ":") = {q}
                BY <1>3, <2>2 DEF Named
            <4>2. q[1] \in {<<"file">>, <<"folder">>}
                BY <1>1, <1>4
            <4> QED BY <4>1, <4>2 DEF BoxParse
        <3>2. BoxAt(content, i.id) = Keyed(content, {o.kind}, <<o.key>>)
            BY <1>4, <3>1 DEF BoxAt
        <3>3. Keyed(content, {o.kind}, <<o.key>>) = Now(i.of)
            BY <1>1, FoundByKind
        <3> QED BY <2>2, <3>2, <3>3 DEF Named
    <2> QED BY <1>1, <2>1, <2>2 DEF BoxForm
<1>6. \A x : BoxItem(x).of = x.oid /\ BoxItem(x).type = FileOrFolder(x)
    BY DEF BoxItem, Item
<1>7. Opens(i)
    <2>1. GetItemInfo(imp, content, i.id) = {BoxItem(x) : x \in Now(i.of)}
        BY <1>5 DEF GetItemInfo, BoxInfo
    <2>2. \A x \in Now(i.of) : FileOrFolder(x) = i.type
        BY <1>2, <1>5 DEF FileOrFolder
    <2> QED BY <1>2, <1>6, <2>1, <2>2 DEF Opens
<1>8. Lists(i)
    <2> SUFFICES ASSUME NEW type \in Types(imp), NEW items \in ListChildItems(imp, content, i.id, type),
                        NEW x \in Now(i.of)
                 PROVE  {y.of : y \in items} = Expected(x, Asked(i, type))
        BY DEF Lists, IsListed
    <2> DEFINE all == {BoxItem(y) : y \in Under(content, x.path)}
    <2>1. items = OfType(all, type)
        BY <1>2, <1>5 DEF ListChildItems, BoxChildren
    <2>2. ItemsOf(all, Under(content, x.path))
        BY <1>6 DEF ItemsOf
    <2>3. NoDrafts(Under(content, x.path))
        BY <1>1, NoDraftKinds
    <2>4. imp \notin CitationImps /\ Asked(i, type) = type
        BY DEF CitationImps, Asked
    <2> HIDE DEF all
    <2> QED BY <2>1, <2>2, <2>3, <2>4, AllListed
<1>9. Describes(i)
    <2> SUFFICES ASSUME DescribesRoot(i), i.root
                 PROVE  BoxWb(content, i.id) = Now(i.of)
        BY DEF Describes, BuildWbConfig
    <2>1. i.id = <<o.kind, ":", o.key>> /\ o.kind = "folder"
        BY <1>1, <1>5 DEF DescribesRoot, FileOrFolder
    <2>2. BoxWb(content, i.id) = Keyed(content, {o.kind}, <<o.key>>)
        BY <1>3, <1>4, <2>1 DEF BoxWb
    <2> QED BY <1>1, <2>2, FoundByKind
<1>10. Answers(i)
    <2> SUFFICES ASSUME NEW type \in Types(imp), NEW x \in Now(i.of), i.type \in {"folder", "collection"}
                 PROVE  BoxChildren(content, i.id, type) # {}
        BY DEF Answers, IsListed, ListChildItems
    <2>1. x \in BoxAt(content, i.id) /\ x.kind = "folder"
        BY <1>1, <1>2, <1>5 DEF FileOrFolder
    <2> QED BY <2>1 DEF BoxChildren
<1> QED BY <1>7, <1>8, <1>9, <1>10

LEMMA OneToken ==
    ASSUME NEW S, NEW x \in S
    PROVE  <<x>> \in Seq(S) /\ Len(<<x>>) = 1 /\ <<x>>[1] = x
OBVIOUS

LEMMA AccountIsNow ==
    ASSUME NEW d, NEW o, NEW i, Origin(d, o, i), o.path = <<>>
    PROVE  Account(content) = Now(i.of)
<1>1. ASSUME NEW x \in content
      PROVE  x.path = <<>> <=> x \in Now(i.of)
    <2>1. PICK u \in d : SameThing(x, u) /\ (x \in Now(i.of) <=> u = o)
        BY Sources
    <2>2. x.path = <<>> <=> u.path = <<>>
        BY <2>1, OriginIs, LeftRoot DEF Tree
    <2>3. u.path = <<>> <=> u = o
        BY OriginIs DEF Tree
    <2> QED BY <2>1, <2>2, <2>3
<1>2. Account(content) = {x \in content : x.path = <<>>}
    BY DEF Account, At
<1>3. Now(i.of) \subseteq content
    BY DEF Now
<1> QED BY <1>1, <1>2, <1>3

(* The path of a thing, with a slash in front. *)
LEMMA SlashPath ==
    ASSUME NEW x \in Things
    PROVE  LET path == <<"/">> \o Join(x.path, "/")
           IN  /\ path \in Seq(Tokens)
               /\ Len(path) = 1 + Len(Join(x.path, "/"))
               /\ path[1] = "/"
               /\ \A k \in 1..Len(Join(x.path, "/")) : path[1 + k] = Join(x.path, "/")[k]
               /\ Join(x.path, "/") \in Seq(Tokens)
               /\ Len(Join(x.path, "/")) > 0 <=> x.path # <<>>
<1> DEFINE joined == Join(x.path, "/")
           slash == <<"/">>
<1>0. x.path \in Seq(Names) /\ "/" \in Tokens
    BY ThingPath DEF Tokens
<1>1. joined \in Seq(Tokens) /\ Spaced(joined, x.path)
    BY <1>0, JoinIs
<1>2. slash \in Seq(Tokens) /\ Len(slash) = 1 /\ slash[1] = "/"
    BY <1>0, OneToken
<1>3. Len(joined) > 0 <=> x.path # <<>>
    BY <1>1, ThingPath, NoPath DEF Spaced
<1> HIDE DEF joined, slash
<1>4. /\ slash \o joined \in Seq(Tokens)
      /\ Len(slash \o joined) = Len(slash) + Len(joined)
      /\ \A k \in 1..(Len(slash) + Len(joined)) :
            (slash \o joined)[k] = IF k <= Len(slash) THEN slash[k] ELSE joined[k - Len(slash)]
    BY <1>1, <1>2, ConcatProperties
<1>5. Len(joined) \in Nat
    BY <1>1
<1> HIDE DEF Spaced
<1>6. (slash \o joined)[1] = "/"
    BY <1>2, <1>4, <1>5
<1>7. ASSUME NEW k \in 1..Len(joined) PROVE (slash \o joined)[1 + k] = joined[k]
    <2>1. 1 + k \in 1..(1 + Len(joined)) /\ ~(1 + k <= 1) /\ (1 + k) - 1 = k
        BY <1>5
    <2> QED BY <1>2, <1>4, <2>1
<1>8. Len(slash \o joined) = 1 + Len(joined)
    BY <1>2, <1>4
<1> QED BY <1>1, <1>3, <1>4, <1>6, <1>7, <1>8 DEF joined, slash

LEMMA SlashPathInjective ==
    ASSUME NEW x \in Things, NEW y \in Things, <<"/">> \o Join(x.path, "/") = <<"/">> \o Join(y.path, "/")
    PROVE  x.path = y.path
<1> DEFINE p == Join(x.path, "/")
           q == Join(y.path, "/")
           id == <<"/">> \o p
<1>1. /\ p \in Seq(Tokens) /\ Len(id) = 1 + Len(p) /\ \A k \in 1..Len(p) : id[1 + k] = p[k]
    BY SlashPath
<1>2. /\ q \in Seq(Tokens) /\ Len(id) = 1 + Len(q) /\ \A k \in 1..Len(q) : id[1 + k] = q[k]
    BY SlashPath
<1>3. p = q
    <2> HIDE DEF p, q, id
    <2>1. Len(p) = Len(q)
        BY <1>1, <1>2
    <2> QED BY <1>1, <1>2, <2>1, SeqEqual
<1>4. x.path \in Seq(Names) /\ y.path \in Seq(Names) /\ "/" \in Tokens
    BY ThingPath DEF Tokens
<1> QED BY <1>3, <1>4, JoinInjective

LEMMA DropboxLeads ==
    ASSUME imp = "dropbox", NEW d, NEW o, NEW i, Origin(d, o, i)
    PROVE  Opens(i) /\ Lists(i) /\ Answers(i) /\ Describes(i)
<1>1. /\ KeysDiffer(d \ Account(d)) /\ OfKinds(d, {"file", "folder"}) /\ OfKinds(content, {"file", "folder"})
      /\ o.key # "/"
      /\ \A x \in content : x.path = <<>> => x.kind = "folder"
      /\ DropboxKeyForm(i, o) \/ DropboxPathForm(i, o)
      /\ i.root => i.type \in {"folder", "collection"}
    BY DEF Origin, WellFormed, Form, OfKinds
<1>2. /\ \A x \in Now(i.of) : x \in content /\ x.oid = i.of /\ x.kind = o.kind
      /\ \A x, y \in Now(i.of) : x = y
      /\ Tree(d) /\ Tree(content) /\ o \in d /\ o \in Things /\ content \subseteq Things
    BY OriginIs DEF Now, SameThing, Tree
<1>3. \/ i.id \in DropboxRootIds /\ Account(content) = Now(i.of) /\ i.type = "folder"
      \/ i.id \notin DropboxRootIds /\ DropboxAt(content, i.id) = Now(i.of) /\ i.type = FileOrFolder(o)
    <2>1. CASE i.id \in DropboxRootIds /\ i.type = "folder" /\ o.path = <<>>
        BY <2>1, AccountIsNow
    <2>2. CASE Named(i, <<o.key>>, FileOrFolder(o)) /\ o.path # <<>>
        <3>1. i.id \notin DropboxRootIds /\ i.id # <<>> /\ i.id = <<o.key>>
            BY <1>1, <2>2 DEF Named, DropboxRootIds
        <3>2. ASSUME NEW x \in content
              PROVE  x \notin Account(content) /\ i.id \in {<<x.key>>, <<"/">> \o Join(x.path, "/")} <=> x \in Now(i.of)
            <4>1. PICK u \in d : SameThing(x, u) /\ (x \in Now(i.of) <=> u = o)
                BY Sources
            <4>2. x.path = <<>> <=> u.path = <<>>
                BY <1>2, <4>1, LeftRoot DEF Tree
            <4>3. x.path # <<>> => <<"/">> \o Join(x.path, "/") # <<o.key>>
                <5>1. x.path # <<>> => Len(<<"/">> \o Join(x.path, "/")) # 1
                    BY <1>2, SlashPath
                <5>2. Len(<<o.key>>) = 1
                    OBVIOUS
                <5> QED BY <5>1, <5>2
            <4>4. u.path # <<>> /\ u.key = o.key <=> u = o
                BY <1>1, <2>2 DEF KeysDiffer, Alike, Account, At, Origin
            <4>5. x \in Account(content) <=> x.path = <<>>
                BY DEF Account, At
            <4>6. x.key = u.key
                BY <4>1 DEF SameThing
            <4>7. <<o.key>> = <<x.key>> <=> o.key = x.key
                OBVIOUS
            <4> QED BY <3>1, <4>1, <4>2, <4>3, <4>4, <4>5, <4>6, <4>7
        <3>3. DropboxAt(content, i.id) = {x \in content \ Account(content) : i.id \in {<<x.key>>, <<"/">> \o Join(x.path, "/")}}
            BY <3>1 DEF DropboxAt
        <3>4. DropboxAt(content, i.id) = Now(i.of)
            BY <1>2, <3>2, <3>3
        <3> QED BY <2>2, <3>1, <3>4 DEF Named
    <2>3. CASE DropboxPathForm(i, o)
        <3>1. i.id = <<"/">> \o Join(o.path, "/") /\ Len(i.id) > 1 /\ o.path # <<>> /\ i.type = FileOrFolder(o)
            <4>1. Len(<<"/">> \o Join(o.path, "/")) > 1
                BY <1>2, <2>3, SlashPath DEF DropboxPathForm
            <4> QED BY <2>3, <4>1 DEF DropboxPathForm, Named, FileOrFolder
        <3>2. d = content
            BY <3>1 DEF Origin, Stable
        <3>3. i.id \notin DropboxRootIds /\ i.id # <<>>
            <4>1. Len(<<>>) = 0 /\ Len(<<"/">>) = 1
                OBVIOUS
            <4>2. Len(i.id) # 0 /\ Len(i.id) # 1
                BY <3>1
            <4>3. i.id # <<>> /\ i.id # <<"/">>
                BY <4>1, <4>2, Zenon
            <4> QED BY <4>3 DEF DropboxRootIds
        <3>4. ASSUME NEW x \in content
              PROVE  x \notin Account(content) /\ i.id \in {<<x.key>>, <<"/">> \o Join(x.path, "/")} <=> x \in Now(i.of)
            <4>1. i.id # <<x.key>>
                <5>1. Len(<<x.key>>) = 1
                    OBVIOUS
                <5> QED BY <3>1, <5>1
            <4>2. i.id = <<"/">> \o Join(x.path, "/") <=> x = o
                <5>1. i.id = <<"/">> \o Join(x.path, "/") => x.path = o.path
                    BY <1>2, <3>1, SlashPathInjective
                <5> QED BY <1>2, <3>1, <3>2, <5>1 DEF Tree
            <4>3. x \in Now(i.of) <=> x = o
                BY <1>2, <3>2, OriginIs DEF Now, Tree
            <4>4. x = o => x \notin Account(content)
                BY <3>1 DEF Account, At
            <4> QED BY <4>1, <4>2, <4>3, <4>4
        <3>5. DropboxAt(content, i.id) = {x \in content \ Account(content) : i.id \in {<<x.key>>, <<"/">> \o Join(x.path, "/")}}
            BY <3>3 DEF DropboxAt
        <3>6. DropboxAt(content, i.id) = Now(i.of)
            BY <1>2, <3>4, <3>5
        <3> QED BY <3>1, <3>3, <3>6
    <2> QED BY <1>1, <2>1, <2>2, <2>3 DEF DropboxKeyForm
<1>4. \A x : DropboxItem(x).of = x.oid /\ DropboxItem(x).type = FileOrFolder(x)
    BY DEF DropboxItem, Item
<1>5. Opens(i)
    <2>1. CASE i.id \in DropboxRootIds /\ Account(content) = Now(i.of) /\ i.type = "folder"
        <3>1. GetItemInfo(imp, content, i.id) = {Item(<<"/">>, "folder", x) : x \in Now(i.of)}
            BY <2>1 DEF GetItemInfo, DropboxInfo
        <3>2. \A x : Item(<<"/">>, "folder", x).of = x.oid /\ Item(<<"/">>, "folder", x).type = "folder"
            BY DEF Item
        <3> QED BY <1>2, <2>1, <3>1, <3>2 DEF Opens
    <2>2. CASE i.id \notin DropboxRootIds /\ DropboxAt(content, i.id) = Now(i.of) /\ i.type = FileOrFolder(o)
        <3>1. GetItemInfo(imp, content, i.id) = {DropboxItem(x) : x \in Now(i.of)}
            BY <2>2 DEF GetItemInfo, DropboxInfo
        <3>2. \A x \in Now(i.of) : FileOrFolder(x) = i.type
            BY <1>2, <2>2 DEF FileOrFolder
        <3> QED BY <1>2, <1>4, <3>1, <3>2 DEF Opens
    <2> QED BY <1>3, <2>1, <2>2
<1>6. DropboxAt(content, IF i.id = <<"/">> THEN <<>> ELSE i.id) = Now(i.of)
    <2>1. DropboxAt(content, <<>>) = Account(content)
        BY DEF DropboxAt
    <2> QED BY <1>3, <2>1 DEF DropboxRootIds
<1>7. Lists(i)
    <2> SUFFICES ASSUME NEW type \in Types(imp), NEW items \in ListChildItems(imp, content, i.id, type),
                        NEW x \in Now(i.of)
                 PROVE  {y.of : y \in items} = Expected(x, Asked(i, type))
        BY DEF Lists, IsListed
    <2> DEFINE all == {DropboxItem(y) : y \in Under(content, x.path)}
    <2>1. items = OfType(all, type)
        BY <1>2, <1>6 DEF ListChildItems, DropboxChildren
    <2>2. ItemsOf(all, Under(content, x.path))
        BY <1>4 DEF ItemsOf
    <2>3. NoDrafts(Under(content, x.path))
        BY <1>1, NoDraftKinds
    <2>4. imp \notin CitationImps /\ Asked(i, type) = type
        BY DEF CitationImps, Asked
    <2> HIDE DEF all
    <2> QED BY <2>1, <2>2, <2>3, <2>4, AllListed
<1>8. Describes(i)
    <2>1. DropboxWb(content, i.id) = Now(i.of)
        <3>1. \A x \in Now(i.of) : At(content, x.path) = {x}
            BY <1>2 DEF At, Tree
        <3>2. UNION {At(content, x.path) : x \in Now(i.of)} = Now(i.of)
            BY <3>1
        <3> QED BY <1>3, <3>2 DEF DropboxWb
    <2> QED BY <2>1 DEF Describes, BuildWbConfig
<1>9. Answers(i)
    <2> SUFFICES ASSUME NEW type \in Types(imp), NEW x \in Now(i.of), i.type \in {"folder", "collection"}
                 PROVE  DropboxChildren(content, i.id, type) # {}
        BY DEF Answers, IsListed, ListChildItems
    <2>1. x.kind = "folder"
        <3>1. CASE i.id \in DropboxRootIds /\ Account(content) = Now(i.of)
            BY <1>1, <3>1 DEF Account, At, OfKinds
        <3>2. CASE i.type = FileOrFolder(o)
            BY <1>1, <1>2, <3>2 DEF FileOrFolder, OfKinds
        <3> QED BY <1>3, <3>1, <3>2
    <2>2. x \in DropboxAt(content, IF i.id = <<"/">> THEN <<>> ELSE i.id)
        BY <1>6
    <2> QED BY <2>1, <2>2 DEF DropboxChildren
<1> QED BY <1>5, <1>7, <1>8, <1>9

LEMMA DriveLeads ==
    ASSUME imp \in {"googledrive", "onedrive"}, NEW d, NEW o, NEW i, Origin(d, o, i)
    PROVE  Opens(i) /\ Lists(i) /\ Answers(i) /\ Describes(i)
<1>1. /\ KeysDiffer(d) /\ OfKinds(content, {"file", "folder"})
      /\ o.kind \in {"file", "folder"}
      /\ i.type = FileOrFolder(o) /\ i.id # <<>>
      /\ i.root => i.type \in {"folder", "collection"}
    <2>1. CASE imp = "googledrive"
        <3>1. i.id = <<o.key>> /\ i.type = FileOrFolder(o)
            BY <2>1 DEF Origin, Form, DriveForm, Named
        <3> QED BY <2>1, <3>1 DEF Origin, WellFormed, Form, OfKinds
    <2>2. CASE imp = "onedrive"
        <3>1. i.id \in {<<o.key>>, <<o.alias>>} /\ i.type = FileOrFolder(o)
            BY <2>2 DEF Origin, Form, OneDriveForm
        <3> QED BY <2>2, <3>1 DEF Origin, WellFormed, Form, OfKinds
    <2> QED BY <2>1, <2>2
<1>2. /\ \A x \in Now(i.of) : x \in content /\ x.oid = i.of /\ x.kind = o.kind
      /\ \A x, y \in Now(i.of) : x = y
    BY OriginIs DEF Now, SameThing
<1>3. PICK key \in {o.key, o.alias} : i.id = <<key>>
    <2>1. CASE imp = "googledrive"
        BY <2>1 DEF Origin, Form, DriveForm, Named
    <2>2. CASE imp = "onedrive"
        BY <2>2 DEF Origin, Form, OneDriveForm
    <2> QED BY <2>1, <2>2
<1>4. Keyed(content, {"file", "folder"}, i.id) = Now(i.of)
    BY <1>1, <1>3, FoundByKey
<1>5. i.type = "folder" => o.kind = "folder" /\ Keyed(content, {"folder"}, i.id) = Now(i.of)
    <2>1. i.type = "folder" => o.kind = "folder"
        BY <1>1 DEF FileOrFolder
    <2>2. o.kind = "folder" => Keyed(content, {"folder"}, i.id) = Now(i.of)
        BY <1>1, <1>3, FoundByKey
    <2> QED BY <2>1, <2>2
<1>6. \A x : DriveItem(x).of = x.oid /\ DriveItem(x).type = FileOrFolder(x)
    BY DEF DriveItem, Item
<1>7. Opens(i)
    <2>1. GetItemInfo(imp, content, i.id) = {DriveItem(x) : x \in Now(i.of)}
        <3>1. CASE imp = "googledrive"
            BY <1>1, <1>4, <3>1 DEF GetItemInfo, DriveInfo
        <3>2. CASE imp = "onedrive"
            BY <1>1, <1>4, <3>2 DEF GetItemInfo, OneDriveInfo
        <3> QED BY <3>1, <3>2
    <2>2. \A x \in Now(i.of) : FileOrFolder(x) = i.type
        BY <1>1, <1>2 DEF FileOrFolder
    <2> QED BY <1>2, <1>6, <2>1, <2>2 DEF Opens
<1>8. Lists(i)
    <2> SUFFICES ASSUME NEW type \in Types(imp), NEW items \in ListChildItems(imp, content, i.id, type),
                        NEW x \in Now(i.of), i.type = "folder"
                 PROVE  {y.of : y \in items} = Expected(x, Asked(i, type))
        BY <1>1 DEF Lists, IsListed, FileOrFolder
    <2> DEFINE all == {DriveItem(y) : y \in Under(content, x.path)}
    <2>0. Now(i.of) = {x}
        BY <1>2
    <2>1. \/ imp = "googledrive" /\ items = OfType(all, type) /\ Asked(i, type) = type
          \/ imp = "onedrive" /\ items = all /\ Asked(i, type) = "any"
        <3>1. CASE imp = "googledrive"
            <4>1. items = OfType({DriveItem(y) : y \in UNION {Under(content, p.path) : p \in Now(i.of)}}, type)
                BY <1>5, <3>1 DEF ListChildItems, DriveChildren
            <4>2. UNION {Under(content, p.path) : p \in Now(i.of)} = Under(content, x.path)
                BY <2>0
            <4>3. Asked(i, type) = type
                BY <3>1 DEF Asked
            <4> QED BY <3>1, <4>1, <4>2, <4>3
        <3>2. CASE imp = "onedrive"
            BY <1>5, <2>0, <3>2 DEF ListChildItems, OneDriveChildren, Asked
        <3> QED BY <3>1, <3>2
    <2>2. ItemsOf(all, Under(content, x.path))
        BY <1>6 DEF ItemsOf
    <2>3. NoDrafts(Under(content, x.path))
        BY <1>1, NoDraftKinds
    <2>4. imp \notin CitationImps
        BY DEF CitationImps
    <2> HIDE DEF all
    <2> QED BY <2>1, <2>2, <2>3, <2>4, AllListed
<1>9. Describes(i)
    <2>1. i.root => BuildWbConfig(imp, content, i.id) = Keyed(content, {"folder"}, i.id)
        BY DEF BuildWbConfig, DriveWb, OneDriveWb
    <2>2. i.root => i.type = "folder"
        BY <1>1 DEF FileOrFolder
    <2> QED BY <1>5, <2>1, <2>2 DEF Describes
<1>10. Answers(i)
    <2> SUFFICES ASSUME NEW type \in Types(imp), NEW x \in Now(i.of), i.type \in {"folder", "collection"}
                 PROVE  ListChildItems(imp, content, i.id, type) # {}
        BY DEF Answers, IsListed
    <2>1. CASE imp = "googledrive"
        BY <2>1 DEF ListChildItems, DriveChildren
    <2>2. CASE imp = "onedrive"
        <3>1. x \in Keyed(content, {"folder"}, i.id)
            BY <1>1, <1>5 DEF FileOrFolder
        <3> QED BY <2>2, <3>1 DEF ListChildItems, OneDriveChildren
    <2> QED BY <2>1, <2>2
<1> QED BY <1>7, <1>8, <1>9, <1>10

(* Something is in at most one other thing. *)
LEMMA ParentIs ==
    ASSUME NEW c, Tree(c), NEW x \in c, NEW p \in c, NEW q \in c, IsIn(x, p), IsIn(x, q)
    PROVE  p = q
<1>1. p.path \in Seq(Names) /\ q.path \in Seq(Names) /\ x.path \in Seq(Names)
    BY ThingPath DEF Tree
<1>2. Len(p.path) = Len(q.path) /\ IsPrefix(p.path, x.path) /\ IsPrefix(q.path, x.path)
    BY <1>1 DEF IsIn
<1>3. IsPrefix(p.path, q.path)
    BY <1>1, <1>2, PrefixOfPrefix
<1>4. p.path = q.path
    BY <1>1, <1>2, <1>3, PrefixItself
<1> QED BY <1>4 DEF Tree

LEMMA UnderIs ==
    ASSUME NEW c, NEW o
    PROVE  \A x : x \in Under(c, o.path) <=> x \in c /\ IsIn(x, o)
BY DEF Under, IsIn

LEMMA UnderHasPath ==
    ASSUME NEW c, Tree(c)
    PROVE  \A path \in Seq(Names) : \A x \in Under(c, path) : x \in c /\ x.path # <<>>
<1> SUFFICES ASSUME NEW path \in Seq(Names), NEW x \in Under(c, path)
             PROVE  x \in c /\ x.path # <<>>
    OBVIOUS
<1>1. x \in c /\ Len(x.path) = Len(path) + 1
    BY DEF Under
<1>2. x \in Things /\ Len(path) \in Nat
    BY <1>1 DEF Tree
<1>3. Len(x.path) # 0
    BY <1>1, <1>2
<1> QED BY <1>1, <1>2, <1>3, NoPath

(* What may be in a thing of some kind. *)
LEMMA PlacedUnder ==
    ASSUME NEW c, Tree(c), NEW holds, Placed(c, holds), NEW o \in c, NEW x \in Under(c, o.path)
    PROVE  <<o.kind, x.kind>> \in holds
<1>1. x \in c /\ IsIn(x, o) /\ x.path # <<>>
    <2>1. x \in c /\ IsIn(x, o)
        BY UnderIs
    <2>2. Len(x.path) > 0
        BY <2>1, ThingPath DEF Tree, IsIn
    <2> QED BY <2>1, <2>2, NoPath DEF Tree
<1>2. PICK p \in c : IsIn(x, p) /\ <<p.kind, x.kind>> \in holds
    BY <1>1 DEF Placed
<1> QED BY <1>1, <1>2, ParentIs

LEMMA FileTypes ==
    ASSUME imp \notin CitationImps, imp # "link"
    PROVE  Types(imp) = {"any", "file", "folder"}
BY DEF Types, ItemTypes

LEMMA FrontIs ==
    ASSUME NEW x \in Things, NEW a \in Things, IsIn(x, a)
    PROVE  Front(x.path) = a.path
<1> DEFINE n == Len(a.path)
<1>1. x.path \in Seq(Names) /\ a.path \in Seq(Names) /\ n \in Nat
    BY ThingPath
<1>2. Len(x.path) = n + 1 /\ \A k \in 1..n : a.path[k] = x.path[k]
    BY <1>1, PathPrefix DEF IsIn
<1>3. /\ Front(x.path) \in Seq(Names)
      /\ Len(Front(x.path)) = n
      /\ \A k \in 1..n : Front(x.path)[k] = x.path[k]
    BY <1>1, <1>2 DEF Front
<1> QED BY <1>1, <1>2, <1>3, SeqEqual

LEMMA FigshareFound ==
    ASSUME imp = "figshare", NEW d, NEW o, NEW i, Origin(d, o, i)
    PROVE  /\ FigshareAt(content, i.id) = Now(i.of)
           /\ i.type = FileOrFolder(o)
           /\ i.id # <<>>
           /\ i.type = "folder" => o.kind \in {"project", "article"} /\ i.id = <<o.kind, "/", o.key>>
<1>1. KeysOfKindDiffer(d) /\ KeysOfKindDiffer(content) /\ FigshareForm(d, i, o)
    BY DEF Origin, WellFormed, Form
<1>2. CASE o.kind \in {"project", "article"} /\ Named(i, <<o.kind, "/", o.key>>, "folder")
    <2>1. /\ i.id # <<>> /\ i.id = <<o.kind, "/", o.key>> /\ i.type = "folder"
          /\ Len(i.id) = 3 /\ i.id[1] = o.kind /\ i.id[2] = "/" /\ i.id[3] = o.key
        BY <1>2 DEF Named
    <2>2. FigshareAt(content, i.id) = Keyed(content, {i.id[1]}, <<i.id[3]>>)
        <3>1. ~(Len(i.id) = 7 /\ i.id[1] = "article" /\ i.id[5] = "files")
            BY <2>1
        <3> QED BY <1>2, <2>1, <3>1, Zenon DEF FigshareAt
    <2>3. Keyed(content, {o.kind}, <<o.key>>) = Now(i.of)
        BY <1>1, FoundByKind
    <2> QED BY <1>2, <2>1, <2>2, <2>3 DEF FileOrFolder
<1>3. ASSUME o.kind = "file", NEW a \in d, IsIn(o, a), a.kind = "article",
             Named(i, <<"article", "/", a.key, "/", "files", "/", o.key>>, "file")
      PROVE  FigshareAt(content, i.id) = Now(i.of) /\ i.type = "file" /\ i.id # <<>>
    <2>1. /\ i.id # <<>> /\ i.type = "file"
          /\ Len(i.id) = 7 /\ i.id[1] = "article" /\ i.id[5] = "files" /\ i.id[3] = a.key /\ i.id[7] = o.key
        BY <1>3 DEF Named
    <2>2. FigshareAt(content, i.id)
            = {x \in Keyed(content, {"file"}, <<o.key>>) : FigshareParent(content, x) = Keyed(content, {"article"}, <<a.key>>)}
        <3>1. ~(Len(i.id) = 3 /\ i.id[1] \in {"article", "project"} /\ i.id[2] = "/")
            BY <2>1
        <3>2. FigshareAt(content, i.id)
                = {x \in Keyed(content, {"file"}, <<i.id[7]>>) : FigshareParent(content, x) = Keyed(content, {"article"}, <<i.id[3]>>)}
            BY <2>1, <3>1, Zenon DEF FigshareAt
        <3> QED BY <2>1, <3>2
    <2>3. Keyed(content, {"file"}, <<o.key>>) = Now(i.of)
        BY <1>1, <1>3, FoundByKind
    <2>4. ASSUME NEW x \in Now(i.of)
          PROVE  FigshareParent(content, x) = Keyed(content, {"article"}, <<a.key>>)
        <3>1. x \in content /\ SameThing(x, o) /\ Tree(d) /\ Tree(content) /\ o \in d
            BY OriginIs
        <3>2. PICK b \in content : SameThing(b, a)
            BY <1>3, <3>1 DEF Origin, LeftOf, IsIn
        <3>3. IsIn(x, b)
            <4>1. LeftOf(d, content)
                BY DEF Origin
            <4> QED BY <1>3, <3>1, <3>2, <4>1, LeftPair
        <3>4. Front(x.path) = b.path
            BY <3>1, <3>3, FrontIs DEF Tree
        <3>5. At(content, b.path) = {b}
            BY <3>1 DEF At, Tree
        <3>6. b.kind = "article" /\ b.key = a.key
            BY <1>3, <3>2 DEF SameThing
        <3>7. Keyed(content, {"article"}, <<a.key>>) = {b}
            BY <1>1, <3>6 DEF Keyed, KeysOfKindDiffer, Alike
        <3> QED BY <3>4, <3>5, <3>7 DEF FigshareParent
    <2> QED BY <2>1, <2>2, <2>3, <2>4
<1> QED BY <1>1, <1>2, <1>3 DEF FigshareForm, FileOrFolder

FigshareHolds == {<<"account", "project">>, <<"account", "article">>, <<"project", "article">>, <<"article", "file">>}

LEMMA FigshareLeads ==
    ASSUME imp = "figshare", NEW d, NEW o, NEW i, Origin(d, o, i)
    PROVE  Opens(i) /\ Lists(i) /\ Answers(i) /\ Describes(i)
<1>1. /\ KeysOfKindDiffer(d) /\ Tree(content) /\ Placed(content, FigshareHolds)
      /\ i.root => i.type \in {"folder", "collection"}
    BY DEF Origin, WellFormed, Form, FigshareHolds
<1>2. /\ \A x \in Now(i.of) : x \in content /\ x.oid = i.of /\ x.kind = o.kind
      /\ \A x, y \in Now(i.of) : x = y
    BY OriginIs DEF Now, SameThing
<1>3. /\ FigshareAt(content, i.id) = Now(i.of)
      /\ i.type = FileOrFolder(o)
      /\ i.id # <<>>
      /\ i.type = "folder" => o.kind \in {"project", "article"} /\ i.id = <<o.kind, "/", o.key>>
    BY FigshareFound
<1>4. \A x : FigshareItem(content, x).of = x.oid /\ FigshareItem(content, x).type = FileOrFolder(x)
    BY DEF FigshareItem, Item, FileOrFolder
<1>5. Opens(i)
    <2>1. GetItemInfo(imp, content, i.id) = {FigshareItem(content, x) : x \in Now(i.of)}
        BY <1>3 DEF GetItemInfo, FigshareInfo
    <2>2. \A x \in Now(i.of) : FileOrFolder(x) = i.type
        BY <1>2, <1>3 DEF FileOrFolder
    <2> QED BY <1>2, <1>4, <2>1, <2>2 DEF Opens
<1>6. Lists(i)
    <2> SUFFICES ASSUME NEW type \in Types(imp), NEW items \in ListChildItems(imp, content, i.id, type),
                        NEW x \in Now(i.of), i.type = "folder"
                 PROVE  {y.of : y \in items} = Expected(x, Asked(i, type))
        BY <1>3 DEF Lists, IsListed, FileOrFolder
    <2> DEFINE under == Under(content, x.path)
               all == {FigshareItem(content, y) : y \in under}
               match == {p \in Now(i.of) : (p.kind = "article" /\ type # "folder") \/ (p.kind = "project" /\ type # "file")}
    <2>0. items \in FigshareChildren(content, i.id, type)
        BY DEF ListChildItems
    <2>1. items = {FigshareItem(content, y) : y \in UNION {Under(content, p.path) : p \in match}}
        BY <1>3, <2>0, Zenon DEF FigshareChildren
    <2>2. Now(i.of) = {x} /\ x \in content /\ x.kind \in {"project", "article"}
        BY <1>2, <1>3
    <2>3. \A y \in under : <<x.kind, y.kind>> \in FigshareHolds
        BY <1>1, <2>2, PlacedUnder
    <2>4. \A y \in under : y.kind = IF x.kind = "article" THEN "file" ELSE "article"
        BY <2>2, <2>3 DEF FigshareHolds
    <2>5. type \in {"any", "file", "folder"} /\ imp \notin CitationImps /\ Asked(i, type) = type
        BY FileTypes DEF CitationImps, Asked
    <2>6. items = OfType(all, type)
        <3>1. CASE (x.kind = "article" /\ type # "folder") \/ (x.kind = "project" /\ type # "file")
            <4>1. match = {x}
                BY <2>2, <3>1
            <4>2. UNION {Under(content, p.path) : p \in {x}} = under
                OBVIOUS
            <4>3. items = all
                BY <2>1, <4>1, <4>2
            <4>4. \A y \in all : type \in {"any", y.type}
                BY <1>4, <2>2, <2>4, <2>5, <3>1 DEF FileOrFolder
            <4> HIDE DEF all
            <4> QED BY <4>3, <4>4 DEF OfType
        <3>2. CASE ~((x.kind = "article" /\ type # "folder") \/ (x.kind = "project" /\ type # "file"))
            <4>1. match = {}
                BY <2>2, <3>2
            <4>2. items = {}
                BY <2>1, <4>1
            <4>3. (x.kind = "article" /\ type = "folder") \/ (x.kind = "project" /\ type = "file")
                BY <2>2, <2>5, <3>2
            <4>4. \A y \in under : FileOrFolder(y) # type /\ type # "any"
                BY <2>4, <4>3 DEF FileOrFolder
            <4>5. \A y \in all : type \notin {"any", y.type}
                BY <1>4, <4>4
            <4> HIDE DEF all
            <4> QED BY <4>2, <4>5 DEF OfType
        <3> QED BY <3>1, <3>2
    <2>7. ItemsOf(all, under)
        BY <1>4 DEF ItemsOf
    <2>8. NoDrafts(under)
        BY <2>4 DEF NoDrafts
    <2> HIDE DEF all
    <2> QED BY <2>5, <2>6, <2>7, <2>8, AllListed
<1>7. Describes(i)
    <2> SUFFICES ASSUME i.root
                 PROVE  FigshareWb(content, i.id) = Now(i.of)
        BY DEF Describes, BuildWbConfig
    <2>1. o.kind \in {"project", "article"} /\ i.id = <<o.kind, "/", o.key>>
        BY <1>1, <1>3 DEF FileOrFolder
    <2>2. Len(i.id) = 3 /\ i.id[1] = o.kind /\ i.id[3] = o.key
        BY <2>1
    <2>3. {"project", "article"} \cap {i.id[1]} = {o.kind} /\ ~(Len(i.id) < 3)
        <3>1. i.id[1] = o.kind /\ o.kind \in {"project", "article"} /\ ~(Len(i.id) < 3)
            BY <2>1, <2>2
        <3> QED BY <3>1, Zenon
    <2>4. FigshareWb(content, i.id) = Keyed(content, {o.kind}, <<o.key>>)
        BY <2>2, <2>3 DEF FigshareWb
    <2> QED BY <1>1, <2>4, FoundByKind
<1>8. Answers(i)
    BY DEF Answers, ListChildItems, FigshareChildren
<1> QED BY <1>5, <1>6, <1>7, <1>8

DataverseHolds ==
    {<<"account", "dataverse">>, <<"dataverse", "dataverse">>, <<"dataverse", "dataset">>, <<"dataset", "file">>}

LEMMA DataverseFound ==
    ASSUME imp = "dataverse", NEW d, NEW o, NEW i, Origin(d, o, i)
    PROVE  \/ i.id = <<>> /\ i.type = "folder" /\ o.path = <<>> /\ Account(content) = Now(i.of)
           \/ /\ i.id # <<>> /\ i.type = FileOrFolder(o) /\ o.kind \in DataverseKinds
              /\ i.root => o.kind = "dataset"
              /\ DataverseAt(content, i.id) = Now(i.of)
<1>1. KeysOfKindDiffer(d) /\ DataverseForm(i, o)
    BY DEF Origin, WellFormed, Form
<1>2. CASE IsAccount(i, o)
    BY <1>2, AccountIsNow DEF IsAccount, Named
<1>3. CASE /\ o.kind \in DataverseKinds
           /\ Named(i, <<o.kind, "/", o.key>>, FileOrFolder(o))
           /\ i.root => o.kind = "dataset"
    <2>1. /\ i.id # <<>> /\ i.id = <<o.kind, "/", o.key>> /\ i.type = FileOrFolder(o)
          /\ Len(i.id) = 3 /\ i.id[1] = o.kind /\ i.id[2] = "/" /\ i.id[3] = o.key
        BY <1>3 DEF Named
    <2>2. DataverseAt(content, i.id) = {x \in content : x.kind = o.kind /\ x.key = o.key}
        BY <1>3, <2>1 DEF DataverseAt
    <2>3. Keyed(content, {o.kind}, <<o.key>>) = Now(i.of)
        BY <1>1, FoundByKind
    <2>4. \A x \in Now(i.of) : x \in content /\ x.kind = o.kind /\ x.key = o.key
        BY OriginIs DEF SameThing
    <2>5. \A x \in content : x.kind = o.kind /\ x.key = o.key => x \in Keyed(content, {o.kind}, <<o.key>>)
        BY DEF Keyed
    <2>6. DataverseAt(content, i.id) = Now(i.of)
        BY <2>2, <2>3, <2>4, <2>5
    <2> QED BY <1>3, <2>1, <2>6
<1> QED BY <1>1, <1>2, <1>3 DEF DataverseForm

LEMMA DataverseLeads ==
    ASSUME imp = "dataverse", NEW d, NEW o, NEW i, Origin(d, o, i)
    PROVE  Opens(i) /\ Lists(i) /\ Answers(i) /\ Describes(i)
<1> DEFINE atRoot == i.id = <<>> /\ i.type = "folder" /\ o.path = <<>> /\ Account(content) = Now(i.of)
           below == /\ i.id # <<>> /\ i.type = FileOrFolder(o) /\ o.kind \in DataverseKinds
                    /\ i.root => o.kind = "dataset"
                    /\ DataverseAt(content, i.id) = Now(i.of)
<1>1. /\ AtLevel(content, "account", 0) /\ Tree(content) /\ Placed(content, DataverseHolds)
      /\ i.root => i.type \in {"folder", "collection"}
    BY DEF Origin, WellFormed, Form, DataverseHolds
<1>2. /\ \A x \in Now(i.of) : x \in content /\ x.oid = i.of /\ x.kind = o.kind
      /\ \A x, y \in Now(i.of) : x = y
    BY OriginIs DEF Now, SameThing
<1>3. atRoot \/ below
    BY DataverseFound
<1>4. \A x : DataverseItem(x).of = x.oid /\ DataverseItem(x).type = FileOrFolder(x)
    BY DEF DataverseItem, Item, NotRoot
<1>5. Opens(i)
    <2>1. CASE atRoot
        <3>1. GetItemInfo(imp, content, i.id) = {Item(<<>>, "folder", x) : x \in Now(i.of)}
            BY <2>1 DEF GetItemInfo, DataverseInfo
        <3>2. \A x : Item(<<>>, "folder", x).of = x.oid /\ Item(<<>>, "folder", x).type = "folder"
            BY DEF Item
        <3> QED BY <1>2, <2>1, <3>1, <3>2 DEF Opens
    <2>2. CASE below
        <3>1. GetItemInfo(imp, content, i.id) = {DataverseItem(x) : x \in Now(i.of)}
            BY <2>2 DEF GetItemInfo, DataverseInfo
        <3>2. \A x \in Now(i.of) : FileOrFolder(x) = i.type
            BY <1>2, <2>2 DEF FileOrFolder
        <3> QED BY <1>2, <1>4, <3>1, <3>2 DEF Opens
    <2> QED BY <1>3, <2>1, <2>2
<1>6. Lists(i)
    <2> SUFFICES ASSUME NEW type \in Types(imp), NEW items \in ListChildItems(imp, content, i.id, type),
                        NEW x \in Now(i.of), i.type = "folder"
                 PROVE  {y.of : y \in items} = Expected(x, Asked(i, type))
        BY <1>3 DEF Lists, IsListed, FileOrFolder
    <2> DEFINE under == Under(content, x.path)
               all == {DataverseItem(y) : y \in under}
    <2>0. items \in DataverseChildren(content, i.id, type)
        BY DEF ListChildItems
    <2>1. Now(i.of) = {x} /\ x \in content /\ x.kind = o.kind /\ (x.path = <<>> <=> o.path = <<>>)
        BY <1>2, OriginIs
    <2>2. \A y \in under : <<x.kind, y.kind>> \in DataverseHolds
        BY <1>1, <2>1, PlacedUnder
    <2>3. ItemsOf(all, under)
        BY <1>4 DEF ItemsOf
    <2>4. NoDrafts(under)
        BY <2>2 DEF NoDrafts, DataverseHolds
    <2>5. imp \notin CitationImps /\ type \in {"any", "file", "folder"}
        BY FileTypes DEF CitationImps
    <2>6. CASE atRoot
        <3>1. x.path = <<>> /\ x.kind = "account"
            BY <1>1, <2>1, <2>6, NoPath DEF AtLevel, Tree
        <3>2. under = {y \in Under(content, <<>>) : y.kind = "dataverse"}
            BY <2>2, <3>1 DEF DataverseHolds
        <3>3. items \in DataverseRoots(content)
            BY <2>0, <2>6 DEF DataverseChildren
        <3>4. items = all
            BY <3>2, <3>3 DEF DataverseRoots
        <3>5. Asked(i, type) = "any"
            BY <2>6 DEF Asked
        <3> HIDE DEF all
        <3> QED BY <2>3, <2>4, <2>5, <3>4, <3>5, AllListed
    <2>7. CASE below
        <3> DEFINE match == {p \in Now(i.of) : (p.kind = "dataverse" /\ type # "file") \/ (p.kind = "dataset" /\ type # "folder")}
        <3>1. items = {DataverseItem(y) : y \in UNION {Under(content, p.path) : p \in match}}
            BY <2>0, <2>7, Zenon DEF DataverseChildren
        <3>2. x.kind \in {"dataverse", "dataset"}
            BY <2>1, <2>7 DEF DataverseKinds, FileOrFolder
        <3>3. \A y \in under : IF x.kind = "dataset" THEN y.kind = "file" ELSE y.kind \in {"dataverse", "dataset"}
            BY <2>2, <3>2 DEF DataverseHolds
        <3>4. Asked(i, type) = type
            BY <2>7 DEF Asked
        <3>5. items = OfType(all, type)
            <4>1. CASE (x.kind = "dataverse" /\ type # "file") \/ (x.kind = "dataset" /\ type # "folder")
                <5>1. match = {x}
                    BY <2>1, <4>1
                <5>2. UNION {Under(content, p.path) : p \in {x}} = under
                    OBVIOUS
                <5>3. items = all
                    BY <3>1, <5>1, <5>2
                <5>4. \A y \in all : type \in {"any", y.type}
                    BY <1>4, <2>5, <3>3, <4>1 DEF FileOrFolder
                <5> HIDE DEF all
                <5> QED BY <5>3, <5>4 DEF OfType
            <4>2. CASE ~((x.kind = "dataverse" /\ type # "file") \/ (x.kind = "dataset" /\ type # "folder"))
                <5>1. match = {}
                    BY <2>1, <4>2
                <5>2. items = {}
                    BY <3>1, <5>1
                <5>3. (x.kind = "dataset" /\ type = "folder") \/ (x.kind = "dataverse" /\ type = "file")
                    BY <2>5, <3>2, <4>2
                <5>4. \A y \in under : FileOrFolder(y) # type /\ type # "any"
                    BY <3>3, <5>3 DEF FileOrFolder
                <5>5. \A y \in all : type \notin {"any", y.type}
                    BY <1>4, <5>4
                <5> HIDE DEF all
                <5> QED BY <5>2, <5>5 DEF OfType
            <4> QED BY <4>1, <4>2
        <3> HIDE DEF all
        <3> QED BY <2>3, <2>4, <2>5, <3>4, <3>5, AllListed
    <2> QED BY <1>3, <2>6, <2>7
<1>7. Describes(i)
    <2> SUFFICES ASSUME DescribesRoot(i), i.root
                 PROVE  DataverseWb(content, i.id) = Now(i.of)
        BY DEF Describes, BuildWbConfig
    <2>1. below
        BY <1>3 DEF DescribesRoot
    <2> QED BY <1>2, <2>1 DEF DataverseWb
<1>8. Answers(i)
    <2> SUFFICES ASSUME NEW type \in Types(imp)
                 PROVE  DataverseChildren(content, i.id, type) # {}
        BY DEF Answers, ListChildItems
    <2> QED BY Zenon DEF DataverseChildren, DataverseRoots
<1> QED BY <1>5, <1>6, <1>7, <1>8

LEMMA LinkFound ==
    ASSUME imp = "link", NEW d, NEW o, NEW i, Origin(d, o, i)
    PROVE  \/ i.id = <<>> /\ i.type = "folder" /\ o.path = <<>> /\ Account(content) = Now(i.of)
           \/ /\ i.id # <<>> /\ i.type = LinkType(o)
              /\ LinkAt(content, i.id) = Now(i.of)
              /\ \A x \in Now(i.of) : x.alias # NoAlias /\ x.alias = i.id[3]
<1>1. PagesDiffer(d) /\ LinkForm(i, o) /\ o \in d
    BY DEF Origin, WellFormed, Form
<1>2. CASE IsAccount(i, o)
    BY <1>2, AccountIsNow DEF IsAccount, Named
<1>3. CASE o.kind \in DataverseKinds /\ o.alias # NoAlias /\ Named(i, <<o.kind, "/", o.alias>>, LinkType(o))
    <2>1. /\ i.id # <<>> /\ i.type = LinkType(o)
          /\ Len(i.id) = 3 /\ i.id[1] = o.kind /\ i.id[3] = o.alias
        BY <1>3 DEF Named
    <2>2. LinkAt(content, i.id)
            = {x \in content : x.kind = o.kind /\ (x.alias = o.alias \/ (x.kind = "dataverse" /\ x.key = o.alias))}
        BY <1>3, <2>1 DEF LinkAt
    <2>3. ASSUME NEW x \in content
          PROVE  x.kind = o.kind /\ (x.alias = o.alias \/ (x.kind = "dataverse" /\ x.key = o.alias)) <=> x \in Now(i.of)
        <3>1. PICK u \in d : SameThing(x, u) /\ (x \in Now(i.of) <=> u = o)
            BY Sources
        <3>2. u.kind = o.kind /\ (u.alias = o.alias \/ (u.kind = "dataverse" /\ u.key = o.alias)) <=> u = o
            BY <1>1, <1>3 DEF PagesDiffer
        <3> QED BY <3>1, <3>2 DEF SameThing
    <2>4. \A x \in Now(i.of) : x \in content /\ x.alias = o.alias
        BY OriginIs DEF SameThing
    <2>5. LinkAt(content, i.id) = Now(i.of)
        BY <2>2, <2>3, <2>4
    <2> QED BY <1>3, <2>1, <2>4, <2>5
<1> QED BY <1>1, <1>2, <1>3 DEF LinkForm

LEMMA LinkLeads ==
    ASSUME imp = "link", NEW d, NEW o, NEW i, Origin(d, o, i)
    PROVE  Opens(i) /\ Lists(i) /\ Answers(i) /\ Describes(i)
<1> DEFINE atRoot == i.id = <<>> /\ i.type = "folder" /\ o.path = <<>> /\ Account(content) = Now(i.of)
           below == /\ i.id # <<>> /\ i.type = LinkType(o)
                    /\ LinkAt(content, i.id) = Now(i.of)
                    /\ \A x \in Now(i.of) : x.alias # NoAlias /\ x.alias = i.id[3]
           item(x) == Item(<<x.kind, "/", x.alias>>, LinkType(x), x)
<1>1. /\ Tree(content)
      /\ \A x \in content : Len(x.path) = 1 => x.kind \in {"dataverse", "draft"}
    BY DEF Origin, WellFormed
<1>2. /\ \A x \in Now(i.of) : x \in content /\ x.oid = i.of /\ x.kind = o.kind
      /\ \A x, y \in Now(i.of) : x = y
    BY OriginIs DEF Now, SameThing
<1>3. atRoot \/ below
    BY LinkFound
<1>4. \A x : item(x).of = x.oid /\ item(x).type = LinkType(x)
    BY DEF Item
<1>0. ASSUME NEW things, NEW items \in LinkItems(things)
      PROVE  items = {item(x) : x \in things}
    BY <1>0 DEF LinkItems
<1>5. Opens(i)
    <2>1. CASE atRoot
        <3>1. GetItemInfo(imp, content, i.id) = {Item(<<>>, "folder", x) : x \in Now(i.of)}
            BY <2>1 DEF GetItemInfo, LinkInfo
        <3>2. \A x : Item(<<>>, "folder", x).of = x.oid /\ Item(<<>>, "folder", x).type = "folder"
            BY DEF Item
        <3> QED BY <1>2, <2>1, <3>1, <3>2 DEF Opens
    <2>2. CASE below
        <3>1. GetItemInfo(imp, content, i.id) = UNION {UNION LinkItems({x}) : x \in Now(i.of)}
            BY <2>2 DEF GetItemInfo, LinkInfo
        <3>2. \A x \in Now(i.of) : LinkItems({x}) = {{item(x)}}
            BY <2>2 DEF LinkItems
        <3>3. \A x \in Now(i.of) : LinkType(x) = i.type
            BY <1>2, <2>2 DEF LinkType
        <3> HIDE DEF item
        <3>5. \A x \in Now(i.of) : UNION LinkItems({x}) = {item(x)}
            BY <3>2
        <3>4. \A y : y \in GetItemInfo(imp, content, i.id) <=> \E x \in Now(i.of) : y = item(x)
            BY <3>1, <3>5, Zenon
        <3> QED BY <1>2, <1>4, <3>3, <3>4 DEF Opens
    <2> QED BY <1>3, <2>1, <2>2
<1>6. Lists(i)
    <2> SUFFICES ASSUME NEW type \in Types(imp), NEW items \in ListChildItems(imp, content, i.id, type),
                        NEW x \in Now(i.of)
                 PROVE  {y.of : y \in items} = Expected(x, Asked(i, type))
        BY DEF Lists, IsListed
    <2> DEFINE shown == {y \in Under(content, x.path) : y.kind # "draft"}
    <2>0. items \in LinkChildren(content, i.id, type)
        BY DEF ListChildItems
    <2>1. Now(i.of) = {x} /\ x \in content /\ (x.path = <<>> <=> o.path = <<>>)
        BY <1>2, OriginIs
    <2>2. items = {item(y) : y \in shown}
        <3>1. CASE atRoot
            <4>1. items \in LinkRoots(content)
                BY <2>0, <3>1 DEF LinkChildren
            <4>2. \A y \in Under(content, <<>>) : y.kind # "draft" <=> y.kind = "dataverse"
                BY <1>1 DEF Under
            <4>3. {y \in Under(content, <<>>) : y.kind = "dataverse"} = shown
                BY <2>1, <3>1, <4>2
            <4>4. items \in LinkItems(shown)
                BY <4>1, <4>3 DEF LinkRoots
            <4> HIDE DEF item, shown
            <4> QED BY <1>0, <4>4
        <3>2. CASE below
            <4>1. items \in LinkItems(shown)
                BY <2>0, <2>1, <3>2 DEF LinkChildren
            <4> HIDE DEF item, shown
            <4> QED BY <1>0, <4>1
        <3> QED BY <1>3, <3>1, <3>2
    <2>3. Asked(i, type) = "any" /\ imp \notin CitationImps
        BY DEF Asked, CitationImps
    <2>4. Expected(x, "any") = {y.oid : y \in shown}
        BY <2>3, ExpectedFiles
    <2> HIDE DEF item, shown
    <2>5. {y.of : y \in items} = {y.oid : y \in shown}
        BY <1>4, <2>2
    <2> QED BY <2>3, <2>4, <2>5
<1>7. Describes(i)
    <2> SUFFICES ASSUME DescribesRoot(i)
                 PROVE  LinkUrl(content, i.id) = Now(i.of)
        BY DEF Describes, BuildWbConfig
    <2>1. below
        BY <1>3 DEF DescribesRoot
    <2> QED BY <2>1 DEF LinkUrl
<1>8. Answers(i)
    <2> SUFFICES ASSUME NEW type \in Types(imp), NEW x \in Now(i.of), ~Refused(x)
                 PROVE  LinkChildren(content, i.id, type) # {}
        BY DEF Answers, ListChildItems
    <2> DEFINE shown == {y \in Under(content, x.path) : y.kind # "draft"}
    <2>1. LinkItems(shown) = {{item(y) : y \in shown}}
        BY DEF Refused, LinkItems
    <2>2. CASE atRoot
        <3>1. x.path = <<>>
            BY <2>2 DEF Account, At
        <3>2. \A y \in Under(content, <<>>) : y.kind # "draft" <=> y.kind = "dataverse"
            BY <1>1 DEF Under
        <3>3. {y \in Under(content, <<>>) : y.kind = "dataverse"} = shown
            BY <3>1, <3>2
        <3> HIDE DEF item, shown
        <3> QED BY <2>1, <2>2, <3>3 DEF LinkChildren, LinkRoots
    <2>3. CASE below
        <3>1. LinkChildren(content, i.id, type)
                = UNION {LinkItems({y \in Under(content, z.path) : y.kind # "draft"}) : z \in {x}}
            BY <1>2, <2>3 DEF LinkChildren
        <3>2. LinkChildren(content, i.id, type) = LinkItems(shown)
            BY <3>1
        <3> HIDE DEF item, shown
        <3> QED BY <2>1, <3>2
    <2> QED BY <1>3, <2>2, <2>3
<1> QED BY <1>5, <1>6, <1>7, <1>8

(* The library of a collection or document. *)
IsLibraryOf(c, l, x) == l \in c /\ l.kind = "library" /\ IsPrefix(l.path, x.path)

LEMMA LibraryIs ==
    ASSUME NEW c, Tree(c), InLibraries(c), NEW x \in c, NEW l, IsLibraryOf(c, l, x)
    PROVE  ZoteroLibrary(c, x) = l /\ x.path # <<>>
<1>1. x.path \in Seq(Names) /\ l.path \in Seq(Names) /\ Len(l.path) = 1 /\ Len(x.path) \in Nat
    BY ThingPath DEF Tree, InLibraries, AtLevel, IsLibraryOf
<1>2. Len(x.path) >= 1 /\ l.path[1] = x.path[1]
    BY <1>1, PathPrefix DEF IsLibraryOf
<1>3. SubSeq(x.path, 1, 1) = <<x.path[1]>>
    BY <1>1, <1>2, OneOf
<1>4. l.path = <<x.path[1]>>
    BY <1>1, <1>2
<1>5. At(c, l.path) = {l}
    BY DEF At, Tree, IsLibraryOf
<1>6. ZoteroLibrary(c, x) = CHOOSE k \in {l} : TRUE
    BY <1>3, <1>4, <1>5 DEF ZoteroLibrary
<1>7. x.path # <<>>
    BY <1>1, <1>2
<1> QED BY <1>6, <1>7

LEMMA LibraryStays ==
    ASSUME NEW d, Tree(d), NEW c, Tree(c), LeftOf(d, c), InLibraries(c),
           NEW x \in c, NEW u \in d, SameThing(x, u), NEW l, IsLibraryOf(d, l, u)
    PROVE  \E m : IsLibraryOf(c, m, x) /\ SameThing(m, l) /\ ZoteroLibrary(c, x).key = l.key
<1>1. l \in d /\ IsPrefix(l.path, u.path)
    BY DEF IsLibraryOf
<1>2. PICK m \in c : SameThing(m, l)
    BY <1>1 DEF LeftOf
<1>3. IsPrefix(m.path, x.path)
    BY <1>1, <1>2, LeftPair
<1>4. IsLibraryOf(c, m, x) /\ m.key = l.key
    BY <1>2, <1>3 DEF IsLibraryOf, SameThing
<1>5. ZoteroLibrary(c, x) = m
    BY <1>4, LibraryIs
<1> QED BY <1>2, <1>4, <1>5

(* Collections and documents with one key in one library. *)
LEMMA LibraryKeys ==
    ASSUME NEW d, InLibraries(d), NEW o \in d, NEW u \in d, NEW l, IsLibraryOf(d, l, o), NEW m, IsLibraryOf(d, m, u),
           l.key = m.key, o.kind = u.kind, Alike(o, u)
    PROVE  o = u
<1>1. l = m
    BY DEF IsLibraryOf, InLibraries
<1>2. l \in d /\ l.kind = "library"
    BY DEF IsLibraryOf
<1>3. KeysOfKindDiffer({x \in d : IsPrefix(l.path, x.path)})
    BY <1>2 DEF InLibraries
<1>4. IsPrefix(l.path, o.path) /\ IsPrefix(l.path, u.path)
    BY <1>1 DEF IsLibraryOf
<1> QED BY <1>3, <1>4 DEF KeysOfKindDiffer

(* What Zotero finds by the library and the key in an id. *)
DocumentFound(c, library, key) ==
    {x \in Keyed(c, {"document"}, <<key>>) : ZoteroLibrary(c, x).key = library}

LEMMA ZoteroFound ==
    ASSUME imp = "zotero", NEW d, NEW o, NEW i, Origin(d, o, i), NEW l, IsLibraryOf(d, l, o)
    PROVE  /\ o.kind = "library" => ZoteroResolve(content, o.key, "ROOT") = Now(i.of)
           /\ o.kind = "collection" => ZoteroResolve(content, l.key, o.key) = Now(i.of)
           /\ o.kind = "document" => DocumentFound(content, l.key, o.key) = Now(i.of)
<1>1. /\ InLibraries(d) /\ InLibraries(content) /\ AtLevel(content, "account", 0)
      /\ Tree(d) /\ Tree(content) /\ o \in d /\ LeftOf(d, content)
    BY OriginIs DEF Origin, WellFormed
<1>2. o.kind = "collection" => o.key # "ROOT"
    BY <1>1 DEF InLibraries
<1> DEFINE lk(x) == ZoteroLibrary(content, x).key
<1>3. ASSUME NEW x \in content, x \notin Account(content) \/ x \in Now(i.of)
      PROVE  /\ x.kind = "library" /\ o.kind = "library" => (lk(x) = o.key <=> x \in Now(i.of))
             /\ x.kind = o.kind /\ lk(x) = l.key /\ o.key \in {x.key, x.alias} <=> x \in Now(i.of)
             /\ x \notin Account(content)
             /\ x \in Now(i.of) => x.kind = o.kind /\ x.key = o.key
    <2>1. PICK u \in d : SameThing(x, u) /\ (x \in Now(i.of) <=> u = o)
        BY Sources
    <2>2. u = o => u.path # <<>>
        BY <1>1, LibraryIs
    <2>3. x.path = <<>> <=> u.path = <<>>
        BY <1>1, <2>1, LeftRoot DEF Tree
    <2>4. x.path # <<>>
        BY <1>3, <2>1, <2>2, <2>3 DEF Account, At
    <2>5. PICK m : IsLibraryOf(d, m, u)
        BY <1>1, <2>3, <2>4 DEF InLibraries, IsLibraryOf
    <2>6. lk(x) = m.key
        <3>1. \E n : IsLibraryOf(content, n, x) /\ SameThing(n, m) /\ ZoteroLibrary(content, x).key = m.key
            BY <1>1, <2>1, <2>5, LibraryStays
        <3> QED BY <3>1
    <2>7. u = o => m = l
        BY <1>1, <2>5, LibraryIs
    <2>8. u.kind = o.kind /\ m.key = l.key /\ o.key \in {u.key, u.alias} <=> u = o
        <3>1. u.kind = o.kind /\ m.key = l.key /\ o.key \in {u.key, u.alias} => u = o
            <4> SUFFICES ASSUME u.kind = o.kind, m.key = l.key, o.key \in {u.key, u.alias}
                         PROVE  u = o
                OBVIOUS
            <4>1. Alike(o, u)
                BY DEF Alike
            <4> QED BY <1>1, <2>5, <4>1, LibraryKeys
        <3> QED BY <2>7, <3>1
    <2>9. u.kind = "library" => m = u
        <3> SUFFICES ASSUME u.kind = "library"
                     PROVE  m = u
            OBVIOUS
        <3>1. u.path \in Seq(Names) /\ m.path \in Seq(Names) /\ Len(u.path) = 1 /\ Len(m.path) = 1
            BY <1>1, <2>5, ThingPath DEF Tree, InLibraries, AtLevel, IsLibraryOf
        <3>2. m.path = u.path
            BY <2>5, <3>1, PrefixItself DEF IsLibraryOf
        <3> QED BY <1>1, <2>5, <3>2 DEF Tree, IsLibraryOf
    <2>10. u.kind = "library" /\ o.kind = "library" => (u.key = o.key <=> u = o)
        BY <1>1 DEF InLibraries
    <2>11. x.kind = u.kind /\ x.key = u.key /\ x.alias = u.alias
        BY <2>1 DEF SameThing
    <2>12. x \notin Account(content)
        BY <2>4 DEF Account, At
    <2> HIDE DEF lk
    <2> QED BY <2>1, <2>6, <2>8, <2>9, <2>10, <2>11, <2>12
<1>4. Now(i.of) \subseteq content
    BY DEF Now
<1>5. o.kind = "library" => ZoteroResolve(content, o.key, "ROOT") = Now(i.of)
    <2>1. ZoteroResolve(content, o.key, "ROOT") = {x \in content \ Account(content) : lk(x) = o.key /\ x.kind = "library"}
        BY DEF ZoteroResolve
    <2> HIDE DEF lk
    <2> QED BY <1>3, <1>4, <2>1
<1>6. o.kind = "collection" => ZoteroResolve(content, l.key, o.key) = Now(i.of)
    <2>1. o.kind = "collection" => ZoteroResolve(content, l.key, o.key)
            = {x \in content \ Account(content) : lk(x) = l.key /\ x.kind = "collection" /\ x.key = o.key}
        BY <1>2 DEF ZoteroResolve
    <2> HIDE DEF lk
    <2> QED BY <1>3, <1>4, <2>1
<1>7. o.kind = "document" => DocumentFound(content, l.key, o.key) = Now(i.of)
    <2>0. DocumentFound(content, l.key, o.key) = {x \in Keyed(content, {"document"}, <<o.key>>) : lk(x) = l.key}
        BY DEF DocumentFound
    <2>1. Keyed(content, {"document"}, <<o.key>>) = {x \in content : x.kind = "document" /\ o.key \in {x.key, x.alias}}
        BY DEF Keyed
    <2>2. \A x \in content : x.kind = "document" => x \notin Account(content)
        BY <1>1, NoPath DEF Account, At, AtLevel, Tree
    <2> HIDE DEF lk
    <2> QED BY <1>3, <1>4, <2>0, <2>1, <2>2
<1> QED BY <1>5, <1>6, <1>7

(* A library is found by its own key, if no other has a key with this in it. *)
LEMMA ZoteroLibraryFound ==
    ASSUME imp = "zotero", NEW d, NEW o, NEW i, Origin(d, o, i), LeftOf(Content[imp], d), LeftOf(Content[imp], content),
           o.kind = "library", ~PartOfAnother(i)
    PROVE  ZoteroLibraries(content, o.key) = Now(i.of)
<1>1. i.of = o.oid /\ o \in d /\ \A x \in Now(i.of) : SameThing(x, o)
    BY OriginIs DEF Origin
<1>2. PICK m \in Content[imp] : SameThing(o, m)
    BY <1>1 DEF LeftOf
<1>3. \A k : Contained(k, k)
    BY DEF Contained
<1>4. ASSUME NEW x \in content, x.kind = "library", Contained(o.key, x.key)
      PROVE  x \in Now(i.of)
    <2>1. PICK u \in Content[imp] : SameThing(x, u)
        BY DEF LeftOf
    <2>2. m.oid = i.of /\ m.kind = "library" /\ u.kind = "library" /\ Contained(m.key, u.key) /\ u.oid = x.oid
        BY <1>1, <1>2, <1>4, <2>1 DEF SameThing
    <2>3. m = u
        BY <2>2 DEF PartOfAnother
    <2> QED BY <2>2, <2>3 DEF Now
<1>5. ZoteroLibraries(content, o.key) \subseteq Now(i.of)
    BY <1>3, <1>4 DEF ZoteroLibraries
<1>6. \A x \in Now(i.of) : x \in content /\ x.kind = "library" /\ x.key = o.key
    BY <1>1 DEF Now, SameThing
<1>7. Now(i.of) \subseteq ZoteroLibraries(content, o.key)
    BY <1>3, <1>6 DEF ZoteroLibraries
<1> QED BY <1>5, <1>7

LEMMA ZoteroLeads ==
    ASSUME imp = "zotero", NEW d, NEW o, NEW i, Origin(d, o, i), LeftOf(Content[imp], d), LeftOf(Content[imp], content)
    PROVE  (~PartOfAnother(i) => Opens(i)) /\ Lists(i) /\ Answers(i) /\ Describes(i)
<1> DEFINE type(x) == IF x.kind = "library" THEN "collection" ELSE x.kind
<1>1. /\ InLibraries(content) /\ AtLevel(content, "account", 0) /\ Tree(content) /\ Tree(d) /\ InLibraries(d)
      /\ OfKinds(content, {"account", "library", "collection", "document"})
      /\ ZoteroForm(d, i, o) /\ o \in d /\ o \in Things
    BY OriginIs DEF Origin, WellFormed, Form
<1>2. /\ \A x \in Now(i.of) : x \in content /\ x.oid = i.of /\ x.kind = o.kind
      /\ \A x, y \in Now(i.of) : x = y
    BY OriginIs DEF Now, SameThing
<1>3. \A x : ZoteroItem(content, x).of = x.oid /\ ZoteroItem(content, x).type = type(x)
    BY DEF ZoteroItem, Item
<1> DEFINE found == /\ ~PartOfAnother(i) => ZoteroInfo(content, i.id) = {ZoteroItem(content, x) : x \in Now(i.of)}
                    /\ i.type = type(o) /\ o.kind \in {"library", "collection", "document"}
                    /\ i.type = "collection" =>
                          ZoteroParses(i.id) /\ ZoteroResolve(content, i.id[3], i.id[5]) = Now(i.of)
<1>4. found
    <2>1. CASE o.kind = "library" /\ Named(i, <<"collection", ":", o.key, ":", "ROOT">>, "collection")
        <3>1. IsLibraryOf(d, o, o)
            BY <1>1, <2>1, PrefixItself, ThingPath DEF IsLibraryOf
        <3>2. ZoteroResolve(content, o.key, "ROOT") = Now(i.of)
            BY <2>1, <3>1, ZoteroFound
        <3>3. /\ Len(i.id) = 5 /\ i.id[1] = "collection" /\ i.id[2] = ":" /\ i.id[3] = o.key
              /\ i.id[4] = ":" /\ i.id[5] = "ROOT"
            BY <2>1 DEF Named
        <3>4. ZoteroParses(i.id)
            BY <3>3 DEF ZoteroParses
        <3>5. ~PartOfAnother(i) => ZoteroInfo(content, i.id) = {ZoteroItem(content, x) : x \in Now(i.of)}
            <4>1. ZoteroInfo(content, i.id) = {ZoteroItem(content, x) : x \in ZoteroLibraries(content, o.key)}
                BY <3>3, <3>4, Zenon DEF ZoteroInfo
            <4>2. ~PartOfAnother(i) => ZoteroLibraries(content, o.key) = Now(i.of)
                BY <2>1, ZoteroLibraryFound
            <4> QED BY <4>1, <4>2, Zenon
        <3>6. i.type = type(o) /\ o.kind \in {"library", "collection", "document"}
            BY <2>1 DEF Named
        <3>7. ZoteroResolve(content, i.id[3], i.id[5]) = Now(i.of)
            BY <3>2, <3>3
        <3> HIDE DEF type
        <3> QED BY <3>4, <3>5, <3>6, <3>7, Zenon
    <2>2. ASSUME o.kind \in {"collection", "document"}, NEW l, IsLibraryOf(d, l, o),
                 Named(i, <<o.kind, ":", l.key, ":", o.key>>, o.kind)
          PROVE  found
        <3>1. /\ Len(i.id) = 5 /\ i.id[1] = o.kind /\ i.id[2] = ":" /\ i.id[3] = l.key
              /\ i.id[4] = ":" /\ i.id[5] = o.key
            BY <2>2 DEF Named
        <3>2. ZoteroParses(i.id)
            BY <3>1 DEF ZoteroParses
        <3>3. CASE o.kind = "collection"
            <4>1. ZoteroResolve(content, l.key, o.key) = Now(i.of)
                BY <2>2, <3>3, ZoteroFound
            <4>2. o.key \notin {"ROOT", "None"}
                BY <1>1, <3>3 DEF InLibraries
            <4>3. ZoteroInfo(content, i.id) = {ZoteroItem(content, x) : x \in Now(i.of)}
                BY <3>1, <3>2, <3>3, <4>1, <4>2 DEF ZoteroInfo
            <4>4. i.type = type(o)
                BY <2>2, <3>3 DEF Named
            <4>5. ZoteroResolve(content, i.id[3], i.id[5]) = Now(i.of)
                BY <3>1, <4>1
            <4> HIDE DEF type
            <4> QED BY <3>2, <3>3, <4>3, <4>4, <4>5, Zenon
        <3>4. CASE o.kind = "document"
            <4>1. DocumentFound(content, l.key, o.key) = Now(i.of)
                BY <2>2, <3>4, ZoteroFound
            <4>2. ZoteroInfo(content, i.id) = {ZoteroItem(content, x) : x \in Now(i.of)}
                BY <3>1, <3>2, <3>4, <4>1 DEF ZoteroInfo, DocumentFound
            <4> QED BY <2>2, <3>4, <4>2 DEF Named
        <3> QED BY <2>2, <3>3, <3>4
    <2> QED BY <1>1, <2>1, <2>2 DEF ZoteroForm, IsLibraryOf
<1>5. ASSUME ~PartOfAnother(i) PROVE Opens(i)
    <2>1. GetItemInfo(imp, content, i.id) = {ZoteroItem(content, x) : x \in Now(i.of)}
        BY <1>4, <1>5 DEF GetItemInfo
    <2>2. \A x \in Now(i.of) : type(x) = i.type
        BY <1>2, <1>4
    <2> HIDE DEF type
    <2> QED BY <1>2, <1>3, <2>1, <2>2 DEF Opens
<1>6. Lists(i)
    <2> SUFFICES ASSUME NEW t \in Types(imp), NEW items \in ListChildItems(imp, content, i.id, t),
                        NEW x \in Now(i.of), i.type = "collection"
                 PROVE  {y.of : y \in items} = Expected(x, Asked(i, t))
        BY <1>4 DEF Lists, IsListed
    <2> DEFINE documents == {y \in IF x.kind = "library" THEN Below(content, x.path) ELSE Under(content, x.path) :
                                y.kind = "document" /\ t # "collection"}
               collections == {y \in Under(content, x.path) : y.kind = "collection" /\ t # "document"}
    <2>0. items \in ZoteroChildren(content, i.id, t)
        BY DEF ListChildItems
    <2>1. items = {ZoteroItem(content, y) : y \in documents \cup collections}
        <3>1. Now(i.of) = {x}
            BY <1>2
        <3>2. ZoteroResolve(content, i.id[3], i.id[5]) = {x} /\ ZoteroParses(i.id)
            BY <1>4, <3>1
        <3> QED BY <2>0, <3>2 DEF ZoteroChildren
    <2>2. x \in content /\ x.kind \in {"library", "collection"} /\ x.path # <<>> /\ x \in Things
        BY <1>1, <1>2, <1>4, NoPath DEF AtLevel, Tree
    <2>3. \A y \in Under(content, x.path) : y.kind \in {"collection", "document"} /\ y \in Below(content, x.path)
        <3> SUFFICES ASSUME NEW y \in Under(content, x.path)
                     PROVE  y.kind \in {"collection", "document"} /\ y \in Below(content, x.path)
            OBVIOUS
        <3>1. y \in content /\ Len(y.path) = Len(x.path) + 1 /\ IsPrefix(x.path, y.path)
            BY DEF Under
        <3>2. Len(x.path) \in Nat /\ Len(x.path) # 0
            BY <2>2, ThingPath, NoPath
        <3>3. Len(y.path) # 0 /\ Len(y.path) # 1 /\ Len(y.path) # Len(x.path)
            BY <3>1, <3>2
        <3>4. y.kind \in {"collection", "document"}
            BY <1>1, <3>1, <3>3 DEF OfKinds, AtLevel, InLibraries
        <3>5. y \in Below(content, x.path)
            BY <3>1, <3>3 DEF Below, IsStrictPrefix
        <3> QED BY <3>4, <3>5
    <2>4. t \in {"any", "document", "collection"} /\ Asked(i, t) = t /\ imp \in CitationImps
        BY DEF Types, ItemTypes, CitationImps, Asked
    <2> DEFINE inside == IF x.kind = "library"
                         THEN {y \in Below(content, x.path) : y.kind = "document"} \cup Under(content, x.path)
                         ELSE Under(content, x.path)
    <2>5. Expected(x, t) = {y.oid : y \in {y \in {y \in inside : t \in {"any", type(y)}} : y.kind # "draft"}}
        BY <2>2, <2>4 DEF Expected
    <2>6. \A y \in inside : y.kind \in {"collection", "document"}
        BY <2>3
    <2>7. {y \in {y \in inside : t \in {"any", type(y)}} : y.kind # "draft"} = documents \cup collections
        <3>1. \A y \in inside : t \in {"any", type(y)} /\ y.kind # "draft"
                 <=> (y.kind = "document" /\ t # "collection") \/ (y.kind = "collection" /\ t # "document")
            BY <2>4, <2>6
        <3>2. documents \cup collections = {y \in inside : (y.kind = "document" /\ t # "collection")
                                                        \/ (y.kind = "collection" /\ t # "document")}
            BY <2>3
        <3> HIDE DEF inside, documents, collections, type
        <3> QED BY <3>1, <3>2
    <2> HIDE DEF inside, documents, collections, type
    <2>8. {y.of : y \in items} = {y.oid : y \in documents \cup collections}
        BY <1>3, <2>1
    <2> QED BY <2>4, <2>5, <2>7, <2>8
<1>7. Answers(i)
    <2> SUFFICES ASSUME NEW t \in Types(imp), NEW x \in Now(i.of), i.type = "collection"
                 PROVE  ZoteroChildren(content, i.id, t) # {}
        BY <1>4 DEF Answers, IsListed, ListChildItems
    <2>1. ZoteroParses(i.id) /\ x \in ZoteroResolve(content, i.id[3], i.id[5])
        BY <1>4
    <2> QED BY <2>1 DEF ZoteroChildren
<1>8. Describes(i)
    BY DEF Describes, CitationImps
<1> QED BY <1>5, <1>6, <1>7, <1>8

LEMMA NoNamesLead ==
    ASSUME NEW s \in Seq(Names), Len(s) = 0, NEW t \in Seq(Names)
    PROVE  IsPrefix(s, t)
<1>1. \A k \in 1..Len(s) : s[k] = t[k]
    OBVIOUS
<1>2. Len(s) <= Len(t)
    OBVIOUS
<1> QED BY <1>1, <1>2, PathPrefix

LEMMA MendeleyLeads ==
    ASSUME imp = "mendeley", NEW d, NEW o, NEW i, Origin(d, o, i)
    PROVE  Opens(i) /\ Lists(i) /\ Answers(i) /\ Describes(i)
<1> DEFINE q == << <<o.kind>>, <<o.key>> >>
<1>1. /\ KeysOfKindDiffer(d) /\ Tree(content)
      /\ OfKinds(content, {"collection", "document"})
      /\ \A x \in content : x.path = <<>> => x.kind = "collection"
      /\ o.path = <<>> => o.kind = "collection"
      /\ o.kind \in {"collection", "document"} /\ o.kind # ":" /\ o.key # "ROOT"
      /\ MendeleyForm(i, o)
    BY DEF Origin, WellFormed, Form, OfKinds
<1>2. /\ \A x \in Now(i.of) : x \in content /\ x.oid = i.of /\ x.kind = o.kind /\ (x.path = <<>> <=> o.path = <<>>)
      /\ \A x, y \in Now(i.of) : x = y
    BY OriginIs DEF Now, SameThing
<1>3. SplitOnce(<<o.kind, ":", o.key>>, ":") = {q}
    BY <1>1, SplitOfId
<1>4. q[1][1] = o.kind /\ Len(q[1]) = 1 /\ q[2] = <<o.key>>
    OBVIOUS
<1> HIDE DEF q
<1>5. i.type = o.kind /\ (\/ i.id = <<"ROOT">> /\ o.path = <<>> /\ Account(content) = Now(i.of)
                          \/ /\ i.id # <<"ROOT">> /\ o.path # <<>>
                             /\ SplitOnce(i.id, ":") = {q})
    <2>1. CASE o.path = <<>>
        BY <1>1, <2>1, AccountIsNow DEF MendeleyForm, Named
    <2>2. CASE o.path # <<>>
        <3>1. i.id = <<o.kind, ":", o.key>> /\ i.type = o.kind
            BY <1>1, <2>2 DEF MendeleyForm, Named
        <3>2. Len(i.id) = 3 /\ Len(<<"ROOT">>) = 1
            BY <3>1
        <3>3. i.id # <<"ROOT">>
            BY <3>2
        <3> QED BY <1>3, <2>2, <3>1, <3>3
    <2> QED BY <2>1, <2>2
<1>6. Keyed(content, {o.kind}, <<o.key>>) = Now(i.of)
    BY <1>1, FoundByKind
<1>7. \A x \in content : MendeleyItem(x).of = x.oid /\ MendeleyItem(x).type = x.kind
    BY <1>1 DEF MendeleyItem, Item
<1>8. Opens(i)
    <2>1. MendeleyInfo(content, i.id) = {MendeleyItem(x) : x \in Now(i.of)}
        <3>1. CASE i.id = <<"ROOT">>
            BY <1>5, <3>1 DEF MendeleyInfo
        <3>2. CASE i.id # <<"ROOT">>
            <4> DEFINE S(p) == {MendeleyItem(x) : x \in Keyed(content \ Account(content),
                                                              {"collection", "document"} \cap {p[1][1]}, p[2])}
            <4>1. MendeleyInfo(content, i.id) = UNION {S(p) : p \in {p \in {q} : Len(p[1]) = 1}}
                BY <1>5, <3>2 DEF MendeleyInfo
            <4>2. {p \in {q} : Len(p[1]) = 1} = {q}
                BY <1>4
            <4>3. {"collection", "document"} \cap {o.kind} = {o.kind}
                BY <1>1
            <4>4. S(q) = {MendeleyItem(x) : x \in Keyed(content \ Account(content), {o.kind}, <<o.key>>)}
                BY <1>4, <4>3
            <4>5. Keyed(content \ Account(content), {o.kind}, <<o.key>>) = Keyed(content, {o.kind}, <<o.key>>) \ Account(content)
                BY DEF Keyed
            <4>6. Now(i.of) \ Account(content) = Now(i.of)
                BY <1>2, <1>5, <3>2 DEF Account, At
            <4> HIDE DEF S
            <4>7. UNION {S(p) : p \in {q}} = S(q)
                OBVIOUS
            <4>8. MendeleyInfo(content, i.id) = S(q)
                BY <4>1, <4>2, <4>7
            <4> QED BY <1>6, <4>4, <4>5, <4>6, <4>8
        <3> QED BY <3>1, <3>2
    <2>2. GetItemInfo(imp, content, i.id) = {MendeleyItem(x) : x \in Now(i.of)}
        BY <2>1 DEF GetItemInfo
    <2> QED BY <1>2, <1>5, <1>7, <2>2 DEF Opens
<1>9. Lists(i)
    <2> SUFFICES ASSUME NEW t \in Types(imp), NEW items \in ListChildItems(imp, content, i.id, t),
                        NEW x \in Now(i.of), o.kind = "collection"
                 PROVE  {y.of : y \in items} = Expected(x, Asked(i, t))
        BY <1>1, <1>5 DEF Lists, IsListed
    <2> DEFINE documents(p) == {y \in IF p.path = <<>> THEN content ELSE Under(content, p.path) :
                                  y.kind = "document" /\ t # "collection"}
               collections(p) == {y \in Under(content, p.path) : y.kind = "collection" /\ t # "document"}
               collections_at(key) == IF key = <<"ROOT">> THEN Account(content) ELSE Keyed(content, {"collection"}, key)
               parsed == IF i.id = <<"ROOT">> THEN {i.id} ELSE {p[2] : p \in SplitOnce(i.id, ":")}
    <2>0. items \in MendeleyChildren(content, i.id, t)
        BY DEF ListChildItems
    <2>1. Now(i.of) = {x} /\ x \in content /\ x.kind = o.kind
        BY <1>2
    <2>2. UNION {collections_at(key) : key \in parsed} = {x}
        <3>1. CASE i.id = <<"ROOT">>
            BY <1>5, <2>1, <3>1
        <3>2. CASE i.id # <<"ROOT">>
            <4>1. parsed = {<<o.key>>}
                BY <1>4, <1>5, <3>2
            <4>2. <<o.key>> # <<"ROOT">>
                BY <1>1
            <4>3. collections_at(<<o.key>>) = {x}
                BY <1>6, <2>1, <4>2
            <4> HIDE DEF collections_at, parsed
            <4> QED BY <4>1, <4>3
        <3> QED BY <3>1, <3>2
    <2>3. items \in {{MendeleyItem(y) : y \in documents(p) \cup collections(p)} : p \in UNION {collections_at(key) : key \in parsed}}
        BY <2>0, Zenon DEF MendeleyChildren
    <2>4. items = {MendeleyItem(y) : y \in documents(x) \cup collections(x)}
        <3> HIDE DEF documents, collections, collections_at, parsed
        <3> QED BY <2>2, <2>3
    <2>5. t \in {"any", "document", "collection"} /\ Asked(i, t) = t /\ imp \in CitationImps
        BY DEF Types, ItemTypes, CitationImps, Asked
    <2> DEFINE inside == IF x.path = <<>>
                         THEN {y \in Below(content, x.path) : y.kind = "document"} \cup Under(content, x.path)
                         ELSE Under(content, x.path)
    <2>6. inside \subseteq content
        BY DEF Below, Under
    <2>7. Expected(x, t) = {y.oid : y \in {y \in {y \in inside : t \in {"any", y.kind}} : y.kind # "draft"}}
        <3>1. x.kind # "library" /\ \A y \in inside : y.kind # "library"
            BY <1>1, <2>1, <2>6 DEF OfKinds
        <3> DEFINE type(y) == IF y.kind = "library" THEN "collection" ELSE y.kind
        <3>2. Expected(x, t) = {y.oid : y \in {y \in {y \in inside : t \in {"any", type(y)}} : y.kind # "draft"}}
            BY <2>5, <3>1 DEF Expected
        <3>3. \A y \in inside : type(y) = y.kind
            BY <3>1
        <3> HIDE DEF inside, type
        <3> QED BY <3>2, <3>3
    <2>8. x.path = <<>> => \A y \in content : y.kind = "document" => y \in Below(content, x.path)
        <3> SUFFICES ASSUME x.path = <<>>, NEW y \in content, y.kind = "document"
                     PROVE  y \in Below(content, x.path)
            OBVIOUS
        <3>1. y.path # <<>> /\ y.path \in Seq(Names)
            BY <1>1, ThingPath DEF Tree
        <3>2. IsPrefix(x.path, y.path)
            <4>1. x.path \in Seq(Names) /\ Len(x.path) = 0 /\ Len(y.path) \in Nat
                BY <1>1, <2>1, <3>1, ThingPath DEF Tree
            <4> QED BY <3>1, <4>1, NoNamesLead
        <3> QED BY <3>1, <3>2 DEF Below, IsStrictPrefix
    <2>9. {y \in {y \in inside : t \in {"any", y.kind}} : y.kind # "draft"} = documents(x) \cup collections(x)
        <3>1. \A y \in inside : y.kind \in {"collection", "document"}
            BY <1>1, <2>6 DEF OfKinds
        <3>2. \A y \in inside : t \in {"any", y.kind} /\ y.kind # "draft"
                 <=> (y.kind = "document" /\ t # "collection") \/ (y.kind = "collection" /\ t # "document")
            BY <2>5, <3>1
        <3>3. \A y : y \in documents(x) \cup collections(x)
                 <=> y \in inside /\ ((y.kind = "document" /\ t # "collection") \/ (y.kind = "collection" /\ t # "document"))
            <4>1. CASE x.path = <<>>
                <5>1. \A y : y \in documents(x) <=> y \in content /\ y.kind = "document" /\ t # "collection"
                    BY <4>1
                <5>2. \A y : y \in inside <=> (y \in Below(content, x.path) /\ y.kind = "document") \/ y \in Under(content, x.path)
                    BY <4>1
                <5>3. Below(content, x.path) \subseteq content /\ Under(content, x.path) \subseteq content
                    BY DEF Below, Under
                <5>4. \A y : y \in collections(x) <=> y \in Under(content, x.path) /\ y.kind = "collection" /\ t # "document"
                    OBVIOUS
                <5> HIDE DEF inside, documents, collections
                <5> QED BY <2>8, <4>1, <5>1, <5>2, <5>3, <5>4
            <4>2. CASE x.path # <<>>
                BY <4>2
            <4> QED BY <4>1, <4>2
        <3> HIDE DEF inside, documents, collections
        <3> QED BY <3>2, <3>3
    <2>10. documents(x) \cup collections(x) \subseteq content
        BY DEF Under
    <2> HIDE DEF inside, documents, collections
    <2>11. {y.of : y \in items} = {y.oid : y \in documents(x) \cup collections(x)}
        BY <1>7, <2>4, <2>10
    <2> QED BY <2>5, <2>7, <2>9, <2>11
<1>10. Describes(i)
    BY DEF Describes, CitationImps
<1>11. Answers(i)
    <2> SUFFICES ASSUME NEW t \in Types(imp), NEW x \in Now(i.of), o.kind = "collection"
                 PROVE  MendeleyChildren(content, i.id, t) # {}
        BY <1>1, <1>5 DEF Answers, IsListed, ListChildItems
    <2> DEFINE opened(key) == IF key = <<"ROOT">> THEN Account(content) ELSE Keyed(content, {"collection"}, key)
               parsed == IF i.id = <<"ROOT">> THEN {i.id} ELSE {p[2] : p \in SplitOnce(i.id, ":")}
    <2>1. x \in UNION {opened(key) : key \in parsed}
        <3>1. CASE i.id = <<"ROOT">>
            BY <1>5, <3>1
        <3>2. CASE i.id # <<"ROOT">>
            <4>1. parsed = {<<o.key>>}
                BY <1>4, <1>5, <3>2
            <4>2. <<o.key>> # <<"ROOT">>
                BY <1>1
            <4>3. x \in opened(<<o.key>>)
                BY <1>6, <4>2
            <4> HIDE DEF opened, parsed
            <4> QED BY <4>1, <4>3
        <3> QED BY <3>1, <3>2
    <2> DEFINE given(p) ==
          {MendeleyItem(y) : y \in {y \in IF p.path = <<>> THEN content ELSE Under(content, p.path) :
                                       y.kind = "document" /\ t # "collection"}
                                 \cup {y \in Under(content, p.path) : y.kind = "collection" /\ t # "document"}}
    <2>2. MendeleyChildren(content, i.id, t) = {given(p) : p \in UNION {opened(key) : key \in parsed}}
        BY Zenon DEF MendeleyChildren
    <2> HIDE DEF opened, parsed, given
    <2> QED BY <2>1, <2>2
<1> QED BY <1>8, <1>9, <1>10, <1>11

(***************************************************************************)
(* The implementations whose ids are paths.                                *)
(***************************************************************************)
LEMMA PathOrigin ==
    ASSUME imp \notin KeyedImps, NEW d, NEW o, NEW i, Origin(d, o, i)
    PROVE  /\ WellFormed(imp, content) /\ Form(imp, content, i, o) /\ Tree(content) /\ content \subseteq Things
           /\ o \in content /\ i.of = o.oid /\ Now(i.of) = {o}
           /\ i.root => i.type \in {"folder", "collection"}
<1>1. d = content
    BY DEF Origin, Stable
<1>2. WellFormed(imp, content) /\ Form(imp, content, i, o) /\ Tree(content) /\ content \subseteq Things /\ o \in content
    BY <1>1 DEF Origin, WellFormed, Tree
<1>3. i.of = o.oid /\ (i.root => i.type \in {"folder", "collection"})
    BY <1>2 DEF Form
<1>4. Now(i.of) = {o}
    BY <1>2, <1>3 DEF Now, Tree
<1> QED BY <1>2, <1>3, <1>4

LEMMA TwoTokens ==
    ASSUME NEW S, NEW a \in S, NEW t \in S, NEW q \in Seq(S)
    PROVE  <<a, t>> \o q = <<a>> \o <<t>> \o q
<1>1. <<a>> \o <<t>> = <<a, t>>
    <2> DEFINE u == <<a>>  v == <<t>>  w == <<a, t>>
    <2>1. /\ u \in Seq(S) /\ Len(u) = 1 /\ u[1] = a
          /\ v \in Seq(S) /\ Len(v) = 1 /\ v[1] = t
          /\ w \in Seq(S) /\ Len(w) = 2 /\ w[1] = a /\ w[2] = t
        OBVIOUS
    <2> HIDE DEF u, v, w
    <2>2. u \o v \in Seq(S) /\ Len(u \o v) = 2 /\ (u \o v)[1] = a /\ (u \o v)[2] = t
        <3>1. /\ u \o v \in Seq(S) /\ Len(u \o v) = Len(u) + Len(v)
              /\ \A k \in 1..(Len(u) + Len(v)) : (u \o v)[k] = IF k <= Len(u) THEN u[k] ELSE v[k - Len(u)]
            BY <2>1, ConcatProperties
        <3>2. Len(u) + Len(v) = 2 /\ 1 \in 1..2 /\ 2 \in 1..2 /\ 2 - 1 = 1 /\ 1 <= 1 /\ ~(2 <= 1)
            BY <2>1
        <3> QED BY <2>1, <3>1, <3>2
    <2>3. \A k \in 1..2 : (u \o v)[k] = w[k]
        BY <2>1, <2>2
    <2>4. u \o v = w
        BY <2>1, <2>2, <2>3, SeqEqual
    <2> QED BY <2>4 DEF u, v, w
<1> QED BY <1>1

(* What a separator is put behind has none in it. *)
Lacks(s, t) == \A k \in 1..Len(s) : s[k] # t

LEMMA SplitTokens ==
    ASSUME NEW a \in Seq(Tokens), NEW b \in Seq(Tokens), NEW t \in Tokens, Lacks(a, t)
    PROVE  SplitOnce(a \o <<t>> \o b, t) = {<<a, b>>}
BY SplitOf DEF Lacks

LEMMA AtLeastTwo ==
    ASSUME NEW n \in Nat, n # 0, n # 1
    PROVE  n >= 2
OBVIOUS

LEMMA AtLeastThree ==
    ASSUME NEW n \in Nat, n # 0, n # 1, n # 2
    PROVE  n >= 3
OBVIOUS

(* An id of a kind and a path is split into them. *)
IsKindPath(id, k, q) ==
    /\ SplitOnce(id, ":") = {<< <<k>>, q>>}
    /\ id \in Seq(Tokens) /\ Len(id) = 2 + Len(q) /\ Len(q) \in Nat
    /\ id # <<>> /\ Head(id) = k
    /\ \A n \in 1..Len(q) : id[2 + n] = q[n]

LEMMA KindPath ==
    ASSUME NEW k \in {"file", "folder", "workspace", "repository"}, NEW q \in Seq(Tokens),
           NEW id, id = <<k, ":">> \o q
    PROVE  IsKindPath(id, k, q)
<1> DEFINE a == <<k>>
           b == <<k, ":">>
<1>1. k \in Tokens /\ ":" \in Tokens /\ k # ":"
    BY DEF Tokens
<1>2. a \in Seq(Tokens) /\ \A n \in 1..Len(a) : a[n] # ":"
    BY <1>1
<1>3. b \in Seq(Tokens) /\ Len(b) = 2 /\ b[1] = k
    BY <1>1
<1>4. b \o q = a \o <<":">> \o q
    BY <1>1, TwoTokens
<1>9. id = b \o q
    OBVIOUS
<1> HIDE DEF a, b
<1>5. SplitOnce(a \o <<":">> \o q, ":") = {<<a, q>>}
    <2>1. ":" \in Tokens /\ q \in Seq(Tokens) /\ a \in Seq(Tokens) /\ Lacks(a, ":")
        BY <1>1, <1>2 DEF Lacks
    <2> QED BY <2>1, SplitTokens
<1>6. id \in Seq(Tokens) /\ Len(id) = 2 + Len(q) /\ Len(q) \in Nat /\ id[1] = k
      /\ \A n \in 1..Len(q) : id[2 + n] = q[n]
    <2>1. /\ id \in Seq(Tokens) /\ Len(id) = Len(b) + Len(q)
          /\ \A n \in 1..(Len(b) + Len(q)) : id[n] = IF n <= Len(b) THEN b[n] ELSE q[n - Len(b)]
        BY <1>3, <1>9, ConcatProperties
    <2>2. Len(q) \in Nat
        OBVIOUS
    <2>3. \A n \in 1..Len(q) : 2 + n \in 1..(2 + Len(q)) /\ ~(2 + n <= 2) /\ (2 + n) - 2 = n
        BY <2>2
    <2> QED BY <1>3, <2>1, <2>2, <2>3
<1>7. id # <<>> /\ Head(id) = k
    BY <1>6
<1>8. SplitOnce(id, ":") = {<< <<k>>, q>>}
    BY <1>4, <1>5, <1>9 DEF a
<1> QED BY <1>6, <1>7, <1>8 DEF IsKindPath

(* The path that ownCloud is asked for. *)
LEMMA StrippedPath ==
    ASSUME NEW x \in Things
    PROVE  /\ StripLeft(OwncloudPath(x)) = Join(x.path, "/")
           /\ StripLeft(<<"/">> \o Join(x.path, "/")) = Join(x.path, "/")
           /\ OwncloudPath(x) \in Seq(Tokens)
           /\ x.path = <<>> => Join(x.path, "/") = <<>> /\ OwncloudPath(x) = <<"/">>
<1> DEFINE joined == Join(x.path, "/")
           slashed == <<"/">> \o joined
<1>1. x.path \in Seq(Names) /\ Len(x.path) \in Nat /\ "/" \in Tokens
    BY ThingPath DEF Tokens
<1>2. joined \in Seq(Tokens) /\ Spaced(joined, x.path)
    BY <1>1, JoinIs
<1>3. Len(joined) \in Nat /\ (Len(joined) = 0 <=> x.path = <<>>)
    <2>1. Len(x.path) = 0 <=> x.path = <<>>
        BY NoPath
    <2> HIDE DEF joined
    <2> QED BY <1>1, <1>2, <2>1 DEF Spaced
<1>4. x.path # <<>> => Head(joined) \in Names
    <2>1. x.path # <<>> => 1 \in 1..Len(x.path)
        BY <1>1
    <2>2. x.path # <<>> => joined[1] = x.path[1] /\ x.path[1] \in Names
        <3> HIDE DEF joined
        <3> QED BY <1>1, <1>2, <2>1 DEF Spaced
    <2> QED BY <1>2, <2>2
<1>5. slashed # <<>> /\ Head(slashed) = "/" /\ Tail(slashed) = joined
    <2> HIDE DEF joined
    <2>1. slashed \in Seq(Tokens) /\ Len(slashed) = 1 + Len(joined) /\ slashed[1] = "/"
          /\ \A k \in 1..Len(joined) : slashed[1 + k] = joined[k]
        BY <1>1, <1>2
    <2> HIDE DEF slashed
    <2>2. slashed # <<>> /\ Head(slashed) = "/"
        BY <1>3, <2>1
    <2>3. /\ Tail(slashed) \in Seq(Tokens) /\ Len(Tail(slashed)) = Len(joined)
          /\ \A k \in 1..Len(joined) : Tail(slashed)[k] = joined[k]
        BY <1>3, <2>1, <2>2
    <2> QED BY <1>2, <2>2, <2>3, SeqEqual
<1>6. StripLeft(slashed) = joined
    BY <1>5 DEF StripLeft
<1>7. "/" \notin Names
    BY DEF Names
<1>8. x.path # <<>> => OwncloudPath(x) = joined /\ StripLeft(joined) = joined
    BY <1>4, <1>7 DEF OwncloudPath, StripLeft
<1>9. x.path = <<>> => OwncloudPath(x) = <<"/">> /\ joined = <<>> /\ StripLeft(<<"/">>) = <<>>
    <2>1. x.path = <<>> => joined = <<>>
        BY <1>2, <1>3
    <2>2. StripLeft(<<"/">>) = <<>>
        BY DEF StripLeft
    <2> QED BY <2>1, <2>2 DEF OwncloudPath
<1>10. OwncloudPath(x) \in Seq(Tokens)
    BY <1>1, <1>2 DEF OwncloudPath
<1> QED BY <1>6, <1>8, <1>9, <1>10

LEMMA OwncloudFound ==
    ASSUME imp = "owncloud", NEW d, NEW o, NEW i, Origin(d, o, i)
    PROVE  \E k, q : /\ OwncloudParse(i.id) = {<<k, q>>}
                     /\ OwncloudAt(content, q) = {o}
                     /\ i.type = FileOrFolder(o)
                     /\ q = OwncloudPath(o) \/ ListsItself(i)
<1>1. /\ Tree(content) /\ content \subseteq Things /\ o \in content /\ OwncloudForm(i, o)
      /\ o.path = <<>> => o.kind = "folder"
    BY PathOrigin DEF KeyedImps, WellFormed, Form
<1>2. ASSUME NEW q, StripLeft(q) = Join(o.path, "/")
      PROVE  OwncloudAt(content, q) = {o}
    <2>1. ASSUME NEW x \in content PROVE StripLeft(OwncloudPath(x)) = StripLeft(q) <=> x = o
        <3>1. StripLeft(OwncloudPath(x)) = Join(x.path, "/")
            BY <1>1, StrippedPath
        <3>2. Join(x.path, "/") = Join(o.path, "/") => x.path = o.path
            <4>1. x.path \in Seq(Names) /\ o.path \in Seq(Names) /\ "/" \in Tokens
                BY <1>1, ThingPath DEF Tokens
            <4> QED BY <4>1, JoinInjective
        <3> QED BY <1>1, <1>2, <3>1, <3>2 DEF Tree
    <2> QED BY <1>1, <2>1 DEF OwncloudAt
<1>3. CASE IsAccount(i, o)
    <2>1. OwncloudParse(i.id) = {<< <<"folder">>, <<"/">> >>}
        BY <1>3 DEF IsAccount, Named, OwncloudParse
    <2>2. OwncloudPath(o) = <<"/">> /\ StripLeft(OwncloudPath(o)) = Join(o.path, "/")
        BY <1>1, <1>3, StrippedPath DEF IsAccount
    <2>3. OwncloudAt(content, <<"/">>) = {o}
        BY <1>2, <2>2
    <2>4. i.type = FileOrFolder(o)
        BY <1>1, <1>3 DEF IsAccount, Named, FileOrFolder
    <2> QED BY <2>1, <2>2, <2>3, <2>4
<1>4. ASSUME NEW q \in {OwncloudPath(o), <<"/">> \o Join(o.path, "/")},
             Named(i, <<FileOrFolder(o), ":">> \o q, FileOrFolder(o))
      PROVE  /\ OwncloudParse(i.id) = {<< <<FileOrFolder(o)>>, q>>}
             /\ OwncloudAt(content, q) = {o}
             /\ i.type = FileOrFolder(o)
             /\ q = OwncloudPath(o) \/ ListsItself(i)
    <2> DEFINE k == FileOrFolder(o)
    <2>1. q \in Seq(Tokens) /\ StripLeft(q) = Join(o.path, "/")
        <3>1. <<"/">> \o Join(o.path, "/") \in Seq(Tokens)
            BY <1>1, SlashPath
        <3> QED BY <1>1, <1>4, <3>1, StrippedPath
    <2>2. k \in {"file", "folder"}
        BY DEF FileOrFolder
    <2> HIDE DEF k
    <2>5. i.id = <<k, ":">> \o q /\ i.type = k
        BY <1>4 DEF Named, k
    <2>6. /\ SplitOnce(i.id, ":") = {<< <<k>>, q>>} /\ i.id # <<>>
          /\ Len(i.id) = 2 + Len(q) /\ Len(q) \in Nat
          /\ \A n \in 1..Len(q) : i.id[2 + n] = q[n]
        <3>1. k \in {"file", "folder", "workspace", "repository"} /\ q \in Seq(Tokens)
            BY <2>1, <2>2
        <3>2. IsKindPath(i.id, k, q)
            BY <2>5, <3>1, KindPath
        <3> QED BY <3>2 DEF IsKindPath
    <2>8. OwncloudParse(i.id) = {<< <<k>>, q>>}
        <3>1. <<k>> \in {<<"file">>, <<"folder">>}
            BY <2>2
        <3>2. << <<k>>, q>>[1] = <<k>>
            OBVIOUS
        <3>4. OwncloudParse(i.id) = {p \in {<< <<k>>, q>>} : p[1] \in {<<"file">>, <<"folder">>}}
            BY <2>6 DEF OwncloudParse
        <3> QED BY <3>1, <3>2, <3>4
    <2>9. q = OwncloudPath(o) \/ ListsItself(i)
        <3> SUFFICES ASSUME q # OwncloudPath(o)
                     PROVE  ListsItself(i)
            OBVIOUS
        <3>1. q = <<"/">> \o Join(o.path, "/")
            BY <1>4
        <3>2. o.path # <<>>
            <4>1. o.path = <<>> => OwncloudPath(o) = <<"/">> /\ Join(o.path, "/") = <<>>
                BY <1>1, StrippedPath
            <4>2. <<"/">> \o <<>> = <<"/">>
                OBVIOUS
            <4> QED BY <3>1, <4>1, <4>2
        <3>3. Len(q) > 1 /\ q[1] = "/"
            <4>1. Len(Join(o.path, "/")) > 0 /\ Len(q) = 1 + Len(Join(o.path, "/")) /\ q[1] = "/"
                BY <1>1, <3>1, <3>2, SlashPath
            <4> QED BY <2>6, <4>1
        <3>4. Len(i.id) > 3 /\ i.id[2 + 1] = "/"
            <4>1. 1 \in 1..Len(q)
                BY <2>6, <3>3
            <4> QED BY <2>6, <3>3, <4>1
        <3> QED BY <3>4 DEF ListsItself
    <2>10. OwncloudAt(content, q) = {o}
        BY <1>2, <2>1
    <2> QED BY <2>5, <2>8, <2>9, <2>10 DEF k
<1> QED BY <1>1, <1>3, <1>4 DEF OwncloudForm

LEMMA OwncloudLeads ==
    ASSUME imp = "owncloud", NEW d, NEW o, NEW i, Origin(d, o, i)
    PROVE  Opens(i) /\ Lists(i) /\ Answers(i) /\ Describes(i)
<1>1. /\ Tree(content) /\ content \subseteq Things /\ o \in content /\ i.of = o.oid /\ Now(i.of) = {o}
      /\ OfKinds(content, {"file", "folder"})
    BY PathOrigin DEF KeyedImps, WellFormed
<1>2. PICK k, q : /\ OwncloudParse(i.id) = {<<k, q>>}
                  /\ OwncloudAt(content, q) = {o}
                  /\ i.type = FileOrFolder(o)
                  /\ q = OwncloudPath(o) \/ ListsItself(i)
    BY OwncloudFound
<1> DEFINE p == <<k, q>>
<1>3. OwncloudParse(i.id) = {p} /\ p[2] = q
    BY <1>2
<1> HIDE DEF p
<1>4. \A x, path : OwncloudItem(x, path).of = x.oid /\ OwncloudItem(x, path).type = FileOrFolder(x)
    BY DEF OwncloudItem, Item
<1>5. Opens(i)
    <2>1. OwncloudInfo(content, i.id) = {OwncloudItem(o, q)}
        BY <1>2, <1>3 DEF OwncloudInfo
    <2>2. GetItemInfo(imp, content, i.id) = {OwncloudItem(o, q)}
        BY <2>1 DEF GetItemInfo
    <2> QED BY <1>1, <1>2, <1>4, <2>2 DEF Opens
<1>6. Lists(i)
    <2> SUFFICES ASSUME NEW type \in Types(imp), NEW items \in ListChildItems(imp, content, i.id, type),
                        ~ListsItself(i)
                 PROVE  {y.of : y \in items} = Expected(o, Asked(i, type))
        BY <1>1 DEF Lists, IsListed
    <2> DEFINE all == {OwncloudItem(y, OwncloudPath(y)) : y \in Under(content, o.path)}
    <2>0. items \in OwncloudChildren(content, i.id, type)
        BY DEF ListChildItems
    <2>1. {x \in {o} \cup Under(content, o.path) : OwncloudPath(x) # q} = Under(content, o.path)
        <3>1. q = OwncloudPath(o)
            BY <1>2
        <3>2. ASSUME NEW x \in Under(content, o.path) PROVE OwncloudPath(x) # q
            <4>1. x \in Things /\ o \in Things /\ Len(x.path) = Len(o.path) + 1 /\ Len(o.path) \in Nat
                BY <1>1, ThingPath DEF Under
            <4>2. x.path \in Seq(Names) /\ o.path \in Seq(Names) /\ "/" \in Tokens
                BY <4>1, ThingPath DEF Tokens
            <4>3. Join(x.path, "/") # Join(o.path, "/")
                BY <4>1, <4>2, JoinInjective
            <4>4. StripLeft(OwncloudPath(x)) # StripLeft(OwncloudPath(o))
                BY <4>1, <4>3, StrippedPath
            <4> QED BY <3>1, <4>4
        <3> QED BY <3>1, <3>2
    <2>2. items = OfType(all, type)
        <3> DEFINE lists(z, r) == OfType({OwncloudItem(x, OwncloudPath(x)) :
                                    x \in {x \in {z} \cup Under(content, z.path) : OwncloudPath(x) # r}}, type)
        <3>1. items \in UNION {{lists(z, r[2]) : z \in OwncloudAt(content, r[2])} : r \in OwncloudParse(i.id)}
            BY <2>0 DEF OwncloudChildren
        <3>2. lists(o, q) = OfType(all, type)
            BY <2>1
        <3> HIDE DEF lists, all
        <3>3. items \in {lists(z, q) : z \in {o}}
            BY <1>2, <1>3, <3>1
        <3> QED BY <3>2, <3>3
    <2>3. ItemsOf(all, Under(content, o.path))
        BY <1>4 DEF ItemsOf
    <2>4. NoDrafts(Under(content, o.path))
        BY <1>1, NoDraftKinds
    <2>5. imp \notin CitationImps /\ Asked(i, type) = type
        BY DEF CitationImps, Asked
    <2> HIDE DEF all
    <2> QED BY <2>2, <2>3, <2>4, <2>5, AllListed
<1>7. Describes(i)
    <2>1. OwncloudWb(content, i.id) = {o}
        BY <1>2, <1>3 DEF OwncloudWb
    <2> QED BY <1>1, <2>1 DEF Describes, BuildWbConfig
<1>8. Answers(i)
    <2> SUFFICES ASSUME NEW type \in Types(imp)
                 PROVE  OwncloudChildren(content, i.id, type) # {}
        BY DEF Answers, ListChildItems
    <2> DEFINE lists(z, r) == OfType({OwncloudItem(x, OwncloudPath(x)) :
                                x \in {x \in {z} \cup Under(content, z.path) : OwncloudPath(x) # r}}, type)
    <2>1. OwncloudChildren(content, i.id, type)
            = UNION {{lists(z, r[2]) : z \in OwncloudAt(content, r[2])} : r \in OwncloudParse(i.id)}
        BY DEF OwncloudChildren
    <2> HIDE DEF lists
    <2>2. lists(o, q) \in OwncloudChildren(content, i.id, type)
        BY <1>2, <1>3, <2>1
    <2> QED BY <2>2
<1> QED BY <1>5, <1>6, <1>7, <1>8

LEMMA BitbucketLeads ==
    ASSUME imp = "bitbucket", NEW d, NEW o, NEW i, Origin(d, o, i)
    PROVE  Opens(i) /\ Lists(i) /\ Answers(i) /\ Describes(i)
<1> DEFINE k == IF o.kind = "workspace" THEN "workspace" ELSE "repository"
           q == IF o.kind = "workspace" THEN o.path ELSE Join(o.path, "/")
           p == << <<k>>, q>>
<1>1. /\ Tree(content) /\ content \subseteq Things /\ o \in content /\ i.of = o.oid /\ Now(i.of) = {o}
      /\ OfKinds(content, {"account", "workspace", "repository", "folder", "file"})
      /\ AtLevel(content, "account", 0) /\ AtLevel(content, "workspace", 1)
      /\ o.path # <<>> /\ i.type = FileOrFolder(o) /\ (i.root => o.kind = "repository")
      /\ i.id = BitbucketItem(o).id
    <2>1. /\ Tree(content) /\ content \subseteq Things /\ o \in content /\ i.of = o.oid /\ Now(i.of) = {o}
          /\ WellFormed(imp, content) /\ Form(imp, content, i, o)
        BY PathOrigin DEF KeyedImps
    <2>2. HasRepositories(content) /\ BitbucketForm(i, o)
        BY <2>1 DEF WellFormed, Form
    <2> QED BY <2>1, <2>2 DEF HasRepositories, BitbucketForm, Named
<1>2. o.path \in Seq(Names) /\ o.path \in Seq(Tokens) /\ Len(o.path) \in Nat /\ "/" \in Tokens
    BY <1>1, ThingPath DEF Tokens
<1>3. q \in Seq(Tokens)
    BY <1>2, JoinIs
<1>4. i.id = <<k, ":">> \o q
    BY <1>1 DEF BitbucketItem, Item, NotRoot
<1>5. k \in {"file", "folder", "workspace", "repository"} /\ p[1] = <<k>> /\ p[2] = q
    OBVIOUS
<1> HIDE DEF q
<1>6. SplitOnce(i.id, ":") = {p} /\ Head(i.id) = k /\ i.id # <<>>
    <2>1. IsKindPath(i.id, k, q)
        BY <1>3, <1>4, <1>5, KindPath
    <2> QED BY <2>1 DEF IsKindPath
<1>7. BitbucketAt(content, i.id) = {o}
    <2> DEFINE at(r) == CASE r[1] = <<"workspace">>  -> {x \in content : x.kind = "workspace" /\ x.path = r[2]}
                          [] r[1] = <<"repository">> -> {x \in content : Len(x.path) >= 2 /\ Join(x.path, "/") = r[2]}
                          [] OTHER -> {}
    <2>1. CASE o.kind = "workspace"
        <3>1. p[1] = <<"workspace">> /\ p[2] = o.path
            BY <2>1 DEF q
        <3>2. at(p) = {x \in content : x.kind = "workspace" /\ x.path = o.path}
            BY <3>1
        <3>3. at(p) = {o}
            BY <1>1, <2>1, <3>2 DEF Tree
        <3> HIDE DEF at, p
        <3>4. BitbucketAt(content, i.id) = UNION {at(r) : r \in {p}}
            BY <1>6 DEF BitbucketAt, at
        <3> QED BY <3>3, <3>4
    <2>2. CASE o.kind # "workspace"
        <3>1. p[1] = <<"repository">> /\ p[2] = Join(o.path, "/") /\ p[1] # <<"workspace">>
            BY <2>2 DEF q
        <3>2. at(p) = {x \in content : Len(x.path) >= 2 /\ Join(x.path, "/") = Join(o.path, "/")}
            BY <3>1
        <3>3. \A x \in content : Join(x.path, "/") = Join(o.path, "/") <=> x = o
            <4>1. \A x \in content : x.path \in Seq(Names)
                BY <1>1, ThingPath
            <4> QED BY <1>1, <1>2, <4>1, JoinInjective DEF Tree
        <3>4. Len(o.path) >= 2
            <4>1. Len(o.path) # 0 /\ Len(o.path) # 1
                BY <1>1, <2>2, NoPath DEF AtLevel
            <4>2. Len(o.path) \in Nat
                BY <1>2
            <4> QED BY <4>1, <4>2, AtLeastTwo
        <3>5. at(p) = {o}
            BY <1>1, <3>2, <3>3, <3>4
        <3> HIDE DEF at, p
        <3>6. BitbucketAt(content, i.id) = UNION {at(r) : r \in {p}}
            BY <1>6 DEF BitbucketAt, at
        <3> QED BY <3>5, <3>6
    <2> QED BY <2>1, <2>2
<1>8. \A x : BitbucketItem(x).of = x.oid /\ BitbucketItem(x).type = FileOrFolder(x)
    BY DEF BitbucketItem, Item, NotRoot, FileOrFolder
<1>9. Opens(i)
    <2>1. GetItemInfo(imp, content, i.id) = {BitbucketItem(x) : x \in {o}}
        BY <1>7 DEF GetItemInfo, BitbucketInfo
    <2> QED BY <1>1, <1>8, <2>1 DEF Opens
<1>10. Lists(i)
    <2> SUFFICES ASSUME NEW type \in Types(imp), NEW items \in ListChildItems(imp, content, i.id, type)
                 PROVE  {y.of : y \in items} = Expected(o, Asked(i, type))
        BY <1>1 DEF Lists, IsListed
    <2> DEFINE all == {BitbucketItem(y) : y \in Under(content, o.path)}
    <2>0. items \in BitbucketChildren(content, i.id, type)
        BY DEF ListChildItems
    <2>1. items = IF o.kind = "workspace" THEN all ELSE OfType(all, type)
        BY <1>7, <2>0 DEF BitbucketChildren
    <2>2. Asked(i, type) = IF o.kind = "workspace" THEN "any" ELSE type
        BY <1>6 DEF Asked
    <2>3. ItemsOf(all, Under(content, o.path))
        BY <1>8 DEF ItemsOf
    <2>4. NoDrafts(Under(content, o.path))
        BY <1>1, NoDraftKinds
    <2>5. imp \notin CitationImps
        BY DEF CitationImps
    <2> HIDE DEF all
    <2> QED BY <2>1, <2>2, <2>3, <2>4, <2>5, AllListed
<1>11. Describes(i)
    <2>1. i.root => BitbucketWb(content, i.id) = {o}
        BY <1>1, <1>7 DEF BitbucketWb
    <2> QED BY <1>1, <2>1 DEF Describes, BuildWbConfig
<1>12. Answers(i)
    <2> SUFFICES ASSUME NEW type \in Types(imp), i.type \in {"folder", "collection"}
                 PROVE  BitbucketChildren(content, i.id, type) # {}
        BY DEF Answers, IsListed, ListChildItems
    <2>1. o \in BitbucketAt(content, i.id) /\ o.kind # "file"
        BY <1>1, <1>7 DEF FileOrFolder
    <2> QED BY <2>1 DEF BitbucketChildren
<1> QED BY <1>9, <1>10, <1>11, <1>12

(* The names below the bucket are at the odd places of the key of a blob. *)
LEMMA BlobKeyIs ==
    ASSUME NEW x \in Things, x.path # <<>>
    PROVE  /\ FirstNames(x, 1) \in Seq(Tokens) /\ Len(FirstNames(x, 1)) = 1 /\ FirstNames(x, 1)[1] = x.path[1]
           /\ x.path[1] \in Names
           /\ BlobKey(x) \in Seq(Tokens)
           /\ Len(BlobKey(x)) \in {2 * (Len(x.path) - 1), 2 * (Len(x.path) - 1) - 1}
           /\ \A k \in 1..(Len(x.path) - 1) : BlobKey(x)[2 * k - 1] = x.path[1 + k]
<1> DEFINE n == Len(x.path)
           names == SubSeq(x.path, 2, n)
           inner == Join(names, "/")
           end == IF x.kind = "file" THEN <<>> ELSE <<"/">>
<1>1. x.path \in Seq(Names) /\ n \in Nat /\ n # 0
    BY ThingPath, NoPath
<1>2. FirstNames(x, 1) = <<x.path[1]>> /\ x.path[1] \in Names
    <2>1. 1 \in 1..Len(x.path)
        BY <1>1
    <2>2. SubSeq(x.path, 1, 1) = <<x.path[1]>>
        BY <1>1, <2>1, OneOf
    <2> QED BY <1>1, <2>1, <2>2 DEF FirstNames
<1>3. /\ names \in Seq(Names) /\ Len(names) = n - 1
      /\ \A k \in 1..(n - 1) : names[k] = x.path[1 + k]
    <2>1. 2 \in Int /\ n \in Int /\ \A k \in 2..n : x.path[k] \in Names
        BY <1>1
    <2>2. /\ names \in Seq(Names)
          /\ Len(names) = IF 2 <= n THEN n - 2 + 1 ELSE 0
          /\ \A k \in 1..(n - 2 + 1) : names[k] = x.path[2 + k - 1]
        BY <2>1, SubSeqProperties
    <2>3. n - 2 + 1 = n - 1 /\ \A k \in 1..(n - 1) : 2 + k - 1 = 1 + k
        BY <1>1
    <2> QED BY <1>1, <2>2, <2>3
<1> HIDE DEF names
<1>4. inner \in Seq(Tokens) /\ Spaced(inner, names)
    <2>1. "/" \in Tokens
        BY DEF Tokens
    <2> QED BY <1>3, <2>1, JoinIs
<1> HIDE DEF inner
<1>5. /\ Len(inner) = (IF n = 1 THEN 0 ELSE 2 * (n - 1) - 1)
      /\ \A k \in 1..(n - 1) : 2 * k - 1 \in 1..Len(inner) /\ inner[2 * k - 1] = x.path[1 + k]
    <2>1. Len(inner) = IF n - 1 = 0 THEN 0 ELSE 2 * (n - 1) - 1
        BY <1>3, <1>4 DEF Spaced
    <2>2. \A k \in 1..(n - 1) : inner[2 * k - 1] = x.path[1 + k]
        BY <1>3, <1>4 DEF Spaced
    <2> HIDE DEF n
    <2>3. n - 1 = 0 <=> n = 1
        BY <1>1
    <2>4. \A k \in 1..(n - 1) : 2 * k - 1 \in 1..(2 * (n - 1) - 1) /\ n # 1
        BY <1>1
    <2> QED BY <2>1, <2>2, <2>3, <2>4
<1>6. end \in Seq(Tokens) /\ Len(end) \in {0, 1}
    <2>1. <<"/">> \in Seq(Tokens)
        BY DEF Tokens
    <2> QED BY <2>1
<1> HIDE DEF end
<1>7. /\ inner \o end \in Seq(Tokens) /\ Len(inner \o end) = Len(inner) + Len(end)
      /\ \A k \in 1..Len(inner) : (inner \o end)[k] = inner[k]
    BY <1>4, <1>6
<1>8. CASE n = 1
    <2>1. BlobKey(x) = <<>>
        BY <1>8 DEF BlobKey
    <2> QED BY <1>1, <1>2, <1>8, <2>1 DEF Tokens
<1>9. CASE n # 1
    <2>1. BlobKey(x) = inner \o end
        <3>1. ~(n <= 1)
            <4> HIDE DEF n
            <4>1. n >= 2
                BY <1>1, <1>9, AtLeastTwo
            <4> QED BY <1>1, <4>1
        <3>2. BlobKey(x) = Inner(x, 1) \o end
            BY <3>1 DEF BlobKey, end
        <3>3. Inner(x, 1) = inner
            BY DEF Inner, inner, names
        <3> QED BY <3>2, <3>3
    <2>2. Len(inner) + Len(end) \in {2 * (n - 1), 2 * (n - 1) - 1}
        <3>1. Len(inner) = 2 * (n - 1) - 1
            BY <1>5, <1>9
        <3>2. \A e \in {0, 1}, l \in Int : l - 1 + e \in {l, l - 1}
            OBVIOUS
        <3>3. 2 * (n - 1) \in Int
            BY <1>1
        <3> HIDE DEF n
        <3> QED BY <1>6, <3>1, <3>2, <3>3
    <2>3. FirstNames(x, 1) \in Seq(Tokens) /\ Len(FirstNames(x, 1)) = 1 /\ FirstNames(x, 1)[1] = x.path[1]
        <3>1. x.path[1] \in Tokens
            BY <1>2 DEF Tokens
        <3> QED BY <1>2, <3>1, OneToken
    <2> QED BY <1>2, <1>5, <1>7, <2>1, <2>2, <2>3
<1> QED BY <1>8, <1>9

LEMMA BlobSplit ==
    ASSUME NEW x \in Things, x.path # <<>>
    PROVE  SplitOnce(BlobItem(x).id, ":/") = {<<FirstNames(x, 1), BlobKey(x)>>}
<1>1. /\ FirstNames(x, 1) \in Seq(Tokens) /\ Len(FirstNames(x, 1)) = 1 /\ FirstNames(x, 1)[1] \in Names
      /\ BlobKey(x) \in Seq(Tokens)
    BY BlobKeyIs
<1>2. ":/" \in Tokens /\ ":/" \notin Names
    BY DEF Tokens, Names
<1>3. Lacks(FirstNames(x, 1), ":/")
    BY <1>1, <1>2 DEF Lacks
<1>4. BlobItem(x).id = FirstNames(x, 1) \o <<":/">> \o BlobKey(x)
    BY DEF BlobItem, Item
<1> QED BY <1>1, <1>2, <1>3, <1>4, SplitTokens

LEMMA BlobsDiffer ==
    ASSUME NEW x \in Things, NEW y \in Things, x.path # <<>>, y.path # <<>>,
           FirstNames(x, 1) = FirstNames(y, 1), BlobKey(x) = BlobKey(y)
    PROVE  x.path = y.path
<1> DEFINE m == Len(x.path)
           n == Len(y.path)
           key == BlobKey(x)
<1>1. x.path \in Seq(Names) /\ y.path \in Seq(Names) /\ m \in Nat \ {0} /\ n \in Nat \ {0}
    BY ThingPath, NoPath
<1>2. /\ key \in Seq(Tokens)
      /\ Len(key) \in {2 * (m - 1), 2 * (m - 1) - 1}
      /\ \A k \in 1..(m - 1) : key[2 * k - 1] = x.path[1 + k]
    BY BlobKeyIs
<1>3. /\ Len(key) \in {2 * (n - 1), 2 * (n - 1) - 1}
      /\ \A k \in 1..(n - 1) : key[2 * k - 1] = y.path[1 + k]
    BY BlobKeyIs
<1>4. x.path[1] = y.path[1]
    BY BlobKeyIs
<1>5. m = n
    <2> HIDE DEF m, n, key
    <2>1. Len(key) \in Nat
        BY <1>2
    <2> DEFINE l == Len(key)
    <2> HIDE DEF l
    <2>2. l \in Nat /\ l \in {2 * (m - 1), 2 * (m - 1) - 1} /\ l \in {2 * (n - 1), 2 * (n - 1) - 1}
        BY <1>2, <1>3, <2>1 DEF l
    <2> QED BY <1>1, <2>2
<1>6. ASSUME NEW k \in 1..m PROVE x.path[k] = y.path[k]
    <2>1. CASE k = 1
        BY <1>4, <2>1
    <2>2. CASE k # 1
        <3> HIDE DEF m, n, key
        <3>1. k - 1 \in 1..(m - 1) /\ k - 1 \in 1..(n - 1) /\ 1 + (k - 1) = k
            BY <1>1, <1>5, <2>2
        <3> QED BY <1>2, <1>3, <3>1
    <2> QED BY <2>1, <2>2
<1> QED BY <1>1, <1>5, <1>6, SeqEqual

LEMMA BlobFound ==
    ASSUME imp \in {"s3", "azure"}, NEW d, NEW o, NEW i, Origin(d, o, i), o.path # <<>>, i.id = BlobItem(o).id
    PROVE  BlobAt(content, i.id) = {o}
<1>1. Tree(content) /\ content \subseteq Things /\ o \in content
    BY PathOrigin DEF KeyedImps
<1>2. SplitOnce(i.id, ":/") = {<<FirstNames(o, 1), BlobKey(o)>>}
    BY <1>1, BlobSplit
<1>3. ASSUME NEW x \in content \ Account(content)
      PROVE  <<FirstNames(x, 1), BlobKey(x)>> \in SplitOnce(i.id, ":/") <=> x = o
    <2>1. x.path # <<>> /\ x \in Things /\ o \in Things
        BY <1>1 DEF Account, At
    <2>2. FirstNames(x, 1) = FirstNames(o, 1) /\ BlobKey(x) = BlobKey(o) => x.path = o.path
        BY <2>1, BlobsDiffer
    <2> QED BY <1>1, <1>2, <2>2 DEF Tree
<1>4. o \notin Account(content)
    BY DEF Account, At
<1> QED BY <1>1, <1>3, <1>4 DEF BlobAt

LEMMA S3Leads ==
    ASSUME imp = "s3", NEW d, NEW o, NEW i, Origin(d, o, i)
    PROVE  (o.kind \in {"account", "repository", "bucket"} => Opens(i)) /\ Lists(i) /\ Answers(i) /\ Describes(i)
<1>1. /\ Tree(content) /\ o \in content /\ i.of = o.oid /\ Now(i.of) = {o}
      /\ WellFormed(imp, content) /\ Form(imp, content, i, o)
      /\ i.root => i.type \in {"folder", "collection"}
    BY PathOrigin DEF KeyedImps
<1>2. HasBuckets(content) /\ S3Form(i, o)
    BY <1>1 DEF WellFormed, Form
<1>3. /\ OfKinds(content, {"account", "bucket", "folder", "file"})
      /\ o.path # <<>> /\ i.type \in {"file", "folder"}
      /\ i.type = "file" => o.kind = "file"
      /\ i.type = "folder" => o.kind # "file" /\ i.id = BlobItem(o).id
      /\ o.kind # "file" => i.type = "folder"
    BY <1>2 DEF HasBuckets, S3Form, Named, FileOrFolder
<1>4. i.type = "folder" => BlobAt(content, i.id) = {o}
    BY <1>3, BlobFound
<1>5. \A x : BlobItem(x).of = x.oid /\ BlobItem(x).type = FileOrFolder(x)
    BY DEF BlobItem, Item
<1>6. ASSUME o.kind \in {"account", "repository", "bucket"}
      PROVE  Opens(i)
    <2>1. o.kind = "bucket" /\ i.type = "folder"
        BY <1>1, <1>2, <1>3, <1>6, NoPath DEF HasBuckets, OfKinds, AtLevel, Tree
    <2>2. S3Info(content, i.id) = {[BlobItem(o) EXCEPT !.id = i.id]}
        BY <1>4, <2>1 DEF S3Info
    <2>3. [BlobItem(o) EXCEPT !.id = i.id].of = o.oid /\ [BlobItem(o) EXCEPT !.id = i.id].type = "folder"
        BY <2>1 DEF BlobItem, Item, FileOrFolder
    <2>4. GetItemInfo(imp, content, i.id) = {[BlobItem(o) EXCEPT !.id = i.id]}
        BY <2>2 DEF GetItemInfo
    <2> QED BY <1>1, <2>1, <2>3, <2>4 DEF Opens
<1>7. Lists(i)
    <2> SUFFICES ASSUME NEW type \in Types(imp), NEW items \in ListChildItems(imp, content, i.id, type),
                        i.type = "folder"
                 PROVE  {y.of : y \in items} = Expected(o, Asked(i, type))
        BY <1>1, <1>3 DEF Lists, IsListed
    <2> DEFINE all == {BlobItem(y) : y \in Under(content, o.path)}
    <2>0. items \in S3Children(content, i.id, type)
        BY DEF ListChildItems
    <2>1. items = OfType(all, type)
        BY <1>3, <1>4, <2>0 DEF S3Children
    <2>2. ItemsOf(all, Under(content, o.path))
        BY <1>5 DEF ItemsOf
    <2>3. NoDrafts(Under(content, o.path))
        BY <1>3, NoDraftKinds
    <2>4. imp \notin CitationImps /\ Asked(i, type) = type
        BY DEF CitationImps, Asked
    <2> HIDE DEF all
    <2> QED BY <2>1, <2>2, <2>3, <2>4, AllListed
<1>8. Describes(i)
    <2>1. i.root => S3Wb(content, i.id) = {o}
        BY <1>1, <1>3, <1>4 DEF S3Wb
    <2> QED BY <1>1, <2>1 DEF Describes, BuildWbConfig
<1>9. Answers(i)
    <2> SUFFICES ASSUME NEW type \in Types(imp), i.type = "folder"
                 PROVE  S3Children(content, i.id, type) # {}
        BY <1>3 DEF Answers, IsListed, ListChildItems
    <2>1. o \in BlobAt(content, i.id) /\ o.kind # "file"
        BY <1>3, <1>4
    <2> QED BY <2>1 DEF S3Children
<1> QED BY <1>6, <1>7, <1>8, <1>9

LEMMA AzureLeads ==
    ASSUME imp = "azure", NEW d, NEW o, NEW i, Origin(d, o, i)
    PROVE  (o.kind \in {"account", "repository", "bucket"} => Opens(i)) /\ Lists(i) /\ Answers(i) /\ Describes(i)
<1>1. /\ Tree(content) /\ o \in content /\ i.of = o.oid /\ Now(i.of) = {o}
      /\ WellFormed(imp, content) /\ Form(imp, content, i, o)
      /\ i.root => i.type \in {"folder", "collection"}
    BY PathOrigin DEF KeyedImps
<1>2. HasBuckets(content) /\ AzureForm(i, o)
    BY <1>1 DEF WellFormed, Form
<1>3. /\ OfKinds(content, {"account", "bucket", "folder", "file"})
      /\ o.path # <<>> /\ i.id = BlobItem(o).id
      /\ i.type = "folder" => o.kind # "file"
    BY <1>2 DEF HasBuckets, AzureForm, FileOrFolder
<1>4. BlobAt(content, i.id) = {o}
    BY <1>3, BlobFound
<1>5. \A x : BlobItem(x).of = x.oid /\ BlobItem(x).type = FileOrFolder(x)
    BY DEF BlobItem, Item
<1>6. ASSUME o.kind \in {"account", "repository", "bucket"}
      PROVE  Opens(i)
    <2>1. o.kind = "bucket" /\ Len(o.path) = 1
        BY <1>1, <1>2, <1>3, <1>6, NoPath DEF HasBuckets, OfKinds, AtLevel, Tree
    <2>2. i.type = "folder"
        BY <1>2, <2>1 DEF AzureForm, FileOrFolder
    <2>3. AzureInfo(content, i.id) = {Item(i.id, "folder", o)}
        BY <1>4, <2>1 DEF AzureInfo
    <2>4. Item(i.id, "folder", o).of = o.oid /\ Item(i.id, "folder", o).type = "folder"
        BY DEF Item
    <2>5. GetItemInfo(imp, content, i.id) = {Item(i.id, "folder", o)}
        BY <2>3 DEF GetItemInfo
    <2> QED BY <1>1, <2>2, <2>4, <2>5 DEF Opens
<1>7. Lists(i)
    <2>0. i.type # "collection"
        BY <1>2 DEF AzureForm, FileOrFolder
    <2> SUFFICES ASSUME NEW type \in Types(imp), NEW items \in ListChildItems(imp, content, i.id, type),
                        i.type = "folder"
                 PROVE  {y.of : y \in items} = Expected(o, Asked(i, type))
        BY <1>1, <2>0 DEF Lists, IsListed
    <2> DEFINE all == {BlobItem(y) : y \in Under(content, o.path)}
    <2>5. items \in AzureChildren(content, i.id, type)
        BY DEF ListChildItems
    <2>1. items = OfType(all, type)
        BY <1>3, <1>4, <2>5 DEF AzureChildren
    <2>2. ItemsOf(all, Under(content, o.path))
        BY <1>5 DEF ItemsOf
    <2>3. NoDrafts(Under(content, o.path))
        BY <1>3, NoDraftKinds
    <2>4. imp \notin CitationImps /\ Asked(i, type) = type
        BY DEF CitationImps, Asked
    <2> HIDE DEF all
    <2> QED BY <2>1, <2>2, <2>3, <2>4, AllListed
<1>8. Describes(i)
    <2>1. AzureWb(content, i.id) = {o}
        BY <1>4 DEF AzureWb
    <2> QED BY <1>1, <2>1 DEF Describes, BuildWbConfig
<1>9. Answers(i)
    <2>0. i.type # "collection"
        BY <1>2 DEF AzureForm, FileOrFolder
    <2> SUFFICES ASSUME NEW type \in Types(imp), i.type = "folder"
                 PROVE  AzureChildren(content, i.id, type) # {}
        BY <2>0 DEF Answers, IsListed, ListChildItems
    <2>1. o \in BlobAt(content, i.id) /\ o.kind # "file"
        BY <1>3, <1>4
    <2> QED BY <2>1 DEF AzureChildren
<1> QED BY <1>6, <1>7, <1>8, <1>9

(* What is left of a path behind its first names. *)
LEMMA RestIs ==
    ASSUME NEW x \in Things, NEW n \in Nat, n <= Len(x.path)
    PROVE  LET rest == SubSeq(x.path, n + 1, Len(x.path))
           IN  /\ rest \in Seq(Names) /\ Len(rest) = Len(x.path) - n
               /\ \A k \in 1..(Len(x.path) - n) : rest[k] = x.path[n + k]
<1> DEFINE l == Len(x.path)
           rest == SubSeq(x.path, n + 1, l)
<1>1. x.path \in Seq(Names) /\ l \in Nat
    BY ThingPath
<1>2. n + 1 \in Int /\ l \in Int /\ \A k \in (n + 1)..l : x.path[k] \in Names
    BY <1>1
<1>3. /\ rest \in Seq(Names)
      /\ Len(rest) = IF n + 1 <= l THEN l - (n + 1) + 1 ELSE 0
      /\ \A k \in 1..(l - (n + 1) + 1) : rest[k] = x.path[n + 1 + k - 1]
    BY <1>2, SubSeqProperties
<1> HIDE DEF rest
<1>4. l - (n + 1) + 1 = l - n /\ \A k \in 1..(l - n) : n + 1 + k - 1 = n + k
    BY <1>1
<1>5. Len(rest) = l - n
    BY <1>1, <1>3
<1>6. \A k \in 1..(l - n) : rest[k] = x.path[n + k]
    BY <1>3, <1>4
<1> QED BY <1>3, <1>5, <1>6 DEF rest

LEMMA InnerIs ==
    ASSUME NEW x \in Things, NEW n \in Nat, n <= Len(x.path)
    PROVE  Inner(x, n) \in Seq(Tokens)
<1>1. SubSeq(x.path, n + 1, Len(x.path)) \in Seq(Names)
    BY RestIs
<1>2. "/" \in Tokens
    BY DEF Tokens
<1> QED BY <1>1, <1>2, JoinIs DEF Inner

(* In one place, the path inside is all there is to a path. *)
LEMMA InnerInjective ==
    ASSUME NEW x \in Things, NEW y \in Things, NEW n \in Nat, n <= Len(x.path), n <= Len(y.path),
           \A k \in 1..n : x.path[k] = y.path[k], Inner(x, n) = Inner(y, n)
    PROVE  x.path = y.path
<1> DEFINE l == Len(x.path)
           m == Len(y.path)
           u == SubSeq(x.path, n + 1, l)
           v == SubSeq(y.path, n + 1, m)
<1>1. x.path \in Seq(Names) /\ y.path \in Seq(Names) /\ l \in Nat /\ m \in Nat
    BY ThingPath
<1>2. u \in Seq(Names) /\ Len(u) = l - n /\ \A k \in 1..(l - n) : u[k] = x.path[n + k]
    BY RestIs
<1>3. v \in Seq(Names) /\ Len(v) = m - n /\ \A k \in 1..(m - n) : v[k] = y.path[n + k]
    BY RestIs
<1>4. Join(u, "/") = Join(v, "/") /\ "/" \in Tokens
    BY DEF Inner, Tokens
<1> HIDE DEF u, v
<1>5. u = v
    BY <1>2, <1>3, <1>4, JoinInjective
<1>6. l = m
    BY <1>1, <1>2, <1>3, <1>5
<1>7. ASSUME NEW k \in 1..l PROVE x.path[k] = y.path[k]
    <2>1. CASE k <= n
        <3>1. k \in 1..n
            BY <2>1
        <3> QED BY <3>1
    <2>2. CASE ~(k <= n)
        <3> HIDE DEF l, m
        <3>1. k - n \in 1..(l - n) /\ k - n \in 1..(m - n) /\ n + (k - n) = k
            BY <1>1, <1>6, <2>2
        <3> QED BY <1>2, <1>3, <1>5, <3>1
    <2> QED BY <2>1, <2>2
<1> QED BY <1>1, <1>6, <1>7, SeqEqual

(* The project that an item is in. *)
IsProjectOf(c, p, x) == p \in c /\ p.kind = "repository" /\ IsPrefix(p.path, x.path)

NoNesting(c) == \A p, q \in {p \in c : p.kind = "repository"} : IsPrefix(p.path, q.path) => p = q

LEMMA ProjectIs ==
    ASSUME NEW c, Tree(c), NoNesting(c), NEW x \in c, NEW p, IsProjectOf(c, p, x)
    PROVE  /\ GitlabProject(c, x) = p
           /\ p \in Things /\ Len(p.path) \in Nat /\ Len(p.path) <= Len(x.path)
           /\ \A k \in 1..Len(p.path) : x.path[k] = p.path[k]
<1>1. \A y \in c : y.path \in Seq(Names) /\ Len(y.path) \in Nat
    BY ThingPath DEF Tree
<1>2. ASSUME NEW q, IsProjectOf(c, q, x) PROVE q = p
    <2>1. IsPrefix(p.path, q.path) \/ IsPrefix(q.path, p.path)
        <3>1. p.path \in Seq(Names) /\ q.path \in Seq(Names) /\ x.path \in Seq(Names)
            BY <1>1, <1>2 DEF IsProjectOf
        <3>2. IsPrefix(p.path, x.path) /\ IsPrefix(q.path, x.path)
            BY <1>2 DEF IsProjectOf
        <3>3. Len(p.path) <= Len(q.path) \/ Len(q.path) <= Len(p.path)
            BY <1>1, <1>2 DEF IsProjectOf
        <3> QED BY <3>1, <3>2, <3>3, PrefixOfPrefix
    <2> QED BY <1>2, <2>1 DEF IsProjectOf, NoNesting
<1>3. GitlabProject(c, x) = CHOOSE q \in c : q.kind = "repository" /\ IsPrefix(q.path, x.path)
    BY DEF GitlabProject
<1>4. GitlabProject(c, x) = p
    BY <1>2, <1>3 DEF IsProjectOf
<1>5. Len(p.path) <= Len(x.path) /\ \A k \in 1..Len(p.path) : x.path[k] = p.path[k]
    BY <1>1, PathPrefix DEF IsProjectOf
<1> QED BY <1>1, <1>4, <1>5 DEF IsProjectOf, Tree

(* The id of an item is that of its project and the path inside. *)
LEMMA GitlabSplit ==
    ASSUME NEW p \in Things, NEW x \in Things, Len(p.path) <= Len(x.path)
    PROVE  SplitOnce(Join(p.path, "%2F") \o <<":">> \o Inner(x, Len(p.path)), ":")
             = {<<Join(p.path, "%2F"), Inner(x, Len(p.path))>>}
<1>1. p.path \in Seq(Names) /\ Len(p.path) \in Nat /\ "%2F" \in Tokens /\ ":" \in Tokens
    BY ThingPath DEF Tokens
<1>2. /\ Join(p.path, "%2F") \in Seq(Tokens)
      /\ \A k \in 1..Len(Join(p.path, "%2F")) : Join(p.path, "%2F")[k] \in Names \cup {"%2F"}
    BY <1>1, JoinIs
<1>3. ":" \notin Names
    BY DEF Names
<1>4. Lacks(Join(p.path, "%2F"), ":")
    BY <1>2, <1>3 DEF Lacks
<1>5. Inner(x, Len(p.path)) \in Seq(Tokens)
    BY <1>1, InnerIs
<1> QED BY <1>1, <1>2, <1>4, <1>5, SplitTokens

LEMMA GitlabFound ==
    ASSUME imp = "gitlab", NEW d, NEW o, NEW i, Origin(d, o, i)
    PROVE  /\ GitlabAt(content, i.id) = {o}
           /\ i.type = FileOrFolder(o)
           /\ o.kind = "repository" => SplitOnce(i.id, ":") = {<<Join(o.path, "%2F"), Inner(o, Len(o.path))>>}
<1>1. /\ Tree(content) /\ content \subseteq Things /\ o \in content
      /\ WellFormed(imp, content) /\ Form(imp, content, i, o)
    BY PathOrigin DEF KeyedImps
<1>2. NoNesting(content) /\ GitlabForm(content, i, o)
    BY <1>1 DEF WellFormed, Form, NoNesting
<1>3. PICK p : /\ IsProjectOf(content, p, o)
               /\ Named(i, Join(p.path, "%2F") \o <<":">> \o Inner(o, Len(p.path)), FileOrFolder(o))
    BY <1>2 DEF GitlabForm, IsProjectOf
<1> DEFINE repo == Join(p.path, "%2F")
           inner == Inner(o, Len(p.path))
<1>4. /\ GitlabProject(content, o) = p /\ p \in Things /\ Len(p.path) \in Nat /\ Len(p.path) <= Len(o.path)
      /\ \A k \in 1..Len(p.path) : o.path[k] = p.path[k]
    BY <1>1, <1>2, <1>3, ProjectIs
<1>5. SplitOnce(i.id, ":") = {<<repo, inner>>}
    <2>1. i.id = repo \o <<":">> \o inner
        BY <1>3 DEF Named
    <2>2. SplitOnce(repo \o <<":">> \o inner, ":") = {<<repo, inner>>}
        BY <1>1, <1>4, GitlabSplit
    <2> QED BY <2>1, <2>2
<1>6. ASSUME NEW x \in GitlabInProject(content)
      PROVE  <<GitlabRepoId(content, x), Inner(x, Len(GitlabProject(content, x).path))>> \in GitlabParse(i.id) <=> x = o
    <2>0. x \in content
        BY DEF GitlabInProject
    <2>1. PICK q : IsProjectOf(content, q, x)
        BY DEF GitlabInProject, IsProjectOf
    <2>2. /\ GitlabProject(content, x) = q /\ q \in Things /\ Len(q.path) \in Nat /\ Len(q.path) <= Len(x.path)
          /\ \A k \in 1..Len(q.path) : x.path[k] = q.path[k]
        BY <1>1, <1>2, <2>0, <2>1, ProjectIs
    <2>3. GitlabParse(i.id) = {<<repo, inner>>}
        BY <1>5 DEF GitlabParse
    <2>4. GitlabRepoId(content, x) = Join(q.path, "%2F")
        BY <2>2 DEF GitlabRepoId
    <2>5. ASSUME Join(q.path, "%2F") = repo, Inner(x, Len(q.path)) = inner
          PROVE  x = o
        <3>1. q.path \in Seq(Names) /\ p.path \in Seq(Names) /\ "%2F" \in Tokens
            BY <1>4, <2>2, ThingPath DEF Tokens
        <3>2. q.path = p.path
            BY <2>5, <3>1, JoinInjective
        <3>3. \A k \in 1..Len(p.path) : x.path[k] = o.path[k]
            BY <1>4, <2>2, <3>2
        <3>4. Inner(x, Len(p.path)) = Inner(o, Len(p.path)) /\ Len(p.path) <= Len(x.path)
            BY <2>2, <2>5, <3>2
        <3>5. x.path = o.path
            BY <1>1, <1>4, <2>0, <3>3, <3>4, InnerInjective
        <3> QED BY <1>1, <2>0, <3>5 DEF Tree
    <2>6. ASSUME x = o
          PROVE  Join(q.path, "%2F") = repo /\ Inner(x, Len(q.path)) = inner
        BY <1>4, <2>2, <2>6
    <2> HIDE DEF repo, inner
    <2> QED BY <2>2, <2>3, <2>4, <2>5, <2>6
<1>7. o \in GitlabInProject(content)
    BY <1>1, <1>3 DEF GitlabInProject, IsProjectOf
<1>8. GitlabAt(content, i.id) = {o}
    BY <1>6, <1>7 DEF GitlabAt
<1>9. o.kind = "repository" => p = o
    BY <1>1, <1>2, <1>3 DEF NoNesting, IsProjectOf
<1>10. i.type = FileOrFolder(o)
    BY <1>3 DEF Named
<1> QED BY <1>5, <1>8, <1>9, <1>10

LEMMA GitlabLeads ==
    ASSUME imp = "gitlab", NEW d, NEW o, NEW i, Origin(d, o, i)
    PROVE  Opens(i) /\ Lists(i) /\ Answers(i) /\ Describes(i)
<1>1. /\ Tree(content) /\ content \subseteq Things /\ o \in content /\ i.of = o.oid /\ Now(i.of) = {o}
      /\ WellFormed(imp, content)
    BY PathOrigin DEF KeyedImps
<1>2. OfKinds(content, {"account", "workspace", "repository", "folder", "file"})
    BY <1>1 DEF WellFormed, HasRepositories
<1>3. /\ GitlabAt(content, i.id) = {o}
      /\ i.type = FileOrFolder(o)
      /\ o.kind = "repository" => SplitOnce(i.id, ":") = {<<Join(o.path, "%2F"), Inner(o, Len(o.path))>>}
    BY GitlabFound
<1>4. \A x : GitlabItem(content, x).of = x.oid /\ GitlabItem(content, x).type = FileOrFolder(x)
    BY DEF GitlabItem, Item
<1>5. Opens(i)
    <2> DEFINE item(x) == [GitlabItem(content, x) EXCEPT !.id = i.id]
    <2>1. GetItemInfo(imp, content, i.id) = {item(x) : x \in {o}}
        BY <1>3 DEF GetItemInfo, GitlabInfo
    <2>2. item(o).of = o.oid /\ item(o).type = FileOrFolder(o)
        BY DEF GitlabItem, Item
    <2> HIDE DEF item
    <2> QED BY <1>1, <1>3, <2>1, <2>2 DEF Opens
<1>6. Lists(i)
    <2> SUFFICES ASSUME NEW type \in Types(imp), NEW items \in ListChildItems(imp, content, i.id, type),
                        i.type = "folder"
                 PROVE  {y.of : y \in items} = Expected(o, Asked(i, type))
        BY <1>1, <1>3 DEF Lists, IsListed, FileOrFolder
    <2> DEFINE all == {GitlabItem(content, y) : y \in Under(content, o.path)}
    <2>0. items \in GitlabChildren(content, i.id, type)
        BY DEF ListChildItems
    <2>1. items = OfType(all, type)
        BY <1>3, <2>0 DEF GitlabChildren, FileOrFolder
    <2>2. ItemsOf(all, Under(content, o.path))
        BY <1>4 DEF ItemsOf
    <2>3. NoDrafts(Under(content, o.path))
        BY <1>2, NoDraftKinds
    <2>4. imp \notin CitationImps /\ Asked(i, type) = type
        BY DEF CitationImps, Asked
    <2> HIDE DEF all
    <2> QED BY <2>1, <2>2, <2>3, <2>4, AllListed
<1>7. Describes(i)
    <2> SUFFICES ASSUME DescribesRoot(i)
                 PROVE  GitlabWb(content, i.id) = {o}
        BY <1>1 DEF Describes, BuildWbConfig
    <2>1. o.kind = "repository" /\ Len(o.path) = 2
        BY <1>1 DEF DescribesRoot
    <2> DEFINE p == <<Join(o.path, "%2F"), Inner(o, Len(o.path))>>
    <2>2. GitlabParse(i.id) = {p} /\ p[1] = Join(o.path, "%2F")
        BY <1>3, <2>1 DEF GitlabParse
    <2> HIDE DEF p
    <2>3. \A x \in content : Join(x.path, "%2F") = Join(o.path, "%2F") <=> x = o
        <3>1. \A x \in content : x.path \in Seq(Names)
            BY <1>1, ThingPath
        <3>2. "%2F" \in Tokens
            BY DEF Tokens
        <3> QED BY <1>1, <3>1, <3>2, JoinInjective DEF Tree
    <2> QED BY <1>1, <2>1, <2>2, <2>3 DEF GitlabWb
<1>8. Answers(i)
    <2> SUFFICES ASSUME NEW type \in Types(imp), i.type = "folder"
                 PROVE  GitlabChildren(content, i.id, type) # {}
        BY <1>3 DEF Answers, IsListed, ListChildItems, FileOrFolder
    <2>1. o \in GitlabAt(content, i.id) /\ o.kind # "file"
        BY <1>3 DEF FileOrFolder
    <2> QED BY <2>1 DEF GitlabChildren
<1> QED BY <1>5, <1>6, <1>7, <1>8

(***************************************************************************)
(* GitHub.                                                                 *)
(***************************************************************************)
LEMMA FullNameIs ==
    ASSUME NEW x \in Things, Len(x.path) >= 2
    PROVE  /\ FullName(x) \in Seq(Tokens) /\ Len(FullName(x)) = 3
           /\ Lacks(FullName(x), ":")
           /\ FullName(x)[1] = x.path[1] /\ FullName(x)[2] = "/" /\ FullName(x)[3] = x.path[2]
           /\ x.path[1] \in Names
<1> DEFINE names == SubSeq(x.path, 1, 2)
           full == Join(names, "/")
<1>1. x.path \in Seq(Names) /\ Len(x.path) \in Nat /\ "/" \in Tokens /\ ":" \notin Names
    BY ThingPath DEF Tokens, Names
<1>2. names \in Seq(Names) /\ Len(names) = 2 /\ names[1] = x.path[1] /\ names[2] = x.path[2] /\ x.path[1] \in Names
    <2>1. 1 \in Int /\ 2 \in Int /\ \A k \in 1..2 : x.path[k] \in Names
        BY <1>1
    <2>2. /\ names \in Seq(Names)
          /\ Len(names) = IF 1 <= 2 THEN 2 - 1 + 1 ELSE 0
          /\ \A k \in 1..(2 - 1 + 1) : names[k] = x.path[1 + k - 1]
        BY <2>1, SubSeqProperties
    <2> HIDE DEF names
    <2>3. names[1] = x.path[1 + 1 - 1] /\ names[2] = x.path[1 + 2 - 1]
        BY <2>2
    <2> QED BY <2>1, <2>2, <2>3
<1> HIDE DEF names
<1>3. full \in Seq(Tokens) /\ Spaced(full, names) /\ \A k \in 1..Len(full) : full[k] \in Names \cup {"/"}
    BY <1>1, <1>2, JoinIs
<1>4. full[2] = "/"
    <2>1. full = [k \in 1..(2 * 2 - 1) |-> IF k % 2 = 1 THEN names[(k + 1) \div 2] ELSE "/"]
        BY <1>2 DEF Join
    <2>2. 2 \in 1..(2 * 2 - 1) /\ 2 % 2 # 1
        OBVIOUS
    <2> QED BY <2>1, <2>2
<1> HIDE DEF full
<1>5. Len(full) = 3 /\ full[1] = x.path[1] /\ full[3] = x.path[2]
    <2>1. Len(full) = 2 * 2 - 1
        BY <1>2, <1>3 DEF Spaced
    <2>2. full[2 * 1 - 1] = names[1] /\ full[2 * 2 - 1] = names[2]
        BY <1>2, <1>3 DEF Spaced
    <2> QED BY <1>2, <2>1, <2>2
<1>6. Lacks(full, ":")
    BY <1>1, <1>3 DEF Lacks
<1>7. FullName(x) = full
    BY DEF FullName, FirstNames, full, names
<1> QED BY <1>2, <1>3, <1>4, <1>5, <1>6, <1>7

LEMMA FullNameSame ==
    ASSUME NEW x \in Things, NEW y \in Things, Len(x.path) >= 2, Len(y.path) >= 2, FullName(x) = FullName(y)
    PROVE  \A k \in 1..2 : x.path[k] = y.path[k]
<1>1. FullName(x)[1] = x.path[1] /\ FullName(x)[3] = x.path[2]
    BY FullNameIs
<1>2. FullName(y)[1] = y.path[1] /\ FullName(y)[3] = y.path[2]
    BY FullNameIs
<1> QED BY <1>1, <1>2

(* The part in front of the first colon is a full name: it has a slash. *)
LEMMA GithubSplit ==
    ASSUME NEW x \in Things, Len(x.path) >= 2, NEW b \in Seq(Tokens)
    PROVE  GithubParse(FullName(x) \o <<":">> \o b) = {<<FullName(x), b>>}
<1> DEFINE full == FullName(x)
<1>1. full \in Seq(Tokens) /\ Len(full) = 3 /\ Lacks(full, ":") /\ full[2] = "/" /\ full[1] # "/"
    <2>1. "/" \notin Names
        BY DEF Names
    <2> QED BY <2>1, FullNameIs
<1> HIDE DEF full
<1>2. ":" \in Tokens
    BY DEF Tokens
<1>3. SplitOnce(full \o <<":">> \o b, ":") = {<<full, b>>}
    BY <1>1, <1>2, SplitTokens
<1>4. SplitOnce(full, "/") # {}
    <2>1. 2 \in DOMAIN full /\ full[2] = "/" /\ \A j \in 1..(2 - 1) : full[j] # "/"
        BY <1>1
    <2> DEFINE pair(j) == <<SubSeq(full, 1, j - 1), SubSeq(full, j + 1, Len(full))>>
               at == {k \in DOMAIN full : full[k] = "/" /\ \A j \in 1..(k - 1) : full[j] # "/"}
    <2>2. SplitOnce(full, "/") = {pair(j) : j \in at}
        BY Zenon DEF SplitOnce
    <2>3. 2 \in at
        BY <2>1
    <2> HIDE DEF pair, at
    <2> QED BY <2>2, <2>3
<1> DEFINE p == <<full, b>>
<1>5. p[1] = full
    OBVIOUS
<1> HIDE DEF p
<1>6. GithubParse(full \o <<":">> \o b) = {p}
    <2>1. SplitOnce(full \o <<":">> \o b, ":") = {p}
        BY <1>3 DEF p
    <2> QED BY <1>4, <1>5, <2>1 DEF GithubParse
<1> QED BY <1>6 DEF p, full

(* How long the path is in the repository, and what it is when it is one name. *)
LEMMA GithubInner ==
    ASSUME NEW x \in Things, Len(x.path) >= 2
    PROVE  /\ Inner(x, 2) \in Seq(Tokens)
           /\ Len(Inner(x, 2)) = (IF Len(x.path) = 2 THEN 0 ELSE 2 * (Len(x.path) - 2) - 1)
           /\ Len(x.path) = 3 => Inner(x, 2)[1] = x.path[3]
<1> DEFINE n == Len(x.path)
           rest == SubSeq(x.path, 2 + 1, n)
           inner == Join(rest, "/")
<1>1. n \in Nat /\ n >= 2 /\ "/" \in Tokens
    BY ThingPath DEF Tokens
<1>2. rest \in Seq(Names) /\ Len(rest) = n - 2 /\ \A k \in 1..(n - 2) : rest[k] = x.path[2 + k]
    BY <1>1, RestIs
<1> HIDE DEF rest
<1>3. inner \in Seq(Tokens) /\ Spaced(inner, rest)
    BY <1>1, <1>2, JoinIs
<1>4. Inner(x, 2) = inner
    BY DEF Inner, inner, rest
<1> HIDE DEF inner
<1>5. Len(inner) = IF n = 2 THEN 0 ELSE 2 * (n - 2) - 1
    <2>1. Len(inner) = IF n - 2 = 0 THEN 0 ELSE 2 * (n - 2) - 1
        BY <1>2, <1>3 DEF Spaced
    <2> HIDE DEF n
    <2> QED BY <1>1, <2>1
<1>6. n = 3 => inner[1] = x.path[3]
    <2> HAVE n = 3
    <2>1. Len(rest) = 1 /\ rest[1] = x.path[3]
        <3>1. Len(rest) = 3 - 2 /\ 1 \in 1..(3 - 2) /\ \A k \in 1..(3 - 2) : rest[k] = x.path[2 + k]
            BY <1>2
        <3>2. rest[1] = x.path[2 + 1]
            BY <3>1
        <3> QED BY <3>1, <3>2
    <2>2. inner[2 * 1 - 1] = rest[1]
        BY <1>3, <2>1 DEF Spaced
    <2> QED BY <2>1, <2>2
<1> QED BY <1>3, <1>4, <1>5, <1>6

LEMMA GithubFound ==
    ASSUME imp = "github", NEW d, NEW o, NEW i, Origin(d, o, i), i.type = "folder"
    PROVE  /\ (o.kind = "repository" /\ Len(o.path) = 2) \/ (o.kind = "folder" /\ Len(o.path) >= 3)
           /\ Len(o.path) <= 3 => /\ GithubAt(content, i.id) = {o}
                                  /\ {p[1] : p \in GithubParse(i.id)} = {FullName(o)}
<1>1. /\ Tree(content) /\ content \subseteq Things /\ o \in content
      /\ WellFormed(imp, content) /\ Form(imp, content, i, o)
    BY PathOrigin DEF KeyedImps
<1>2. /\ HasRepositories(content) /\ GithubForm(i, o) /\ AtLevel(content, "repository", 2)
      /\ \A x \in content : Len(x.path) # 1
    BY <1>1 DEF WellFormed, Form
<1>3. o \in Things /\ Len(o.path) \in Nat
    BY <1>1, ThingPath
<1>4. o.kind \in {"repository", "folder"}
    BY <1>2 DEF GithubForm, Named
<1>5. (o.kind = "repository" <=> Len(o.path) = 2) /\ Len(o.path) # 0 /\ Len(o.path) # 1
    BY <1>1, <1>2, <1>4 DEF HasRepositories, AtLevel
<1>6. Len(o.path) >= 2 /\ (o.kind # "repository" => Len(o.path) >= 3)
    BY <1>3, <1>5, AtLeastTwo, AtLeastThree
<1>7. ASSUME Len(o.path) <= 3
      PROVE  /\ GithubAt(content, i.id) = {o}
             /\ {q[1] : q \in GithubParse(i.id)} = {FullName(o)}
    <2> DEFINE b == Inner(o, 2)
               p == <<FullName(o), b>>
    <2>1. b \in Seq(Tokens) /\ FullName(o) \in Seq(Tokens)
        BY <1>3, <1>6, GithubInner, FullNameIs
    <2>2. i.id = FullName(o) \o <<":">> \o b
        <3>1. CASE o.kind = "repository"
            <4>1. i.id = FullName(o) \o <<":">> /\ Len(o.path) = 2
                BY <1>2, <1>5, <3>1 DEF GithubForm, Named
            <4>2. FullName(o) \o <<":">> \in Seq(Tokens)
                <5>1. <<":">> \in Seq(Tokens)
                    BY DEF Tokens
                <5> QED BY <2>1, <5>1, ConcatProperties
            <4>3. (FullName(o) \o <<":">>) \o <<>> = FullName(o) \o <<":">>
                BY <4>2, ConcatEmptySeq
            <4>4. Len(Inner(o, 2)) = 0
                BY <1>3, <1>6, <4>1, GithubInner
            <4>5. b = <<>>
                BY <2>1, <4>4
            <4> QED BY <4>1, <4>3, <4>5
        <3>2. CASE o.kind # "repository"
            <4>1. o.kind = "folder" /\ Len(o.path) = 3
                <5> DEFINE n == Len(o.path)
                <5>1. n \in Nat /\ n >= 3 /\ n <= 3
                    BY <1>3, <1>6, <1>7, <3>2
                <5> HIDE DEF n
                <5>2. n = 3
                    BY <5>1
                <5> QED BY <1>4, <3>2, <5>2 DEF n
            <4> QED BY <1>2, <4>1 DEF GithubForm
        <3> QED BY <3>1, <3>2
    <2>3. GithubParse(i.id) = {p}
        BY <1>3, <1>6, <2>1, <2>2, GithubSplit
    <2>4. ASSUME NEW x \in content, Len(x.path) >= 2, <<FullName(x), Inner(x, 2)>> \in GithubParse(i.id)
          PROVE  x = o
        <3>1. FullName(x) = FullName(o) /\ Inner(x, 2) = Inner(o, 2)
            BY <2>3, <2>4
        <3>2. x \in Things /\ Len(x.path) \in Nat
            BY <1>1, ThingPath
        <3>3. \A k \in 1..2 : x.path[k] = o.path[k]
            BY <1>3, <1>6, <2>4, <3>1, <3>2, FullNameSame
        <3>4. 2 \in Nat /\ 2 <= Len(x.path) /\ 2 <= Len(o.path)
            BY <1>3, <1>6, <2>4, <3>2
        <3>5. x.path = o.path
            BY <1>3, <3>1, <3>2, <3>3, <3>4, InnerInjective
        <3> QED BY <1>1, <3>5 DEF Tree
    <2>5. GithubAt(content, i.id) = {o}
        <3>1. <<FullName(o), Inner(o, 2)>> \in GithubParse(i.id)
            BY <2>3
        <3> QED BY <1>1, <1>6, <2>4, <3>1 DEF GithubAt
    <2>6. {q[1] : q \in GithubParse(i.id)} = {FullName(o)}
        <3>1. p[1] = FullName(o)
            OBVIOUS
        <3> HIDE DEF p
        <3> QED BY <2>3, <3>1
    <2> QED BY <2>5, <2>6
<1> QED BY <1>4, <1>5, <1>6, <1>7

LEMMA GithubLeads ==
    ASSUME imp = "github", NEW d, NEW o, NEW i, Origin(d, o, i), LeftOf(Content[imp], content)
    PROVE  /\ o.kind \in {"account", "repository", "bucket"} => Opens(i)
           /\ Lists(i) /\ Answers(i) /\ Describes(i)
<1>1. /\ Tree(content) /\ content \subseteq Things /\ o \in content /\ i.of = o.oid /\ Now(i.of) = {o}
      /\ WellFormed(imp, content) /\ Form(imp, content, i, o)
      /\ i.root => i.type \in {"folder", "collection"}
    BY PathOrigin DEF KeyedImps
<1>2. HasRepositories(content) /\ GithubForm(i, o) /\ AtLevel(content, "repository", 2)
    BY <1>1 DEF WellFormed, Form
<1>3. /\ OfKinds(content, {"account", "workspace", "repository", "folder", "file"})
      /\ i.type \in {"file", "folder"}
      /\ o.kind = "repository" => Named(i, FullName(o) \o <<":">>, "folder")
      /\ i.root => o.kind = "repository"
      /\ o.kind \in {"account", "repository", "bucket"} => o.kind = "repository"
    BY <1>2 DEF HasRepositories, GithubForm, Named
<1>4. i.type = "folder" =>
          /\ (o.kind = "repository" /\ Len(o.path) = 2) \/ (o.kind = "folder" /\ Len(o.path) >= 3)
          /\ Len(o.path) <= 3 => /\ GithubAt(content, i.id) = {o}
                                 /\ {p[1] : p \in GithubParse(i.id)} = {FullName(o)}
    BY GithubFound
<1>9. i.type = "folder" /\ ~Misspelled(i) => GithubAt(content, i.id) = {o} /\ o.kind # "file"
    <2> SUFFICES ASSUME i.type = "folder", ~Misspelled(i)
                 PROVE  Len(o.path) <= 3 /\ o.kind # "file"
        BY <1>4
    <2>1. Len(o.path) \in Nat
        BY <1>1, ThingPath
    <2>2. PICK u \in Content[imp] : u.oid = o.oid /\ u.kind = o.kind /\ Len(u.path) = Len(o.path)
        BY <1>1 DEF LeftOf, SameThing
    <2>3. o.kind = "folder" => ~(Len(o.path) > 3)
        BY <1>1, <2>2 DEF Misspelled
    <2> DEFINE n == Len(o.path)
    <2>4. n \in Nat /\ (n = 2 \/ ~(n > 3)) /\ o.kind # "file"
        BY <1>4, <2>1, <2>3
    <2> HIDE DEF n
    <2>5. n <= 3
        BY <2>4
    <2> QED BY <2>4, <2>5 DEF n
<1>11. o.kind = "repository" =>
           /\ i.type = "folder" /\ Len(o.path) = 2
           /\ GithubAt(content, i.id) = {o}
           /\ {p[1] : p \in GithubParse(i.id)} = {FullName(o)}
    <2> HAVE o.kind = "repository"
    <2>1. i.type = "folder"
        BY <1>3 DEF Named
    <2>2. Len(o.path) = 2
        BY <1>4, <2>1
    <2>3. 2 <= 3
        OBVIOUS
    <2>4. Len(o.path) <= 3
        BY <2>2, <2>3
    <2> QED BY <1>4, <2>1, <2>2, <2>4
<1>5. \A x, id : GithubItem(x, id).of = x.oid /\ GithubItem(x, id).type = FileOrFolder(x)
    BY DEF GithubItem, Item, NotRoot
<1>6. ASSUME o.kind \in {"account", "repository", "bucket"}
      PROVE  Opens(i)
    <2>1. o.kind = "repository" /\ i.type = "folder" /\ Len(o.path) = 2 /\ GithubAt(content, i.id) = {o}
        BY <1>3, <1>6, <1>11
    <2>2. i.id # <<>>
        <3>1. FullName(o) \in Seq(Tokens) /\ <<":">> \in Seq(Tokens) /\ Len(<<":">>) = 1 /\ Len(FullName(o)) = 3
            <4>1. Len(o.path) >= 2
                BY <2>1
            <4> QED BY <1>1, <4>1, FullNameIs DEF Tokens
        <3>2. Len(FullName(o) \o <<":">>) = Len(FullName(o)) + Len(<<":">>)
            BY <3>1, ConcatProperties
        <3>3. i.id = FullName(o) \o <<":">>
            BY <1>3, <2>1 DEF Named
        <3>4. Len(i.id) # 0
            BY <3>1, <3>2, <3>3
        <3> QED BY <3>4
    <2> DEFINE item(x) == CASE x.kind = "repository" -> {GithubRepo(x)}
                            [] x.kind = "file" -> {GithubItem(x, i.id)}
                            [] OTHER -> {GithubItem(y, i.id) : y \in Under(content, x.path)}
    <2>3. item(o) = {GithubRepo(o)}
        BY <2>1
    <2> HIDE DEF item
    <2>4. GithubInfo(content, i.id) = UNION {item(x) : x \in {o}}
        BY <2>1, <2>2, Zenon DEF GithubInfo, item
    <2>5. GetItemInfo(imp, content, i.id) = {GithubRepo(o)}
        <3>1. GetItemInfo(imp, content, i.id) = GithubInfo(content, i.id)
            BY DEF GetItemInfo
        <3> QED BY <2>3, <2>4, <3>1
    <2>6. GithubRepo(o).of = o.oid /\ GithubRepo(o).type = "folder"
        BY DEF GithubRepo, Item
    <2> QED BY <1>1, <2>1, <2>5, <2>6 DEF Opens
<1>7. Lists(i)
    <2> SUFFICES ASSUME NEW type \in Types(imp), NEW items \in ListChildItems(imp, content, i.id, type),
                        i.type = "folder", ~Misspelled(i)
                 PROVE  {y.of : y \in items} = Expected(o, Asked(i, type))
        BY <1>1, <1>3 DEF Lists, IsListed
    <2> DEFINE all == {GithubItem(y, i.id) : y \in Under(content, o.path)}
    <2>0. items \in GithubChildren(content, i.id, type)
        BY DEF ListChildItems
    <2>1. items = OfType(all, type)
        BY <1>9, <2>0 DEF GithubChildren
    <2>2. ItemsOf(all, Under(content, o.path))
        BY <1>5 DEF ItemsOf
    <2>3. NoDrafts(Under(content, o.path))
        BY <1>3, NoDraftKinds
    <2>4. imp \notin CitationImps /\ Asked(i, type) = type
        BY DEF CitationImps, Asked
    <2> HIDE DEF all
    <2> QED BY <2>1, <2>2, <2>3, <2>4, AllListed
<1>10. Answers(i)
    <2> SUFFICES ASSUME NEW type \in Types(imp), i.type = "folder", ~Misspelled(i)
                 PROVE  ListChildItems(imp, content, i.id, type) # {}
        BY <1>3 DEF Answers, IsListed
    <2>1. GithubAt(content, i.id) = {o} /\ o.kind # "file"
        BY <1>9
    <2> DEFINE given(x) == OfType({GithubItem(y, i.id) : y \in Under(content, x.path)}, type)
    <2>2. GithubChildren(content, i.id, type) = {given(x) : x \in {x \in GithubAt(content, i.id) : x.kind # "file"}}
        BY Zenon DEF GithubChildren
    <2> HIDE DEF given
    <2>3. given(o) \in GithubChildren(content, i.id, type)
        BY <2>1, <2>2
    <2> QED BY <2>3 DEF ListChildItems
<1>8. Describes(i)
    <2> SUFFICES ASSUME i.root
                 PROVE  GithubWb(content, i.id) = {o}
        BY <1>1 DEF Describes, BuildWbConfig
    <2>1. o.kind = "repository" /\ i.type = "folder" /\ {p[1] : p \in GithubParse(i.id)} = {FullName(o)}
        BY <1>3, <1>11
    <2>2. ASSUME NEW x \in content, x.kind = "repository", FullName(x) = FullName(o)
          PROVE  x = o
        <3>1. x \in Things /\ o \in Things /\ Len(x.path) = 2 /\ Len(o.path) = 2
            BY <1>1, <1>2, <2>1, <2>2 DEF AtLevel
        <3>2. \A k \in 1..2 : x.path[k] = o.path[k]
            BY <2>2, <3>1, FullNameSame
        <3>3. x.path = o.path
            <4>1. x.path \in Seq(Names) /\ o.path \in Seq(Names)
                BY <3>1, ThingPath
            <4> QED BY <3>1, <3>2, <4>1, SeqEqual
        <3> QED BY <1>1, <3>3 DEF Tree
    <2> QED BY <1>1, <2>1, <2>2 DEF GithubWb
<1> QED BY <1>6, <1>7, <1>8, <1>10

(***************************************************************************)
(* What the operations answer was made of things in the content.           *)
(***************************************************************************)
MakesRoots(s, c) == \A items \in ListRootItems(s, c) : \A x \in items : MadeOf(s, c, x)

MakesChildren(s, c) ==
    \A id : GoodId(s, id) =>
        \A type : \A items \in ListChildItems(s, c, id, type) : \A x \in items : MadeOf(s, c, x)

MakesInfo(s, c) == \A id : GoodId(s, id) => \A x \in GetItemInfo(s, c, id) : MadeOf(s, c, x)

MakesStarts(s, c) == \A x \in StartingPoints(s, c) : MadeOf(s, c, x)

Makes(s, c) == MakesRoots(s, c) /\ MakesChildren(s, c) /\ MakesInfo(s, c) /\ MakesStarts(s, c)

LEMMA ItemIs ==
    ASSUME NEW id, NEW type, NEW o
    PROVE  /\ Item(id, type, o).id = id /\ Item(id, type, o).type = type /\ Item(id, type, o).of = o.oid
           /\ Item(id, type, o).root => type \in {"folder", "collection"}
BY DEF Item

LEMMA BoxMakes ==
    ASSUME NEW c, WellFormed("box", c)
    PROVE  Makes("box", c)
<1>1. \A o \in c : Form("box", c, BoxItem(o), o)
    BY DEF Form, BoxForm, BoxItem, Item, Named
<1>2. \A id, x : x \in BoxInfo(c, id) => \E o \in c : x = BoxItem(o)
    BY DEF BoxInfo, BoxAt, Keyed
<1>3. \A id, type : \A items \in BoxChildren(c, id, type) : \A x \in items : \E o \in c : x = BoxItem(o)
    BY DEF BoxChildren, OfType, Under
<1>4. MakesRoots("box", c)
    BY <1>1, <1>2 DEF MakesRoots, ListRootItems, BoxRoots, MadeOf
<1>5. MakesChildren("box", c)
    BY <1>1, <1>3 DEF MakesChildren, ListChildItems, MadeOf
<1>6. MakesInfo("box", c)
    BY <1>1, <1>2 DEF MakesInfo, GetItemInfo, MadeOf
<1>7. MakesStarts("box", c)
    <2> SUFFICES ASSUME NEW x \in StartingPoints("box", c) PROVE MadeOf("box", c, x)
        BY DEF MakesStarts
    <2>1. CASE \E o \in c : o.kind = "folder" /\ x = Item(<<"folder", ":", o.key>>, "folder", o)
        BY <2>1 DEF MadeOf, Form, BoxForm, Named, Item, FileOrFolder
    <2>2. CASE \E o \in Account(c) : x = Item(<<>>, "folder", o)
        BY <2>2 DEF MadeOf, Form, BoxForm, IsAccount, Named, Item, Account, At
    <2>3. GetRootFolderForProvider("box", c) = {<<<<"folder", ":", o.key>>, o>> : o \in {o \in c : o.kind = "folder"}}
        BY DEF GetRootFolderForProvider
    <2>4. FolderType("box") = "folder"
        BY DEF FolderType, CitationImps
    <2> QED BY <2>1, <2>2, <2>3, <2>4 DEF StartingPoints
<1> QED BY <1>4, <1>5, <1>6, <1>7 DEF Makes

LEMMA DropboxMakes ==
    ASSUME NEW c, WellFormed("dropbox", c)
    PROVE  Makes("dropbox", c)
<1>1. \A o \in c : o.path # <<>> => Form("dropbox", c, DropboxItem(o), o)
    BY DEF Form, DropboxKeyForm, DropboxItem, Item, Named
<1>2. \A id \in DropboxRootIds : \A o \in Account(c) : Form("dropbox", c, Item(id, "folder", o), o) /\ o \in c
    BY DEF Form, DropboxKeyForm, Item, Named, Account, At
<1>3. \A id, x : x \in DropboxInfo(c, id) => \/ \E o \in c : o.path # <<>> /\ x = DropboxItem(o)
                                             \/ \E o \in Account(c) : x = Item(<<"/">>, "folder", o)
    BY DEF DropboxInfo, DropboxAt, Account, At, DropboxRootIds
<1>4. <<"/">> \in DropboxRootIds /\ <<>> \in DropboxRootIds
    BY DEF DropboxRootIds
<1>5. MakesRoots("dropbox", c)
    BY <1>2, <1>4 DEF MakesRoots, ListRootItems, DropboxRoots, MadeOf
<1>6. MakesChildren("dropbox", c)
    <2>1. \A o \in c : \A x \in Under(c, o.path) : x \in c /\ x.path # <<>>
        BY UnderHasPath, ThingPath DEF WellFormed, Tree
    <2>2. \A id, type : \A items \in DropboxChildren(c, id, type) :
             \A x \in items : \E o \in c : o.path # <<>> /\ x = DropboxItem(o)
        BY <2>1 DEF DropboxChildren, OfType, DropboxAt, Account, At
    <2> QED BY <1>1, <2>2 DEF MakesChildren, ListChildItems, MadeOf
<1>7. MakesInfo("dropbox", c)
    BY <1>1, <1>2, <1>3, <1>4 DEF MakesInfo, GetItemInfo, MadeOf
<1>8. MakesStarts("dropbox", c)
    <2> SUFFICES ASSUME NEW x \in StartingPoints("dropbox", c) PROVE MadeOf("dropbox", c, x)
        BY DEF MakesStarts
    <2> DEFINE id(o) == IF o.path = <<>> THEN <<"/">> ELSE <<"/">> \o Join(o.path, "/")
    <2>1. FolderType("dropbox") = "folder"
        BY DEF FolderType, CitationImps
    <2>2. GetRootFolderForProvider("dropbox", c) = {<<id(o), o>> : o \in {o \in c : o.kind = "folder"}}
        BY DEF GetRootFolderForProvider
    <2>3. ASSUME NEW o \in c, o.kind = "folder", x = Item(id(o), "folder", o)
          PROVE  MadeOf("dropbox", c, x)
        <3>1. CASE o.path = <<>>
            BY <1>2, <1>4, <2>3, <3>1 DEF MadeOf, Account, At
        <3>2. CASE o.path # <<>>
            <4>1. Form("dropbox", c, x, o)
                BY <2>3, <3>2 DEF Form, DropboxPathForm, Named, Item
            <4> QED BY <4>1 DEF MadeOf
        <3> QED BY <3>1, <3>2
    <2> HIDE DEF id
    <2>4. \/ \E o \in c : o.kind = "folder" /\ x = Item(id(o), "folder", o)
          \/ \E o \in Account(c) : x = Item(<<>>, "folder", o)
        BY <2>1, <2>2 DEF StartingPoints
    <2> QED BY <1>2, <1>4, <2>3, <2>4 DEF MadeOf
<1> QED BY <1>5, <1>6, <1>7, <1>8 DEF Makes

LEMMA DriveMakes ==
    ASSUME NEW c, NEW s \in {"googledrive", "onedrive"}, WellFormed(s, c)
    PROVE  Makes(s, c)
<1>1. \A o \in c : Form(s, c, DriveItem(o), o)
    BY DEF Form, DriveForm, OneDriveForm, DriveItem, Item, Named
<1>2. MakesRoots(s, c)
    <2>1. CASE s = "googledrive"
        <3>1. \A x \in DriveInfo(c, <<"root">>) : \E o \in c : x = DriveItem(o)
            BY DEF DriveInfo, Keyed
        <3> QED BY <1>1, <2>1, <3>1 DEF MakesRoots, ListRootItems, DriveRoots, MadeOf
    <2>2. CASE s = "onedrive"
        <3>1. ASSUME NEW o \in Keyed(c, {"file", "folder"}, <<"root">>)
              PROVE  Form("onedrive", c, [DriveItem(o) EXCEPT !.id = <<"root">>], o) /\ o \in c
            BY DEF Keyed, Form, OneDriveForm, DriveItem, Item
        <3> DEFINE item(i) == [i EXCEPT !.id = <<"root">>]
        <3> HIDE DEF item
        <3>2. \A o \in Keyed(c, {"file", "folder"}, <<"root">>) : MadeOf("onedrive", c, item(DriveItem(o)))
            BY <3>1 DEF MadeOf, item
        <3>3. OneDriveRoots(c) = {{item(i) : i \in {DriveItem(o) : o \in Keyed(c, {"file", "folder"}, <<"root">>)}}}
            BY DEF OneDriveRoots, OneDriveInfo, item
        <3>4. \A items \in OneDriveRoots(c) : \A x \in items : MadeOf("onedrive", c, x)
            BY <3>2, <3>3
        <3> QED BY <2>2, <3>4 DEF MakesRoots, ListRootItems
    <2> QED BY <2>1, <2>2
<1>3. MakesChildren(s, c)
    <2>1. \A id, type : \A items \in DriveChildren(c, id, type) : \A x \in items : \E o \in c : x = DriveItem(o)
        BY DEF DriveChildren, OfType, Under
    <2>2. \A id, type : \A items \in OneDriveChildren(c, id, type) : \A x \in items : \E o \in c : x = DriveItem(o)
        BY DEF OneDriveChildren, Under
    <2> QED BY <1>1, <2>1, <2>2 DEF MakesChildren, ListChildItems, MadeOf
<1>4. MakesInfo(s, c)
    <2>1. \A id : \A x \in DriveInfo(c, id) : \E o \in c : x = DriveItem(o)
        BY DEF DriveInfo, Keyed
    <2>2. \A id : \A x \in OneDriveInfo(c, id) : \E o \in c : x = DriveItem(o)
        BY DEF OneDriveInfo, Keyed
    <2> QED BY <1>1, <2>1, <2>2 DEF MakesInfo, GetItemInfo, MadeOf
<1>5. MakesStarts(s, c)
    <2>1. GetRootFolderForProvider(s, c) = {<<<<o.key>>, o>> : o \in {o \in c : o.kind = "folder"}}
        BY DEF GetRootFolderForProvider
    <2>2. FolderType(s) = "folder" /\ s \notin TakesNoRoot
        BY DEF FolderType, CitationImps, TakesNoRoot
    <2>3. \A o \in c : o.kind = "folder" => Item(<<o.key>>, "folder", o) = DriveItem(o)
        BY DEF DriveItem, FileOrFolder
    <2> QED BY <1>1, <2>1, <2>2, <2>3 DEF MakesStarts, StartingPoints, MadeOf
<1> QED BY <1>2, <1>3, <1>4, <1>5 DEF Makes

LEMMA FigshareMakes ==
    ASSUME NEW c, WellFormed("figshare", c)
    PROVE  Makes("figshare", c)
<1>1. Tree(c) /\ c \subseteq Things /\ AtLevel(c, "account", 0) /\ Placed(c, FigshareHolds)
    BY DEF WellFormed, Tree, FigshareHolds
<1>2. ASSUME NEW o \in c, o.path # <<>>
      PROVE  Form("figshare", c, FigshareItem(c, o), o)
    <2>1. PICK a \in c : IsIn(o, a) /\ <<a.kind, o.kind>> \in FigshareHolds
        BY <1>1, <1>2 DEF Placed
    <2>2. o.kind \in {"project", "article", "file"} /\ (o.kind = "file" => a.kind = "article")
        BY <2>1 DEF FigshareHolds
    <2>3. CASE o.kind = "file"
        <3>1. Front(o.path) = a.path
            BY <1>1, <2>1, FrontIs
        <3>2. FigshareParent(c, o) = {a}
            BY <1>1, <3>1 DEF FigshareParent, At, Tree
        <3>3. FigshareItem(c, o) = Item(<<"article", "/", a.key, "/", "files", "/", o.key>>, "file", o)
            BY <2>3, <3>2 DEF FigshareItem
        <3>4. FigshareForm(c, FigshareItem(c, o), o)
            BY <2>1, <2>2, <2>3, <3>3 DEF FigshareForm, Named, Item
        <3>5. /\ FigshareItem(c, o).of = o.oid
              /\ FigshareItem(c, o).root => FigshareItem(c, o).type \in {"folder", "collection"}
            BY <3>3, ItemIs
        <3> QED BY <3>4, <3>5 DEF Form
    <2>4. CASE o.kind # "file"
        <3>1. FigshareItem(c, o) = Item(<<o.kind, "/", o.key>>, "folder", o) /\ o.kind \in {"project", "article"}
            BY <2>2, <2>4 DEF FigshareItem
        <3>2. FigshareForm(c, FigshareItem(c, o), o)
            BY <3>1 DEF FigshareForm, Named, Item
        <3> QED BY <3>1, <3>2 DEF Form, Item
    <2> QED BY <2>3, <2>4
<1>3. \A o \in c : o.path = <<>> <=> o.kind = "account"
    BY <1>1, NoPath DEF AtLevel
<1>4. \A path \in Seq(Names) : \A x \in Under(c, path) : x \in c /\ x.path # <<>>
    BY <1>1, UnderHasPath
<1>5. \A o \in c : o.path \in Seq(Names)
    BY <1>1, ThingPath
<1>6. MakesRoots("figshare", c)
    <2>1. <<>> \in Seq(Names)
        OBVIOUS
    <2> QED BY <1>2, <1>4, <2>1 DEF MakesRoots, ListRootItems, FigshareRoots, MadeOf
<1>7. \A id : FigshareAt(c, id) \subseteq {o \in c : o.path # <<>>}
    <2>1. \A id : \A o \in FigshareAt(c, id) : o \in c /\ o.kind \in {"article", "project", "file"}
        BY DEF FigshareAt, Keyed
    <2> QED BY <1>3, <2>1
<1>8. MakesChildren("figshare", c)
    <2>1. ASSUME NEW id, NEW type, NEW items \in FigshareChildren(c, id, type), NEW x \in items
          PROVE  \E o \in c : o.path # <<>> /\ x = FigshareItem(c, o)
        <3> DEFINE match == {o \in FigshareAt(c, id) :
                                \/ o.kind = "article" /\ type # "folder"
                                \/ o.kind = "project" /\ type # "file"}
        <3>1. x \in {FigshareItem(c, y) : y \in UNION {Under(c, o.path) : o \in match}}
            BY <2>1 DEF FigshareChildren
        <3>2. match \subseteq c
            BY <1>7
        <3> HIDE DEF match
        <3> QED BY <1>4, <1>5, <3>1, <3>2
    <2> QED BY <1>2, <2>1 DEF MakesChildren, ListChildItems, MadeOf
<1>9. MakesInfo("figshare", c)
    <2>1. ASSUME NEW id, id # <<>>, NEW x \in FigshareInfo(c, id)
          PROVE  \E o \in c : o.path # <<>> /\ x = FigshareItem(c, o)
        BY <1>7, <2>1 DEF FigshareInfo
    <2> QED BY <1>2, <2>1 DEF MakesInfo, GetItemInfo, GoodId, MadeOf
<1>10. MakesStarts("figshare", c)
    <2> DEFINE id(o) == <<IF o.kind = "project" THEN "project" ELSE "article", "/", o.key>>
    <2>1. FolderType("figshare") = "folder" /\ "figshare" \notin TakesNoRoot
        BY DEF FolderType, CitationImps, TakesNoRoot
    <2>2. GetRootFolderForProvider("figshare", c) = {<<id(o), o>> : o \in {o \in c : o.kind \in {"project", "article"}}}
        BY DEF GetRootFolderForProvider
    <2>3. \A o \in c : o.kind \in {"project", "article"} => Form("figshare", c, Item(id(o), "folder", o), o)
        BY DEF Form, FigshareForm, Item, Named
    <2> HIDE DEF id
    <2> QED BY <2>1, <2>2, <2>3 DEF MakesStarts, StartingPoints, MadeOf
<1> QED BY <1>6, <1>8, <1>9, <1>10 DEF Makes

LEMMA DataverseMakes ==
    ASSUME NEW c, WellFormed("dataverse", c)
    PROVE  Makes("dataverse", c)
<1>1. Tree(c) /\ c \subseteq Things /\ AtLevel(c, "account", 0) /\ Placed(c, DataverseHolds)
    BY DEF WellFormed, Tree, DataverseHolds
<1>2. ASSUME NEW o \in c, o.kind \in DataverseKinds
      PROVE  Form("dataverse", c, DataverseItem(o), o)
    BY <1>2 DEF Form, DataverseForm, DataverseItem, DataverseKinds, Named, Item, NotRoot, FileOrFolder
<1>3. ASSUME NEW o \in c, o.path # <<>>
      PROVE  o.kind \in DataverseKinds
    <2>1. PICK a \in c : IsIn(o, a) /\ <<a.kind, o.kind>> \in DataverseHolds
        BY <1>1, <1>3 DEF Placed
    <2> QED BY <2>1 DEF DataverseHolds, DataverseKinds
<1>4. \A o \in c : \A x \in Under(c, o.path) : x \in c /\ x.kind \in DataverseKinds
    BY <1>1, <1>3, UnderHasPath, ThingPath
<1>5. \A o \in Account(c) : o \in c /\ Form("dataverse", c, Item(<<>>, "folder", o), o)
    BY DEF Form, DataverseForm, IsAccount, Named, Item, Account, At
<1>6. \A items \in DataverseRoots(c) : \A x \in items : MadeOf("dataverse", c, x)
    <2>1. "dataverse" \in DataverseKinds
        BY DEF DataverseKinds
    <2>2. \A x : x \in Under(c, <<>>) => x \in c
        BY DEF Under
    <2> QED BY <1>2, <2>1, <2>2 DEF DataverseRoots, MadeOf
<1>7. MakesRoots("dataverse", c)
    BY <1>6 DEF MakesRoots, ListRootItems
<1>8. \A id : DataverseAt(c, id) \subseteq {o \in c : o.kind \in DataverseKinds}
    BY DEF DataverseAt
<1>9. MakesChildren("dataverse", c)
    <2>1. ASSUME NEW id, id # <<>>, NEW type, NEW items \in DataverseChildren(c, id, type), NEW x \in items
          PROVE  \E o \in c : o.kind \in DataverseKinds /\ x = DataverseItem(o)
        <3> DEFINE match == {o \in DataverseAt(c, id) :
                                \/ o.kind = "dataverse" /\ type # "file"
                                \/ o.kind = "dataset" /\ type # "folder"}
        <3>1. x \in {DataverseItem(y) : y \in UNION {Under(c, o.path) : o \in match}}
            BY <2>1 DEF DataverseChildren
        <3>2. match \subseteq c
            BY <1>8
        <3> HIDE DEF match
        <3> QED BY <1>4, <3>1, <3>2
    <2>2. ASSUME NEW id, NEW type, NEW items \in ListChildItems("dataverse", c, id, type), NEW x \in items
          PROVE  MadeOf("dataverse", c, x)
        <3>0. items \in DataverseChildren(c, id, type)
            BY <2>2 DEF ListChildItems
        <3>1. CASE id = <<>>
            BY <1>6, <2>2, <3>0, <3>1 DEF DataverseChildren
        <3>2. CASE id # <<>>
            BY <1>2, <2>1, <2>2, <3>0, <3>2 DEF MadeOf
        <3> QED BY <3>1, <3>2
    <2> QED BY <2>2 DEF MakesChildren
<1>10. MakesInfo("dataverse", c)
    <2>1. ASSUME NEW id, NEW x \in DataverseInfo(c, id)
          PROVE  \/ \E o \in Account(c) : x = Item(<<>>, "folder", o)
                 \/ \E o \in c : o.kind \in DataverseKinds /\ x = DataverseItem(o)
        BY <1>8, <2>1 DEF DataverseInfo
    <2> QED BY <1>2, <1>5, <2>1 DEF MakesInfo, GetItemInfo, MadeOf
<1>11. MakesStarts("dataverse", c)
    <2>1. FolderType("dataverse") = "folder"
        BY DEF FolderType, CitationImps
    <2>2. GetRootFolderForProvider("dataverse", c) = {<<<<"dataset", "/", o.key>>, o>> : o \in {o \in c : o.kind = "dataset"}}
        BY DEF GetRootFolderForProvider
    <2>3. \A o \in c : o.kind = "dataset" => Form("dataverse", c, Item(<<"dataset", "/", o.key>>, "folder", o), o)
        BY DEF Form, DataverseForm, DataverseKinds, Item, Named, FileOrFolder
    <2> QED BY <1>5, <2>1, <2>2, <2>3 DEF MakesStarts, StartingPoints, MadeOf
<1> QED BY <1>7, <1>9, <1>10, <1>11 DEF Makes

LEMMA LinkMakes ==
    ASSUME NEW c, WellFormed("link", c)
    PROVE  Makes("link", c)
<1>1. /\ Tree(c) /\ c \subseteq Things /\ AtLevel(c, "account", 0)
      /\ OfKinds(c, {"account", "dataverse", "dataset", "file", "draft"})
    BY DEF WellFormed, Tree
<1> DEFINE item(o) == Item(<<o.kind, "/", o.alias>>, LinkType(o), o)
<1>2. ASSUME NEW o \in c, o.kind \in DataverseKinds, o.alias # NoAlias
      PROVE  Form("link", c, item(o), o)
    <2>1. LinkForm(item(o), o)
        BY <1>2 DEF LinkForm, Named, Item
    <2> QED BY <2>1 DEF Form, Item
<1>3. \A os : LinkItems(os) = IF \E o \in os : o.alias = NoAlias THEN {} ELSE {{item(o) : o \in os}}
    BY DEF LinkItems
<1>4. \A o \in c : o.path = <<>> <=> o.kind = "account"
    BY <1>1, NoPath DEF AtLevel
<1>5. ASSUME NEW o \in c, NEW x \in Under(c, o.path), x.kind # "draft"
      PROVE  x \in c /\ x.kind \in DataverseKinds
    <2>1. x \in c /\ x.path # <<>>
        BY <1>1, UnderHasPath, ThingPath
    <2> QED BY <1>1, <1>4, <1>5, <2>1 DEF OfKinds, DataverseKinds
<1>6. \A o \in Account(c) : o \in c /\ Form("link", c, Item(<<>>, "folder", o), o)
    BY DEF Form, LinkForm, IsAccount, Named, Item, Account, At
<1> HIDE DEF item
<1>7. ASSUME NEW os, \A o \in os : o \in c /\ o.kind \in DataverseKinds
      PROVE  \A items \in LinkItems(os) : \A x \in items : MadeOf("link", c, x)
    BY <1>2, <1>3, <1>7 DEF MadeOf
<1>8. \A items \in LinkRoots(c) : \A x \in items : MadeOf("link", c, x)
    <2> DEFINE os == {o \in Under(c, <<>>) : o.kind = "dataverse"}
    <2>1. \A o \in os : o \in c /\ o.kind \in DataverseKinds
        BY DEF Under, DataverseKinds
    <2>2. LinkRoots(c) = LinkItems(os)
        BY DEF LinkRoots
    <2> HIDE DEF os
    <2> QED BY <1>7, <2>1, <2>2
<1>9. MakesRoots("link", c)
    BY <1>8 DEF MakesRoots, ListRootItems
<1>10. \A id : LinkAt(c, id) \subseteq {o \in c : o.kind \in DataverseKinds}
    BY DEF LinkAt
<1>11. MakesChildren("link", c)
    <2> SUFFICES ASSUME NEW id, NEW type, NEW items \in ListChildItems("link", c, id, type), NEW x \in items
                 PROVE  MadeOf("link", c, x)
        BY DEF MakesChildren
    <2>0. items \in LinkChildren(c, id, type)
        BY DEF ListChildItems
    <2>1. CASE id = <<>>
        BY <1>8, <2>0, <2>1 DEF LinkChildren
    <2>2. CASE id # <<>>
        <3>1. PICK o \in LinkAt(c, id) : items \in LinkItems({y \in Under(c, o.path) : y.kind # "draft"})
            BY <2>0, <2>2 DEF LinkChildren
        <3>2. o \in c
            BY <1>10
        <3> DEFINE os == {y \in Under(c, o.path) : y.kind # "draft"}
        <3>3. \A y \in os : y \in c /\ y.kind \in DataverseKinds
            BY <1>5, <3>2
        <3> HIDE DEF os
        <3>4. items \in LinkItems(os)
            BY <3>1 DEF os
        <3> QED BY <1>7, <3>3, <3>4
    <2> QED BY <2>1, <2>2
<1>12. MakesInfo("link", c)
    <2> SUFFICES ASSUME NEW id, NEW x \in GetItemInfo("link", c, id)
                 PROVE  MadeOf("link", c, x)
        BY DEF MakesInfo
    <2>0. x \in LinkInfo(c, id)
        BY DEF GetItemInfo
    <2>1. CASE id = <<>>
        BY <1>6, <2>0, <2>1 DEF LinkInfo, MadeOf
    <2>2. CASE id # <<>>
        <3>1. PICK o \in LinkAt(c, id) : \E items \in LinkItems({o}) : x \in items
            BY <2>0, <2>2 DEF LinkInfo
        <3>2. \A y \in {o} : y \in c /\ y.kind \in DataverseKinds
            BY <1>10
        <3> QED BY <1>7, <3>1, <3>2
    <2> QED BY <2>1, <2>2
<1>13. MakesStarts("link", c)
    <2>1. GetRootFolderForProvider("link", c) = {}
        BY DEF GetRootFolderForProvider
    <2> QED BY <1>6, <2>1 DEF MakesStarts, StartingPoints, MadeOf
<1> QED BY <1>9, <1>11, <1>12, <1>13 DEF Makes

LEMMA ZoteroMakes ==
    ASSUME NEW c, WellFormed("zotero", c)
    PROVE  Makes("zotero", c)
<1>1. /\ Tree(c) /\ c \subseteq Things /\ AtLevel(c, "account", 0) /\ InLibraries(c)
      /\ OfKinds(c, {"account", "library", "collection", "document"})
    BY DEF WellFormed, Tree
<1>2. \A o \in c : o.path = <<>> <=> o.kind = "account"
    BY <1>1, NoPath DEF AtLevel
<1>3. ASSUME NEW o \in c, o.path # <<>>
      PROVE  \E l : /\ IsLibraryOf(c, l, o) /\ ZoteroLibrary(c, o) = l
                    /\ o.kind = "library" => l = o
    <2>1. PICK l \in c : l.kind = "library" /\ IsPrefix(l.path, o.path)
        BY <1>1, <1>3 DEF InLibraries
    <2>2. IsLibraryOf(c, l, o) /\ ZoteroLibrary(c, o) = l
        BY <1>1, <2>1, LibraryIs DEF IsLibraryOf
    <2>3. o.kind = "library" => l = o
        <3> HAVE o.kind = "library"
        <3>1. IsPrefix(o.path, o.path)
            BY <1>1, PathPrefix, ThingPath
        <3>2. IsLibraryOf(c, o, o)
            BY <3>1 DEF IsLibraryOf
        <3> QED BY <1>1, <2>2, <3>2, LibraryIs
    <2> QED BY <2>2, <2>3
<1>4. ASSUME NEW o \in c, o.path # <<>>
      PROVE  Form("zotero", c, ZoteroItem(c, o), o)
    <2>1. PICK l : IsLibraryOf(c, l, o) /\ ZoteroLibrary(c, o) = l
        BY <1>3, <1>4
    <2>2. o.kind \in {"library", "collection", "document"}
        BY <1>1, <1>2, <1>4 DEF OfKinds
    <2> DEFINE id == IF o.kind = "library" THEN <<"collection", ":", o.key, ":", "ROOT">> ELSE <<o.kind, ":", l.key, ":", o.key>>
               type == IF o.kind = "library" THEN "collection" ELSE o.kind
    <2>3. ZoteroItem(c, o) = Item(id, type, o)
        BY <2>1, <2>2 DEF ZoteroItem
    <2>4. /\ ZoteroItem(c, o).of = o.oid /\ Named(ZoteroItem(c, o), id, type)
          /\ ZoteroItem(c, o).root => ZoteroItem(c, o).type \in {"folder", "collection"}
        BY <2>3, ItemIs DEF Named
    <2>5. ZoteroForm(c, ZoteroItem(c, o), o)
        BY <2>1, <2>2, <2>4 DEF ZoteroForm, IsLibraryOf
    <2> QED BY <2>4, <2>5 DEF Form
<1>5. MakesRoots("zotero", c)
    <2>1. \A x \in Under(c, <<>>) : x \in c /\ x.path # <<>>
        <3>1. <<>> \in Seq(Names)
            OBVIOUS
        <3> QED BY <1>1, <3>1, UnderHasPath
    <2> QED BY <1>4, <2>1 DEF MakesRoots, ListRootItems, ZoteroRoots, MadeOf
<1>6. \A x \in c : x.kind \in {"document", "collection", "library"} => x.path # <<>>
    BY <1>2
<1>7. \A library, key : /\ ZoteroResolve(c, library, key) \subseteq {o \in c : o.path # <<>>}
                        /\ ZoteroLibraries(c, library) \subseteq {o \in c : o.path # <<>>}
    BY <1>6 DEF ZoteroResolve, ZoteroLibraries, Account, At
<1>8. MakesChildren("zotero", c)
    <2> SUFFICES ASSUME NEW id, NEW type, NEW items \in ListChildItems("zotero", c, id, type), NEW x \in items
                 PROVE  MadeOf("zotero", c, x)
        BY DEF MakesChildren
    <2> DEFINE documents(o)   == {y \in IF o.kind = "library" THEN Below(c, o.path) ELSE Under(c, o.path) :
                                    y.kind = "document" /\ type # "collection"}
               collections(o) == {y \in Under(c, o.path) : y.kind = "collection" /\ type # "document"}
    <2>1. items \in ZoteroChildren(c, id, type)
        BY DEF ListChildItems
    <2>2. PICK o : items = {ZoteroItem(c, y) : y \in documents(o) \cup collections(o)}
        BY <2>1, Zenon DEF ZoteroChildren
    <2>3. \A y \in documents(o) \cup collections(o) : y \in c /\ y.path # <<>>
        BY <1>6 DEF Below, Under
    <2> HIDE DEF documents, collections
    <2> QED BY <1>4, <2>2, <2>3 DEF MadeOf
<1>9. MakesInfo("zotero", c)
    <2> SUFFICES ASSUME NEW id, NEW x \in GetItemInfo("zotero", c, id)
                 PROVE  MadeOf("zotero", c, x)
        BY DEF MakesInfo
    <2>1. x \in ZoteroInfo(c, id)
        BY DEF GetItemInfo
    <2>2. \E o \in c : o.path # <<>> /\ x = ZoteroItem(c, o)
        <3>1. CASE id[1] = "collection"
            BY <1>7, <2>1, <3>1 DEF ZoteroInfo
        <3>2. CASE id[1] # "collection"
            BY <1>6, <2>1, <3>2 DEF ZoteroInfo, Keyed
        <3> QED BY <3>1, <3>2
    <2> QED BY <1>4, <2>2 DEF MadeOf
<1>10. MakesStarts("zotero", c)
    <2> DEFINE id(o) == <<"collection", ":", ZoteroLibrary(c, o).key, ":", IF o.kind = "library" THEN "ROOT" ELSE o.key>>
    <2>1. FolderType("zotero") = "collection" /\ "zotero" \notin TakesNoRoot
        BY DEF FolderType, CitationImps, TakesNoRoot
    <2>2. GetRootFolderForProvider("zotero", c) = {<<id(o), o>> : o \in {o \in c : o.kind \in {"library", "collection"}}}
        BY DEF GetRootFolderForProvider
    <2>3. ASSUME NEW o \in c, o.kind \in {"library", "collection"}
          PROVE  Form("zotero", c, Item(id(o), "collection", o), o)
        <3>1. Form("zotero", c, ZoteroItem(c, o), o)
            BY <1>4, <1>6, <2>3
        <3>2. PICK l : ZoteroLibrary(c, o) = l /\ (o.kind = "library" => l = o)
            BY <1>3, <1>6, <2>3
        <3>3. ZoteroItem(c, o) = Item(id(o), "collection", o)
            BY <2>3, <3>2 DEF ZoteroItem
        <3> QED BY <3>1, <3>3
    <2> HIDE DEF id
    <2> QED BY <2>1, <2>2, <2>3 DEF MakesStarts, StartingPoints, MadeOf
<1> QED BY <1>5, <1>8, <1>9, <1>10 DEF Makes

LEMMA MendeleyMakes ==
    ASSUME NEW c, WellFormed("mendeley", c)
    PROVE  Makes("mendeley", c)
<1>1. \A o : Form("mendeley", c, MendeleyItem(o), o)
    BY DEF Form, MendeleyForm, MendeleyItem, Named, Item
<1>2. MakesRoots("mendeley", c)
    BY <1>1 DEF MakesRoots, ListRootItems, MendeleyRoots, MadeOf, Account, At
<1>3. MakesChildren("mendeley", c)
    <2> SUFFICES ASSUME NEW id, NEW type, NEW items \in ListChildItems("mendeley", c, id, type), NEW x \in items
                 PROVE  MadeOf("mendeley", c, x)
        BY DEF MakesChildren
    <2> DEFINE documents(o) == {y \in IF o.path = <<>> THEN c ELSE Under(c, o.path) :
                                  y.kind = "document" /\ type # "collection"}
               collections(o) == {y \in Under(c, o.path) : y.kind = "collection" /\ type # "document"}
    <2>1. items \in MendeleyChildren(c, id, type)
        BY DEF ListChildItems
    <2>2. PICK o : items = {MendeleyItem(y) : y \in documents(o) \cup collections(o)}
        BY <2>1, Zenon DEF MendeleyChildren
    <2>3. documents(o) \cup collections(o) \subseteq c
        BY DEF Under
    <2> HIDE DEF documents, collections
    <2> QED BY <1>1, <2>2, <2>3 DEF MadeOf
<1>4. MakesInfo("mendeley", c)
    <2> SUFFICES ASSUME NEW id, NEW x \in MendeleyInfo(c, id)
                 PROVE  \E o \in c : x = MendeleyItem(o)
        BY <1>1 DEF MakesInfo, GetItemInfo, MadeOf
    <2> QED BY DEF MendeleyInfo, Keyed, Account, At
<1>5. MakesStarts("mendeley", c)
    <2>1. FolderType("mendeley") = "collection" /\ "mendeley" \notin TakesNoRoot
        BY DEF FolderType, CitationImps, TakesNoRoot
    <2>2. GetRootFolderForProvider("mendeley", c) = {<<<<"collection", ":", o.key>>, o>> : o \in {o \in c : o.kind = "collection" /\ o.path # <<>>}}
        BY DEF GetRootFolderForProvider
    <2>3. \A o \in c : o.kind = "collection" /\ o.path # <<>> => Item(<<"collection", ":", o.key>>, "collection", o) = MendeleyItem(o)
        BY DEF MendeleyItem
    <2> QED BY <1>1, <2>1, <2>2, <2>3 DEF MakesStarts, StartingPoints, MadeOf
<1> QED BY <1>2, <1>3, <1>4, <1>5 DEF Makes

(* The first names of a path, and those of what is below. *)
LEMMA SameFirst ==
    ASSUME NEW x \in Things, NEW o \in Things, IsPrefix(o.path, x.path), NEW j \in Nat, j # 0, NEW n \in Nat, n <= Len(o.path)
    PROVE  SubSeq(x.path, j, n) = SubSeq(o.path, j, n)
<1> DEFINE s == x.path
           t == o.path
           l == Len(t)
<1>1. s \in Seq(Names) /\ t \in Seq(Names) /\ Len(s) \in Nat /\ l \in Nat
    BY ThingPath
<1>2. l <= Len(s) /\ \A k \in 1..l : t[k] = s[k]
    BY <1>1, PathPrefix
<1>3. n <= l
    OBVIOUS
<1> HIDE DEF s, t, l
<1>4. j \in Int /\ n \in Int /\ \A k \in j..n : k \in 1..l /\ k \in 1..Len(s)
    BY <1>1, <1>2, <1>3
<1>5. \A k \in j..n : s[k] \in Names /\ t[k] \in Names /\ s[k] = t[k]
    <2>1. \A k \in 1..l : t[k] \in Names
        BY <1>1, ElementOfSeq DEF l
    <2> QED BY <1>2, <1>4, <2>1
<1> DEFINE u == SubSeq(s, j, n)
           v == SubSeq(t, j, n)
<1>6. /\ u \in Seq(Names) /\ Len(u) = (IF j <= n THEN n - j + 1 ELSE 0)
      /\ \A k \in 1..(n - j + 1) : u[k] = s[j + k - 1]
    BY <1>4, <1>5, SubSeqProperties
<1>7. /\ v \in Seq(Names) /\ Len(v) = (IF j <= n THEN n - j + 1 ELSE 0)
      /\ \A k \in 1..(n - j + 1) : v[k] = t[j + k - 1]
    BY <1>4, <1>5, SubSeqProperties
<1> HIDE DEF u, v
<1>8. ASSUME NEW k \in 1..Len(u) PROVE u[k] = v[k]
    <2>1. k \in 1..(n - j + 1) /\ j + k - 1 \in j..n
        BY <1>6
    <2> QED BY <1>5, <1>6, <1>7, <2>1
<1>9. u = v
    BY <1>6, <1>7, <1>8, SeqEqual
<1> QED BY <1>9 DEF u, v, s, t

LEMMA SplitPair ==
    ASSUME NEW S, NEW id \in Seq(S), NEW t, NEW p \in SplitOnce(id, t), NEW a, NEW b, p = <<a, b>>
    PROVE  id = a \o <<t>> \o b /\ a \in Seq(S) /\ b \in Seq(S)
<1>1. p[1] = a /\ p[2] = b
    OBVIOUS
<1>2. IsCut(S, id, t, p)
    BY SplitBack
<1> QED BY <1>1, <1>2 DEF IsCut

LEMMA GithubChild ==
    ASSUME NEW c, WellFormed("github", c), NEW id, HasTokens(id), NEW o \in GithubAt(c, id),
           NEW x \in Under(c, o.path)
    PROVE  x \in c /\ Form("github", c, GithubItem(x, id), x)
<1>1. /\ Tree(c) /\ c \subseteq Things /\ AtLevel(c, "account", 0) /\ AtLevel(c, "workspace", 1)
      /\ AtLevel(c, "repository", 2) /\ OfKinds(c, {"account", "workspace", "repository", "folder", "file"})
    BY DEF WellFormed, Tree, HasRepositories
<1>2. o \in c /\ Len(o.path) >= 2 /\ <<FullName(o), Inner(o, 2)>> \in SplitOnce(id, ":")
    BY DEF GithubAt, GithubParse
<1>3. x \in c /\ Len(x.path) = Len(o.path) + 1 /\ IsPrefix(o.path, x.path)
    BY DEF Under
<1>4. o \in Things /\ x \in Things /\ Len(o.path) \in Nat /\ Len(x.path) \in Nat
    BY <1>1, <1>2, <1>3, ThingPath
<1>5. Len(x.path) >= 3
    BY <1>2, <1>3, <1>4
<1>6. x.kind \in {"file", "folder"}
    <2>1. Len(x.path) # 0 /\ Len(x.path) # 1 /\ Len(x.path) # 2
        <3> DEFINE l == Len(x.path)
        <3>1. l \in Nat /\ l >= 3
            BY <1>4, <1>5
        <3> HIDE DEF l
        <3>2. l # 0 /\ l # 1 /\ l # 2
            BY <3>1
        <3> QED BY <3>2 DEF l
    <2> QED BY <1>1, <1>3, <2>1 DEF AtLevel, OfKinds
<1>7. CASE x.kind = "file"
    BY <1>3, <1>7 DEF Form, GithubForm, GithubItem, Item, NotRoot, FileOrFolder
<1>8. CASE x.kind = "folder"
    <2>0. PICK S : id \in Seq(S)
        BY DEF HasTokens
    <2>1. id = FullName(o) \o <<":">> \o Inner(o, 2)
        <3>1. PICK p \in SplitOnce(id, ":") : p = <<FullName(o), Inner(o, 2)>>
            BY <1>2
        <3> QED BY <2>0, <3>1, SplitPair
    <2>2. FullName(o) = FullName(x)
        <3>0. 1 \in Nat /\ 1 # 0 /\ 2 \in Nat /\ 2 <= Len(o.path)
            BY <1>2, <1>4
        <3>1. SubSeq(x.path, 1, 2) = SubSeq(o.path, 1, 2)
            BY <1>3, <1>4, <3>0, SameFirst
        <3> QED BY <3>1 DEF FullName, FirstNames
    <2>3. HasTokens(RunTogether(id, Last(x.path)))
        <3>1. Len(id) \in Nat /\ Len(id) # 0
            BY <2>0 DEF HasTokens
        <3>2. Front(id) \in Seq(S)
            BY <2>0, <3>1 DEF Front
        <3>3. ASSUME NEW q \in Seq(S), NEW t
              PROVE  HasTokens(Append(q, t))
            <4> DEFINE T == S \cup {t}
            <4>1. q \in Seq(T) /\ t \in T
                OBVIOUS
            <4> HIDE DEF T
            <4>2. Append(q, t) \in Seq(T) /\ Len(Append(q, t)) = Len(q) + 1 /\ Len(q) \in Nat
                BY <4>1, AppendProperties
            <4>3. Len(Append(q, t)) # 0
                BY <4>2
            <4> QED BY <4>2, <4>3 DEF HasTokens
        <3>4. \/ RunTogether(id, Last(x.path)) = Append(id, Last(x.path))
              \/ RunTogether(id, Last(x.path)) = Append(Front(id), Last(id) \o Last(x.path))
            BY Zenon DEF RunTogether
        <3>5. HasTokens(Append(id, Last(x.path))) /\ HasTokens(Append(Front(id), Last(id) \o Last(x.path)))
            BY <2>0, <3>2, <3>3, Zenon
        <3> QED BY <3>4, <3>5, Zenon
    <2>4. Len(x.path) = 3 => RunTogether(id, Last(x.path)) = FullName(x) \o <<":">> \o Inner(x, 2)
        <3> HAVE Len(x.path) = 3
        <3> DEFINE a == FullName(o) \o <<":">>
                   e == Last(x.path)
        <3>1. Len(o.path) = 2
            <4> DEFINE n == Len(o.path)
            <4>1. n \in Nat /\ n + 1 = 3
                BY <1>3, <1>4
            <4> HIDE DEF n
            <4>2. n = 2
                BY <4>1
            <4> QED BY <4>2 DEF n
        <3>2. a \in Seq(Tokens) /\ Len(a) = 4 /\ a[4] = ":"
            <4> DEFINE u == FullName(o)
                       v == <<":">>
            <4>1. u \in Seq(Tokens) /\ Len(u) = 3
                BY <1>2, <1>4, FullNameIs
            <4>2. v \in Seq(Tokens) /\ Len(v) = 1 /\ v[1] = ":"
                BY DEF Tokens
            <4> HIDE DEF u, v
            <4>3. u \o v \in Seq(Tokens) /\ Len(u \o v) = 4 /\ (u \o v)[4] = v[1]
                <5>1. /\ u \o v \in Seq(Tokens) /\ Len(u \o v) = Len(u) + Len(v)
                      /\ \A k \in 1..(Len(u) + Len(v)) : (u \o v)[k] = IF k <= Len(u) THEN u[k] ELSE v[k - Len(u)]
                    BY <4>1, <4>2, ConcatProperties
                <5>2. Len(u) + Len(v) = 4 /\ 4 \in 1..4 /\ ~(4 <= 3) /\ 4 - 3 = 1
                    BY <4>1, <4>2
                <5> QED BY <4>1, <5>1, <5>2
            <4> QED BY <4>2, <4>3 DEF u, v
        <3>3. Inner(o, 2) = <<>>
            <4>1. Inner(o, 2) \in Seq(Tokens) /\ Len(Inner(o, 2)) = 0
                BY <1>2, <1>4, <3>1, GithubInner
            <4> QED BY <4>1
        <3>4. id = a
            BY <2>1, <3>2, <3>3, ConcatEmptySeq
        <3>5. Inner(x, 2) = <<e>> /\ e \in Tokens
            <4>1. x.path \in Seq(Names) /\ Len(x.path) >= 2
                BY <1>4, ThingPath
            <4>2. Inner(x, 2) \in Seq(Tokens) /\ Len(Inner(x, 2)) = 1 /\ Inner(x, 2)[1] = x.path[3]
                <5>1. /\ Inner(x, 2) \in Seq(Tokens)
                      /\ Len(Inner(x, 2)) = (IF Len(x.path) = 2 THEN 0 ELSE 2 * (Len(x.path) - 2) - 1)
                      /\ Len(x.path) = 3 => Inner(x, 2)[1] = x.path[3]
                    BY <1>4, <4>1, GithubInner
                <5>2. (IF 3 = 2 THEN 0 ELSE 2 * (3 - 2) - 1) = 1
                    OBVIOUS
                <5>3. Len(x.path) = 3
                    OBVIOUS
                <5> QED BY <5>1, <5>2, <5>3
            <4>3. e = x.path[3] /\ e \in Names
                BY <4>1 DEF Last
            <4>4. e \in Tokens
                BY <4>3 DEF Tokens
            <4> HIDE DEF e
            <4> DEFINE w == Inner(x, 2)
            <4>5. w \in Seq(Tokens) /\ Len(w) = 1 /\ w[1] = e
                BY <4>2, <4>3
            <4> HIDE DEF w
            <4>6. w = <<e>>
                BY <4>5
            <4> QED BY <4>4, <4>6 DEF w
        <3> HIDE DEF a, e
        <3>6. Last(id) = ":"
            BY <3>2, <3>4 DEF Last
        <3>7. RunTogether(id, e) = Append(a, e)
            BY <3>4, <3>6 DEF RunTogether
        <3>8. Append(a, e) = a \o <<e>>
            BY <3>2, <3>5, AppendIsConcat
        <3>9. RunTogether(id, e) = (FullName(x) \o <<":">>) \o Inner(x, 2)
            BY <2>2, <3>5, <3>7, <3>8 DEF a
        <3> QED BY <3>9 DEF e
    <2> DEFINE item == GithubItem(x, id)
    <2>5. item.id = RunTogether(id, Last(x.path)) /\ item.type = "folder" /\ ~item.root /\ item.of = x.oid
        BY <1>8 DEF GithubItem, Item, NotRoot, FileOrFolder
    <2> HIDE DEF item
    <2>6. GithubForm(item, x)
        BY <1>8, <2>3, <2>4, <2>5 DEF GithubForm
    <2>7. Form("github", c, item, x)
        BY <2>5, <2>6 DEF Form
    <2> QED BY <1>3, <2>7 DEF item
<1> QED BY <1>6, <1>7, <1>8

LEMMA GithubMakes ==
    ASSUME NEW c, WellFormed("github", c)
    PROVE  Makes("github", c)
<1>1. \A o \in c : o.kind = "repository" => Form("github", c, GithubRepo(o), o)
    BY DEF Form, GithubForm, GithubRepo, Item, Named
<1>2. MakesRoots("github", c)
    BY <1>1 DEF MakesRoots, ListRootItems, GithubRoots, MadeOf
<1>3. \A id : GoodId("github", id) => HasTokens(id) /\ id # <<>>
    BY DEF GoodId, HasTokens
<1>4. MakesChildren("github", c)
    <2> SUFFICES ASSUME NEW id, GoodId("github", id), NEW type, NEW items \in ListChildItems("github", c, id, type),
                        NEW y \in items
                 PROVE  MadeOf("github", c, y)
        BY DEF MakesChildren
    <2>1. items \in GithubChildren(c, id, type)
        BY DEF ListChildItems
    <2>2. PICK o \in GithubAt(c, id) : items = OfType({GithubItem(x, id) : x \in Under(c, o.path)}, type)
        BY <2>1 DEF GithubChildren
    <2>3. PICK x \in Under(c, o.path) : y = GithubItem(x, id)
        BY <2>2 DEF OfType
    <2>4. x \in c /\ Form("github", c, GithubItem(x, id), x)
        BY <1>3, GithubChild
    <2> QED BY <2>3, <2>4 DEF MadeOf
<1>5. MakesInfo("github", c)
    <2> SUFFICES ASSUME NEW id, GoodId("github", id), NEW y \in GetItemInfo("github", c, id)
                 PROVE  MadeOf("github", c, y)
        BY DEF MakesInfo
    <2> DEFINE item(o) == CASE o.kind = "repository" -> {GithubRepo(o)}
                            [] o.kind = "file" -> {GithubItem(o, id)}
                            [] OTHER -> {GithubItem(x, id) : x \in Under(c, o.path)}
    <2>1. y \in GithubInfo(c, id)
        BY DEF GetItemInfo
    <2>2. GithubInfo(c, id) = UNION {item(o) : o \in GithubAt(c, id)}
        BY <1>3, Zenon DEF GithubInfo
    <2>3. PICK o \in GithubAt(c, id) : y \in item(o)
        BY <2>1, <2>2
    <2>4. o \in c
        BY DEF GithubAt
    <2>5. CASE o.kind = "repository"
        BY <1>1, <2>3, <2>4, <2>5 DEF MadeOf
    <2>6. CASE o.kind = "file"
        <3>1. Form("github", c, GithubItem(o, id), o)
            BY <2>6 DEF Form, GithubForm, GithubItem, Item, NotRoot, FileOrFolder
        <3> QED BY <2>3, <2>4, <2>6, <3>1 DEF MadeOf
    <2>7. CASE o.kind \notin {"repository", "file"}
        <3>1. PICK x \in Under(c, o.path) : y = GithubItem(x, id)
            BY <2>3, <2>7
        <3>2. x \in c /\ Form("github", c, GithubItem(x, id), x)
            BY <1>3, GithubChild
        <3> QED BY <3>1, <3>2 DEF MadeOf
    <2> QED BY <2>5, <2>6, <2>7
<1>6. MakesStarts("github", c)
    <2>1. FolderType("github") = "folder" /\ "github" \notin TakesNoRoot
        BY DEF FolderType, CitationImps, TakesNoRoot
    <2> DEFINE id(o) == FullName(o) \o <<":">>
    <2>2. GetRootFolderForProvider("github", c) = {<<id(o), o>> : o \in {o \in c : o.kind = "repository"}}
        BY DEF GetRootFolderForProvider
    <2>3. \A o : Item(id(o), "folder", o) = GithubRepo(o)
        BY DEF GithubRepo
    <2> HIDE DEF id
    <2> QED BY <1>1, <2>1, <2>2, <2>3 DEF MakesStarts, StartingPoints, MadeOf
<1> QED BY <1>2, <1>4, <1>5, <1>6 DEF Makes

LEMMA GitlabMakes ==
    ASSUME NEW c, WellFormed("gitlab", c)
    PROVE  Makes("gitlab", c)
<1>1. Tree(c) /\ c \subseteq Things /\ NoNesting(c)
    BY DEF WellFormed, Tree, NoNesting
<1>2. ASSUME NEW p, NEW x \in c, IsProjectOf(c, p, x),
             NEW i, Named(i, Join(p.path, "%2F") \o <<":">> \o Inner(x, Len(p.path)), FileOrFolder(x)),
             i.of = x.oid, i.root => i.type \in {"folder", "collection"}
      PROVE  Form("gitlab", c, i, x)
    <2>1. GitlabForm(c, i, x)
        BY <1>2 DEF GitlabForm, IsProjectOf
    <2> QED BY <1>2, <2>1 DEF Form
<1>3. ASSUME NEW p, NEW x \in c, IsProjectOf(c, p, x)
      PROVE  Form("gitlab", c, GitlabItem(c, x), x)
    <2> DEFINE id == Join(p.path, "%2F") \o <<":">> \o Inner(x, Len(p.path))
    <2>1. GitlabProject(c, x) = p
        BY <1>1, <1>3, ProjectIs
    <2>2. GitlabItem(c, x) = Item(id, FileOrFolder(x), x)
        BY <2>1 DEF GitlabItem, GitlabRepoId
    <2> HIDE DEF id
    <2>3. /\ Named(GitlabItem(c, x), id, FileOrFolder(x)) /\ GitlabItem(c, x).of = x.oid
          /\ GitlabItem(c, x).root => GitlabItem(c, x).type \in {"folder", "collection"}
        BY <2>2, ItemIs DEF Named
    <2> QED BY <1>2, <1>3, <2>3 DEF id
<1>4. ASSUME NEW o \in c, o.kind = "repository"
      PROVE  IsProjectOf(c, o, o)
    BY <1>1, <1>4, PathPrefix, ThingPath DEF IsProjectOf
<1>5. MakesRoots("gitlab", c)
    BY <1>3, <1>4 DEF MakesRoots, ListRootItems, GitlabRoots, MadeOf
<1>6. MakesChildren("gitlab", c)
    <2> SUFFICES ASSUME NEW id, NEW type, NEW items \in ListChildItems("gitlab", c, id, type), NEW y \in items
                 PROVE  MadeOf("gitlab", c, y)
        BY DEF MakesChildren
    <2>1. items \in GitlabChildren(c, id, type)
        BY DEF ListChildItems
    <2>2. PICK o \in GitlabAt(c, id) : items = OfType({GitlabItem(c, x) : x \in Under(c, o.path)}, type)
        BY <2>1 DEF GitlabChildren
    <2>3. PICK x \in Under(c, o.path) : y = GitlabItem(c, x)
        BY <2>2 DEF OfType
    <2>4. PICK p : IsProjectOf(c, p, o)
        BY DEF GitlabAt, GitlabInProject, IsProjectOf
    <2>5. x \in c /\ IsPrefix(o.path, x.path) /\ o \in c /\ p \in c
        BY <2>4 DEF Under, GitlabAt, GitlabInProject, IsProjectOf
    <2>6. IsPrefix(p.path, x.path)
        <3>1. p.path \in Seq(Names) /\ o.path \in Seq(Names) /\ x.path \in Seq(Names)
            BY <1>1, <2>5, ThingPath
        <3>2. IsPrefix(p.path, o.path)
            BY <2>4 DEF IsProjectOf
        <3> QED BY <2>5, <3>1, <3>2, PathPrefix
    <2>7. IsProjectOf(c, p, x)
        BY <2>4, <2>6 DEF IsProjectOf
    <2> QED BY <1>3, <2>3, <2>5, <2>7 DEF MadeOf
<1>7. MakesInfo("gitlab", c)
    <2> SUFFICES ASSUME NEW id, GoodId("gitlab", id), NEW y \in GetItemInfo("gitlab", c, id)
                 PROVE  MadeOf("gitlab", c, y)
        BY DEF MakesInfo
    <2>1. id \in Seq(Tokens) /\ ":" \in Tokens
        BY DEF GoodId, KeyedImps, Tokens
    <2>2. y \in GitlabInfo(c, id)
        BY DEF GetItemInfo
    <2>3. PICK o \in GitlabAt(c, id) : y = [GitlabItem(c, o) EXCEPT !.id = id]
        BY <2>2 DEF GitlabInfo
    <2>4. o \in c /\ \E p : IsProjectOf(c, p, o)
        BY DEF GitlabAt, GitlabInProject, IsProjectOf
    <2>5. PICK p : IsProjectOf(c, p, o)
        BY <2>4
    <2>6. GitlabProject(c, o) = p
        BY <1>1, <2>4, <2>5, ProjectIs
    <2>7. PICK q \in SplitOnce(id, ":") : q = <<Join(p.path, "%2F"), Inner(o, Len(p.path))>>
        BY <2>6 DEF GitlabAt, GitlabParse, GitlabRepoId
    <2>8. id = Join(p.path, "%2F") \o <<":">> \o Inner(o, Len(p.path))
        BY <2>1, <2>7, SplitPair
    <2>9. /\ y.id = id /\ y.type = FileOrFolder(o) /\ y.of = o.oid
          /\ y.root => y.type \in {"folder", "collection"}
        BY <2>3 DEF GitlabItem, Item
    <2>10. Named(y, Join(p.path, "%2F") \o <<":">> \o Inner(o, Len(p.path)), FileOrFolder(o))
        BY <2>8, <2>9 DEF Named
    <2>11. Form("gitlab", c, y, o)
        BY <1>2, <2>4, <2>5, <2>9, <2>10
    <2> QED BY <2>4, <2>11 DEF MadeOf
<1>8. MakesStarts("gitlab", c)
    <2> DEFINE id(o) == Join(o.path, "%2F") \o <<":">>
    <2>1. FolderType("gitlab") = "folder" /\ "gitlab" \notin TakesNoRoot
        BY DEF FolderType, CitationImps, TakesNoRoot
    <2>2. GetRootFolderForProvider("gitlab", c) = {<<id(o), o>> : o \in {o \in c : o.kind = "repository" /\ Len(o.path) = 2}}
        BY DEF GetRootFolderForProvider
    <2>3. ASSUME NEW o \in c, o.kind = "repository"
          PROVE  Form("gitlab", c, Item(id(o), "folder", o), o)
        <3>1. o.path \in Seq(Names) /\ Len(o.path) \in Nat /\ "%2F" \in Tokens /\ ":" \in Tokens /\ o \in Things
            BY <1>1, ThingPath DEF Tokens
        <3>2. Inner(o, Len(o.path)) = <<>>
            <4>1. SubSeq(o.path, Len(o.path) + 1, Len(o.path)) = <<>>
                BY <3>1, SubSeqEmpty
            <4>2. Join(<<>>, "/") \in Seq(Tokens) /\ Spaced(Join(<<>>, "/"), <<>>)
                <5>1. <<>> \in Seq(Names) /\ "/" \in Tokens
                    BY DEF Tokens
                <5> QED BY <5>1, JoinIs
            <4>3. Len(Join(<<>>, "/")) = 0
                BY <4>2 DEF Spaced
            <4>4. Join(<<>>, "/") = <<>>
                <5> DEFINE joined == Join(<<>>, "/")
                <5>1. joined \in Seq(Tokens) /\ Len(joined) = 0
                    BY <4>2, <4>3
                <5> HIDE DEF joined
                <5>2. joined = <<>>
                    BY <5>1
                <5> QED BY <5>2 DEF joined
            <4> QED BY <4>1, <4>4 DEF Inner
        <3>3. id(o) \in Seq(Tokens)
            <4>1. Join(o.path, "%2F") \in Seq(Tokens) /\ <<":">> \in Seq(Tokens)
                BY <3>1, JoinIs
            <4> QED BY <4>1, ConcatProperties
        <3> HIDE DEF id
        <3>4. id(o) \o <<>> = id(o)
            BY <3>3, ConcatEmptySeq
        <3>5. id(o) = Join(o.path, "%2F") \o <<":">> \o Inner(o, Len(o.path))
            BY <3>2, <3>4 DEF id
        <3>6. Named(Item(id(o), "folder", o), Join(o.path, "%2F") \o <<":">> \o Inner(o, Len(o.path)), FileOrFolder(o))
            <4>1. FileOrFolder(o) = "folder"
                BY <2>3 DEF FileOrFolder
            <4>2. Item(id(o), "folder", o).id = id(o) /\ Item(id(o), "folder", o).type = "folder"
                BY ItemIs
            <4> QED BY <3>5, <4>1, <4>2 DEF Named
        <3> QED BY <1>2, <1>4, <2>3, <3>6, ItemIs
    <2> HIDE DEF id
    <2> QED BY <2>1, <2>2, <2>3 DEF MakesStarts, StartingPoints, MadeOf
<1> QED BY <1>5, <1>6, <1>7, <1>8 DEF Makes

LEMMA BitbucketMakes ==
    ASSUME NEW c, WellFormed("bitbucket", c)
    PROVE  Makes("bitbucket", c)
<1>1. Tree(c) /\ c \subseteq Things /\ AtLevel(c, "account", 0) /\ AtLevel(c, "workspace", 1)
    BY DEF WellFormed, Tree, HasRepositories
<1>2. ASSUME NEW o \in c, o.path # <<>>
      PROVE  Form("bitbucket", c, BitbucketItem(o), o)
    <2> DEFINE i == BitbucketItem(o)
    <2>1. /\ i.type = FileOrFolder(o) /\ i.of = o.oid /\ (i.root => o.kind = "repository")
          /\ i.root => i.type \in {"folder", "collection"}
        BY DEF BitbucketItem, Item, NotRoot, FileOrFolder
    <2>2. BitbucketForm(i, o)
        BY <1>2, <2>1 DEF BitbucketForm, Named
    <2> HIDE DEF i
    <2>3. Form("bitbucket", c, i, o)
        BY <2>1, <2>2 DEF Form
    <2> QED BY <2>3 DEF i
<1>3. \A o \in c : o.path = <<>> <=> o.kind = "account"
    BY <1>1, NoPath DEF AtLevel
<1>4. MakesRoots("bitbucket", c)
    BY <1>2, <1>3 DEF MakesRoots, ListRootItems, BitbucketRoots, MadeOf
<1>5. \A o \in c : \A x \in Under(c, o.path) : x \in c /\ x.path # <<>>
    BY <1>1, UnderHasPath, ThingPath
<1>6. \A id : \A o \in BitbucketAt(c, id) : o \in c /\ o.path # <<>>
    <2> TAKE id
    <2> DEFINE at(p) == CASE p[1] = <<"workspace">>  -> {x \in c : x.kind = "workspace" /\ x.path = p[2]}
                          [] p[1] = <<"repository">> -> {x \in c : Len(x.path) >= 2 /\ Join(x.path, "/") = p[2]}
                          [] OTHER -> {}
    <2>1. ASSUME NEW p, NEW o \in at(p)
          PROVE  o \in c /\ (o.kind = "workspace" \/ Len(o.path) >= 2)
        <3>1. CASE p[1] = <<"workspace">>
            BY <2>1, <3>1
        <3>2. CASE p[1] = <<"repository">>
            <4>1. <<"repository">> # <<"workspace">>
                OBVIOUS
            <4> QED BY <2>1, <3>2, <4>1
        <3>3. CASE p[1] \notin {<<"workspace">>, <<"repository">>}
            BY <2>1, <3>3
        <3> QED BY <3>1, <3>2, <3>3
    <2> HIDE DEF at
    <2>2. BitbucketAt(c, id) = UNION {at(p) : p \in SplitOnce(id, ":")}
        BY DEF BitbucketAt, at
    <2>3. \A o \in c : o.kind = "workspace" \/ Len(o.path) >= 2 => o.path # <<>>
        <3>1. \A o \in c : o.path = <<>> => Len(o.path) = 0
            BY <1>1, NoPath
        <3> QED BY <1>3, <3>1
    <2> QED BY <2>1, <2>2, <2>3
<1>7. MakesChildren("bitbucket", c)
    <2> SUFFICES ASSUME NEW id, NEW type, NEW items \in ListChildItems("bitbucket", c, id, type), NEW y \in items
                 PROVE  MadeOf("bitbucket", c, y)
        BY DEF MakesChildren
    <2>1. items \in BitbucketChildren(c, id, type)
        BY DEF ListChildItems
    <2>2. PICK o \in BitbucketAt(c, id) : y \in {BitbucketItem(x) : x \in Under(c, o.path)}
        BY <2>1 DEF BitbucketChildren, OfType
    <2> QED BY <1>2, <1>5, <1>6, <2>2 DEF MadeOf
<1>8. MakesInfo("bitbucket", c)
    BY <1>2, <1>6 DEF MakesInfo, GetItemInfo, BitbucketInfo, MadeOf
<1>9. MakesStarts("bitbucket", c)
    <2> DEFINE id(o) == <<"repository", ":">> \o Join(o.path, "/")
    <2>1. FolderType("bitbucket") = "folder" /\ "bitbucket" \notin TakesNoRoot
        BY DEF FolderType, CitationImps, TakesNoRoot
    <2>2. GetRootFolderForProvider("bitbucket", c) = {<<id(o), o>> : o \in {o \in c : o.kind = "repository"}}
        BY DEF GetRootFolderForProvider
    <2>3. \A o \in c : o.kind = "repository" => Item(id(o), "folder", o) = BitbucketItem(o)
        BY DEF BitbucketItem, FileOrFolder
    <2> HIDE DEF id
    <2> QED BY <1>2, <1>3, <2>1, <2>2, <2>3 DEF MakesStarts, StartingPoints, MadeOf
<1> QED BY <1>4, <1>7, <1>8, <1>9 DEF Makes

LEMMA BlobAtIs ==
    ASSUME NEW c, NEW id \in Seq(Tokens), NEW o \in BlobAt(c, id)
    PROVE  o \in c /\ o.path # <<>> /\ id = BlobItem(o).id
<1>1. o \in c /\ o.path # <<>> /\ <<FirstNames(o, 1), BlobKey(o)>> \in SplitOnce(id, ":/")
    BY DEF BlobAt, Account, At
<1>2. ":/" \in Tokens
    BY DEF Tokens
<1>3. id = FirstNames(o, 1) \o <<":/">> \o BlobKey(o)
    BY <1>1, <1>2, SplitPair
<1>4. BlobItem(o).id = FirstNames(o, 1) \o <<":/">> \o BlobKey(o)
    BY DEF BlobItem, Item
<1> QED BY <1>1, <1>3, <1>4

(* What the listings of S3 and Azure have in them, and their roots. *)
LEMMA BlobListings ==
    ASSUME NEW c, HasBuckets(c), Tree(c), NEW id
    PROVE  /\ \A type : \A items \in S3Children(c, id, type) : \A x \in items :
                 \E o \in c : o.path # <<>> /\ x = BlobItem(o)
           /\ \A items \in S3Roots(c) : \A x \in items : \E o \in c : o.path # <<>> /\ x = BlobItem(o)
<1>1. c \subseteq Things
    BY DEF Tree
<1>2. \A o \in c : \A x \in Under(c, o.path) : x \in c /\ x.path # <<>>
    BY <1>1, UnderHasPath, ThingPath
<1>3. \A x \in Under(c, <<>>) : x \in c /\ x.path # <<>>
    <2>1. <<>> \in Seq(Names)
        OBVIOUS
    <2> QED BY <1>1, <2>1, UnderHasPath
<1>4. ASSUME NEW type, NEW items \in S3Children(c, id, type), NEW x \in items
      PROVE  \E o \in c : o.path # <<>> /\ x = BlobItem(o)
    <2>1. PICK o \in BlobAt(c, id) : x \in {BlobItem(y) : y \in Under(c, o.path)}
        BY <1>4 DEF S3Children, OfType
    <2>2. o \in c
        BY DEF BlobAt
    <2> QED BY <1>2, <2>1, <2>2
<1> QED BY <1>3, <1>4 DEF S3Roots

LEMMA S3Makes ==
    ASSUME NEW c, WellFormed("s3", c)
    PROVE  Makes("s3", c)
<1>1. Tree(c) /\ c \subseteq Things /\ HasBuckets(c)
    BY DEF WellFormed, Tree
<1>2. OfKinds(c, {"account", "bucket", "folder", "file"}) /\ AtLevel(c, "account", 0)
    BY <1>1 DEF HasBuckets
<1>3. ASSUME NEW i, NEW o \in c, o.path # <<>>, i.of = o.oid, i.root => i.type \in {"folder", "collection"},
             Named(i, BlobItem(o).id, FileOrFolder(o)) \/ (Named(i, BlobKey(o), "file") /\ o.kind = "file")
      PROVE  Form("s3", c, i, o)
    <2>1. S3Form(i, o)
        BY <1>3 DEF S3Form
    <2> QED BY <1>3, <2>1 DEF Form
<1>4. ASSUME NEW o \in c, o.path # <<>>
      PROVE  Form("s3", c, BlobItem(o), o)
    <2> DEFINE i == BlobItem(o)
    <2>1. i.of = o.oid /\ i.type = FileOrFolder(o) /\ (i.root => i.type \in {"folder", "collection"})
        BY DEF BlobItem, Item
    <2>2. i.id = BlobItem(o).id
        OBVIOUS
    <2> HIDE DEF i
    <2>3. Named(i, BlobItem(o).id, FileOrFolder(o))
        BY <2>1, <2>2 DEF Named
    <2>4. Form("s3", c, i, o)
        BY <1>3, <1>4, <2>1, <2>2, <2>3
    <2> QED BY <2>4 DEF i
<1>5. MakesRoots("s3", c)
    <2>1. \A items \in S3Roots(c) : \A x \in items : \E o \in c : o.path # <<>> /\ x = BlobItem(o)
        BY <1>1, BlobListings
    <2> QED BY <1>4, <2>1 DEF MakesRoots, ListRootItems, MadeOf
<1>6. MakesChildren("s3", c)
    <2>1. ASSUME NEW id, NEW type, NEW items \in ListChildItems("s3", c, id, type), NEW y \in items
          PROVE  MadeOf("s3", c, y)
        <3>1. items \in S3Children(c, id, type)
            BY <2>1 DEF ListChildItems
        <3>2. \E o \in c : o.path # <<>> /\ y = BlobItem(o)
            BY <1>1, <2>1, <3>1, BlobListings
        <3> QED BY <1>4, <3>2 DEF MadeOf
    <2> QED BY <2>1 DEF MakesChildren
<1>7. MakesInfo("s3", c)
    <2> SUFFICES ASSUME NEW id \in Seq(Tokens), NEW y \in GetItemInfo("s3", c, id)
                 PROVE  MadeOf("s3", c, y)
        BY DEF MakesInfo, GoodId, KeyedImps
    <2> DEFINE found(o) == IF o.kind = "file" THEN {o} ELSE Under(c, o.path)
               answer(o) == IF o.kind = "bucket" THEN {[BlobItem(o) EXCEPT !.id = id]}
                            ELSE IF \E x \in found(o) : found(o) = {x} /\ x.kind = "file"
                            THEN {Item(BlobKey(x), "file", x) : x \in found(o)}
                            ELSE {Item(id, "folder", o) : x \in {x \in found(o) : x.kind = "file"}}
    <2>1. y \in UNION {answer(o) : o \in BlobAt(c, id)}
        BY DEF GetItemInfo, S3Info
    <2> HIDE DEF answer
    <2>2. PICK o \in BlobAt(c, id) : y \in answer(o)
        BY <2>1
    <2>3. o \in c /\ o.path # <<>> /\ id = BlobItem(o).id
        BY <2>2, BlobAtIs
    <2>4. CASE o.kind = "bucket"
        <3>1. y = [BlobItem(o) EXCEPT !.id = id]
            BY <2>2, <2>4 DEF answer
        <3>2. [BlobItem(o) EXCEPT !.id = id] = BlobItem(o)
            BY <2>3 DEF BlobItem, Item
        <3> QED BY <1>4, <2>3, <3>1, <3>2 DEF MadeOf
    <2>5. CASE o.kind # "bucket" /\ \E x \in found(o) : found(o) = {x} /\ x.kind = "file"
        <3>1. PICK x \in found(o) : found(o) = {x} /\ x.kind = "file"
            BY <2>5
        <3>2. y = Item(BlobKey(x), "file", x)
            BY <2>2, <2>5, <3>1 DEF answer
        <3>3. x \in c /\ x.path # <<>>
            <4>1. \A z \in Under(c, o.path) : z \in c /\ z.path # <<>>
                BY <1>1, <2>3, UnderHasPath, ThingPath
            <4> QED BY <2>3, <3>1, <4>1
        <3>4. Form("s3", c, y, x)
            BY <1>3, <3>1, <3>2, <3>3, ItemIs DEF Named
        <3> QED BY <3>3, <3>4 DEF MadeOf
    <2>6. CASE o.kind # "bucket" /\ ~(\E x \in found(o) : found(o) = {x} /\ x.kind = "file")
        <3>1. PICK x \in found(o) : x.kind = "file" /\ y = Item(id, "folder", o)
            BY <2>2, <2>6 DEF answer
        <3>2. FileOrFolder(o) = "folder"
            BY <2>6, <3>1 DEF FileOrFolder
        <3>3. /\ y.id = BlobItem(o).id /\ y.type = "folder" /\ y.of = o.oid
              /\ y.root => y.type \in {"folder", "collection"}
            BY <2>3, <3>1, ItemIs
        <3>5. Named(y, BlobItem(o).id, FileOrFolder(o))
            BY <3>2, <3>3 DEF Named
        <3>4. Form("s3", c, y, o)
            BY <1>3, <2>3, <3>3, <3>5
        <3> QED BY <2>3, <3>4 DEF MadeOf
    <2> QED BY <2>4, <2>5, <2>6
<1>8. MakesStarts("s3", c)
    <2>1. FolderType("s3") = "folder" /\ "s3" \notin TakesNoRoot
        BY DEF FolderType, CitationImps, TakesNoRoot
    <2>2. GetRootFolderForProvider("s3", c) = {<<BlobItem(o).id, o>> : o \in {o \in c : o.kind \in {"bucket", "folder"}}}
        BY DEF GetRootFolderForProvider
    <2>3. ASSUME NEW o \in c, o.kind \in {"bucket", "folder"}
          PROVE  Form("s3", c, Item(BlobItem(o).id, "folder", o), o)
        <3>1. o.path # <<>>
            BY <1>1, <1>2, <2>3, NoPath DEF AtLevel
        <3>2. FileOrFolder(o) = "folder"
            BY <2>3 DEF FileOrFolder
        <3> DEFINE id == BlobItem(o).id
                   i == Item(id, "folder", o)
        <3> HIDE DEF id
        <3>3. i.id = id /\ i.type = "folder" /\ i.of = o.oid /\ (i.root => i.type \in {"folder", "collection"})
            BY ItemIs
        <3> HIDE DEF i
        <3>4. Named(i, BlobItem(o).id, FileOrFolder(o))
            BY <3>2, <3>3 DEF Named, id
        <3>5. Form("s3", c, i, o)
            BY <1>3, <2>3, <3>1, <3>3, <3>4
        <3> QED BY <3>5 DEF i, id
    <2> QED BY <2>1, <2>2, <2>3 DEF MakesStarts, StartingPoints, MadeOf
<1> QED BY <1>5, <1>6, <1>7, <1>8 DEF Makes

LEMMA AzureMakes ==
    ASSUME NEW c, WellFormed("azure", c)
    PROVE  Makes("azure", c)
<1>1. Tree(c) /\ c \subseteq Things /\ HasBuckets(c)
    BY DEF WellFormed, Tree
<1>2. OfKinds(c, {"account", "bucket", "folder", "file"}) /\ AtLevel(c, "bucket", 1)
    BY <1>1 DEF HasBuckets
<1>3. ASSUME NEW i, NEW o \in c, o.path # <<>>, i.of = o.oid, i.root => i.type \in {"folder", "collection"},
             i.id = BlobItem(o).id, i.type = FileOrFolder(o) \/ (i.type = "file" /\ Len(o.path) # 1)
      PROVE  Form("azure", c, i, o)
    <2>1. AzureForm(i, o)
        BY <1>3 DEF AzureForm
    <2> QED BY <1>3, <2>1 DEF Form
<1>4. ASSUME NEW o \in c, o.path # <<>>
      PROVE  Form("azure", c, BlobItem(o), o)
    <2> DEFINE i == BlobItem(o)
    <2>1. i.of = o.oid /\ i.type = FileOrFolder(o) /\ (i.root => i.type \in {"folder", "collection"})
        BY DEF BlobItem, Item
    <2>2. i.id = BlobItem(o).id
        OBVIOUS
    <2> HIDE DEF i
    <2>3. Named(i, BlobItem(o).id, FileOrFolder(o))
        BY <2>1, <2>2 DEF Named
    <2>4. Form("azure", c, i, o)
        BY <1>3, <1>4, <2>1, <2>2, <2>3
    <2> QED BY <2>4 DEF i
<1>5. MakesRoots("azure", c)
    <2>1. \A items \in S3Roots(c) : \A x \in items : \E o \in c : o.path # <<>> /\ x = BlobItem(o)
        BY <1>1, BlobListings
    <2>2. AzureRoots(c) = S3Roots(c)
        BY DEF AzureRoots, S3Roots
    <2> QED BY <1>4, <2>1, <2>2 DEF MakesRoots, ListRootItems, MadeOf
<1>6. MakesChildren("azure", c)
    <2>1. ASSUME NEW id, NEW type, NEW items \in ListChildItems("azure", c, id, type), NEW y \in items
          PROVE  MadeOf("azure", c, y)
        <3>1. items \in S3Children(c, id, type)
            BY <2>1 DEF ListChildItems, AzureChildren, S3Children
        <3>2. \E o \in c : o.path # <<>> /\ y = BlobItem(o)
            BY <1>1, <2>1, <3>1, BlobListings
        <3> QED BY <1>4, <3>2 DEF MadeOf
    <2> QED BY <2>1 DEF MakesChildren
<1>7. MakesInfo("azure", c)
    <2> SUFFICES ASSUME NEW id \in Seq(Tokens), NEW y \in GetItemInfo("azure", c, id)
                 PROVE  MadeOf("azure", c, y)
        BY DEF MakesInfo, GoodId, KeyedImps
    <2>1. PICK o \in BlobAt(c, id) : y = IF Len(o.path) = 1 THEN Item(id, "folder", o) ELSE Item(id, "file", o)
        BY DEF GetItemInfo, AzureInfo
    <2>2. o \in c /\ o.path # <<>> /\ id = BlobItem(o).id
        BY <2>1, BlobAtIs
    <2>3. Len(o.path) = 1 => FileOrFolder(o) = "folder"
        BY <1>2, <2>2 DEF AtLevel, FileOrFolder
    <2>4. Form("azure", c, y, o)
        <3>1. /\ y.id = id /\ y.of = o.oid /\ y.type = IF Len(o.path) = 1 THEN "folder" ELSE "file"
              /\ y.root => y.type \in {"folder", "collection"}
            BY <2>1, ItemIs
        <3>2. y.type = FileOrFolder(o) \/ (y.type = "file" /\ Len(o.path) # 1)
            BY <2>3, <3>1
        <3> QED BY <1>3, <2>2, <3>1, <3>2
    <2> QED BY <2>2, <2>4 DEF MadeOf
<1>8. MakesStarts("azure", c)
    BY DEF MakesStarts, StartingPoints, GetRootFolderForProvider, TakesNoRoot
<1> QED BY <1>5, <1>6, <1>7, <1>8 DEF Makes

LEMMA OwncloudMakes ==
    ASSUME NEW c, WellFormed("owncloud", c)
    PROVE  Makes("owncloud", c)
<1>1. Tree(c) /\ c \subseteq Things /\ \A o \in c : o.path = <<>> => o.kind = "folder"
    BY DEF WellFormed, Tree
<1>2. ASSUME NEW i, NEW o \in c, NEW q \in {OwncloudPath(o), <<"/">> \o Join(o.path, "/")},
             i.of = o.oid, i.root => i.type \in {"folder", "collection"},
             Named(i, <<FileOrFolder(o), ":">> \o q, FileOrFolder(o))
      PROVE  Form("owncloud", c, i, o)
    <2>1. OwncloudForm(i, o)
        BY <1>2 DEF OwncloudForm
    <2> QED BY <1>2, <2>1 DEF Form
<1>3. ASSUME NEW o \in c, NEW q \in {OwncloudPath(o), <<"/">> \o Join(o.path, "/")}
      PROVE  Form("owncloud", c, OwncloudItem(o, q), o)
    <2> DEFINE i == OwncloudItem(o, q)
    <2>1. /\ i.of = o.oid /\ i.type = FileOrFolder(o) /\ i.id = <<FileOrFolder(o), ":">> \o q
          /\ i.root => i.type \in {"folder", "collection"}
        BY DEF OwncloudItem, Item
    <2> HIDE DEF i
    <2>2. Form("owncloud", c, i, o)
        BY <1>2, <1>3, <2>1 DEF Named
    <2> QED BY <2>2 DEF i
<1>4. MakesRoots("owncloud", c)
    <2> SUFFICES ASSUME NEW o \in Account(c)
                 PROVE  MadeOf("owncloud", c, OwncloudItem(o, <<"/">>))
        BY DEF MakesRoots, ListRootItems, OwncloudRoots
    <2>1. o \in c /\ <<"/">> = OwncloudPath(o)
        BY DEF Account, At, OwncloudPath
    <2> QED BY <1>3, <2>1 DEF MadeOf
<1>5. MakesChildren("owncloud", c)
    <2> SUFFICES ASSUME NEW id, NEW type, NEW items \in ListChildItems("owncloud", c, id, type), NEW y \in items
                 PROVE  MadeOf("owncloud", c, y)
        BY DEF MakesChildren
    <2> DEFINE inside(o, r) == {OwncloudItem(x, OwncloudPath(x)) :
                                  x \in {x \in {o} \cup Under(c, o.path) : OwncloudPath(x) # r}}
               lists(p) == {OfType(inside(o, p[2]), type) : o \in OwncloudAt(c, p[2])}
    <2>1. items \in UNION {lists(p) : p \in OwncloudParse(id)}
        BY DEF ListChildItems, OwncloudChildren
    <2>2. \A o, r : \A x \in inside(o, r) : \E z \in {o} \cup Under(c, o.path) : x = OwncloudItem(z, OwncloudPath(z))
        OBVIOUS
    <2> HIDE DEF inside
    <2>3. PICK p : items \in lists(p)
        <3> HIDE DEF lists
        <3> QED BY <2>1
    <2>4. PICK o \in OwncloudAt(c, p[2]) : items = OfType(inside(o, p[2]), type)
        BY <2>3
    <2>5. y \in inside(o, p[2])
        BY <2>4 DEF OfType
    <2>6. o \in c /\ Under(c, o.path) \subseteq c
        BY DEF OwncloudAt, Under
    <2>7. PICK z \in c : y = OwncloudItem(z, OwncloudPath(z))
        BY <2>2, <2>5, <2>6
    <2> QED BY <1>3, <2>7 DEF MadeOf
<1>6. MakesInfo("owncloud", c)
    <2> SUFFICES ASSUME NEW id \in Seq(Tokens), Len(id) # 2, NEW y \in GetItemInfo("owncloud", c, id)
                 PROVE  MadeOf("owncloud", c, y)
        BY DEF MakesInfo, GoodId, KeyedImps
    <2>1. PICK p \in OwncloudParse(id) : y \in {OwncloudItem(o, p[2]) : o \in OwncloudAt(c, p[2])}
        BY DEF GetItemInfo, OwncloudInfo
    <2>2. PICK o \in OwncloudAt(c, p[2]) : y = OwncloudItem(o, p[2])
        BY <2>1
    <2>3. o \in c /\ o \in Things /\ StripLeft(OwncloudPath(o)) = StripLeft(p[2])
        BY <1>1 DEF OwncloudAt
    <2>4. StripLeft(p[2]) = Join(o.path, "/")
        BY <2>3, StrippedPath
    <2>5. CASE id = <<>>
        <3>1. p = << <<"folder">>, <<"/">> >>
            BY <2>1, <2>5 DEF OwncloudParse
        <3>2. p[2] = <<"/">>
            BY <3>1
        <3>3. Join(o.path, "/") = <<>>
            BY <2>4, <3>2 DEF StripLeft
        <3>4. <<"/">> = <<"/">> \o Join(o.path, "/")
            BY <3>3
        <3> QED BY <1>3, <2>2, <2>3, <3>2, <3>4 DEF MadeOf
    <2>6. CASE id # <<>>
        <3>1. p \in SplitOnce(id, ":") /\ p[1] \in {<<"file">>, <<"folder">>}
            BY <2>1, <2>6 DEF OwncloudParse
        <3>2. IsCut(Tokens, id, ":", p)
            BY <3>1, SplitBack
        <3>3. id = p[1] \o <<":">> \o p[2] /\ p[2] \in Seq(Tokens)
            BY <3>2 DEF IsCut
        <3>4. p[2] # <<>>
            <4> DEFINE a == p[1]
                       b == <<":">>
            <4>1. a \in Seq(Tokens) /\ Len(a) = 1
                BY <3>1, <3>2 DEF IsCut
            <4>2. b \in Seq(Tokens) /\ Len(b) = 1
                BY DEF Tokens
            <4> HIDE DEF a, b
            <4>3. a \o b \in Seq(Tokens) /\ Len(a \o b) = 2
                <5>1. a \o b \in Seq(Tokens) /\ Len(a \o b) = Len(a) + Len(b)
                    BY <4>1, <4>2, ConcatProperties
                <5> QED BY <4>1, <4>2, <5>1
            <4>4. (a \o b) \o <<>> = a \o b
                BY <4>3, ConcatEmptySeq
            <4>5. id = (a \o b) \o p[2]
                BY <3>3 DEF a, b
            <4> QED BY <4>3, <4>4, <4>5
        <3>5. p[2] \in {OwncloudPath(o), <<"/">> \o Join(o.path, "/")}
            <4>1. CASE Head(p[2]) = "/"
                <5>1. Tail(p[2]) = Join(o.path, "/")
                    BY <2>4, <3>4, <4>1 DEF StripLeft
                <5>2. p[2] = <<Head(p[2])>> \o Tail(p[2])
                    BY <3>3, <3>4
                <5> QED BY <4>1, <5>1, <5>2
            <4>2. CASE Head(p[2]) # "/"
                <5>1. p[2] = Join(o.path, "/")
                    BY <2>4, <4>2 DEF StripLeft
                <5>2. o.path # <<>>
                    BY <2>3, <3>4, <5>1, StrippedPath
                <5> QED BY <5>1, <5>2 DEF OwncloudPath
            <4> QED BY <4>1, <4>2
        <3> QED BY <1>3, <2>2, <2>3, <3>5 DEF MadeOf
    <2> QED BY <2>5, <2>6
<1>7. MakesStarts("owncloud", c)
    <2> DEFINE id(o) == <<"folder", ":", "/">> \o Join(o.path, "/")
    <2>1. FolderType("owncloud") = "folder" /\ "owncloud" \in TakesNoRoot
        BY DEF FolderType, CitationImps, TakesNoRoot
    <2>2. GetRootFolderForProvider("owncloud", c) = {<<id(o), o>> : o \in {o \in c : o.kind = "folder"}}
        BY DEF GetRootFolderForProvider
    <2>3. ASSUME NEW o \in c, o.kind = "folder"
          PROVE  Form("owncloud", c, Item(id(o), "folder", o), o)
        <3>1. FileOrFolder(o) = "folder"
            BY <2>3 DEF FileOrFolder
        <3>2. id(o) = <<FileOrFolder(o), ":">> \o (<<"/">> \o Join(o.path, "/"))
            <4>1. Join(o.path, "/") \in Seq(Tokens)
                <5>1. o.path \in Seq(Names) /\ "/" \in Tokens
                    BY <1>1, ThingPath DEF Tokens
                <5> QED BY <5>1, JoinIs
            <4>2. <<"folder", ":">> \in Seq(Tokens) /\ <<"/">> \in Seq(Tokens)
                BY DEF Tokens
            <4>3. (<<"folder", ":">> \o <<"/">>) \o Join(o.path, "/") = <<"folder", ":">> \o (<<"/">> \o Join(o.path, "/"))
                BY <4>1, <4>2, ConcatAssociative
            <4>4. <<"folder", ":">> \o <<"/">> = <<"folder", ":", "/">>
                <5> DEFINE u == <<"folder", ":">>
                           v == <<"/">>
                           w == <<"folder", ":", "/">>
                <5>1. /\ u \in Seq(Tokens) /\ Len(u) = 2 /\ u[1] = "folder" /\ u[2] = ":"
                      /\ v \in Seq(Tokens) /\ Len(v) = 1 /\ v[1] = "/"
                      /\ w \in Seq(Tokens) /\ Len(w) = 3 /\ w[1] = "folder" /\ w[2] = ":" /\ w[3] = "/"
                    BY DEF Tokens
                <5> HIDE DEF u, v, w
                <5>2. /\ u \o v \in Seq(Tokens) /\ Len(u \o v) = 3
                      /\ \A k \in 1..3 : (u \o v)[k] = IF k <= 2 THEN u[k] ELSE v[k - 2]
                    <6>1. /\ u \o v \in Seq(Tokens) /\ Len(u \o v) = Len(u) + Len(v)
                          /\ \A k \in 1..(Len(u) + Len(v)) : (u \o v)[k] = IF k <= Len(u) THEN u[k] ELSE v[k - Len(u)]
                        BY <5>1, ConcatProperties
                    <6>2. Len(u) + Len(v) = 3 /\ Len(u) = 2
                        BY <5>1
                    <6> QED BY <6>1, <6>2
                <5>3. \A k \in 1..3 : (u \o v)[k] = w[k]
                    <6>1. \A k \in 1..3 : k = 1 \/ k = 2 \/ (k = 3 /\ k - 2 = 1 /\ ~(k <= 2))
                        OBVIOUS
                    <6>2. 1 <= 2 /\ 2 <= 2
                        OBVIOUS
                    <6> QED BY <5>1, <5>2, <6>1, <6>2
                <5>4. u \o v = w
                    BY <5>1, <5>2, <5>3, SeqEqual
                <5> QED BY <5>4 DEF u, v, w
            <4> QED BY <3>1, <4>3, <4>4
        <3> DEFINE i == Item(id(o), "folder", o)
        <3> HIDE DEF id
        <3>3. i.id = id(o) /\ i.type = "folder" /\ i.of = o.oid /\ (i.root => i.type \in {"folder", "collection"})
            BY ItemIs
        <3> HIDE DEF i
        <3>4. Form("owncloud", c, i, o)
            BY <1>2, <2>3, <3>1, <3>2, <3>3 DEF Named
        <3> QED BY <3>4 DEF i
    <2>4. ASSUME NEW o \in Account(c)
          PROVE  MadeOf("owncloud", c, Item(<<>>, "folder", o))
        <3>1. o \in c /\ o.path = <<>>
            BY DEF Account, At
        <3>2. OwncloudForm(Item(<<>>, "folder", o), o)
            BY <3>1, ItemIs DEF OwncloudForm, IsAccount, Named
        <3>3. Form("owncloud", c, Item(<<>>, "folder", o), o)
            BY <3>2, ItemIs DEF Form
        <3> QED BY <3>1, <3>3 DEF MadeOf
    <2> HIDE DEF id
    <2> QED BY <2>1, <2>2, <2>3, <2>4 DEF MakesStarts, StartingPoints, MadeOf
<1> QED BY <1>4, <1>5, <1>6, <1>7 DEF Makes

(***************************************************************************)
(* The picker holds ids of these forms only.                               *)
(***************************************************************************)
LEMMA GithubIds ==
    ASSUME NEW c, WellFormed("github", c), NEW o \in c, NEW i, GithubForm(i, o)
    PROVE  HasTokens(i.id)
<1>1. /\ o \in Things /\ Len(o.path) \in Nat
      /\ o.kind = "repository" <=> Len(o.path) = 2
      /\ o.kind = "account" <=> Len(o.path) = 0
      /\ Len(o.path) # 1
    <2>1. c \subseteq Things /\ AtLevel(c, "account", 0) /\ AtLevel(c, "repository", 2) /\ \A x \in c : Len(x.path) # 1
        BY DEF WellFormed, Tree, HasRepositories
    <2> QED BY <2>1, ThingPath DEF AtLevel
<1>2. o.kind = "account" => o.kind \notin {"repository", "file", "folder"}
    OBVIOUS
<1>3. o.kind \in {"repository", "file", "folder"}
    BY DEF GithubForm
<1>4. Len(o.path) # 0
    BY <1>1, <1>2, <1>3
<1>5. Len(o.path) >= 2
    BY <1>1, <1>4, AtLeastTwo
<1>6. FullName(o) \in Seq(Tokens) /\ Len(FullName(o)) = 3
    BY <1>1, <1>5, FullNameIs
<1>7. <<":">> \in Seq(Tokens) /\ Len(<<":">>) = 1
    BY DEF Tokens
<1> DEFINE full == FullName(o)
           cut == <<":">>
<1> HIDE DEF full, cut
<1>8. full \o cut \in Seq(Tokens) /\ Len(full \o cut) = 4
    <2>1. full \o cut \in Seq(Tokens) /\ Len(full \o cut) = Len(full) + Len(cut)
        BY <1>6, <1>7, ConcatProperties DEF full, cut
    <2> QED BY <1>6, <1>7, <2>1 DEF full, cut
<1>9. CASE o.kind = "repository"
    <2>1. i.id = full \o cut
        BY <1>9 DEF GithubForm, Named, full, cut
    <2> QED BY <1>8, <2>1 DEF HasTokens
<1>10. CASE o.kind # "repository"
    <2>1. Len(o.path) >= 3
        BY <1>1, <1>4, <1>10, AtLeastThree
    <2>2. CASE o.kind = "file"
        <3>1. i.id = Inner(o, 2)
            BY <2>2 DEF GithubForm
        <3>2. Inner(o, 2) \in Seq(Tokens) /\ Len(Inner(o, 2)) = (IF Len(o.path) = 2 THEN 0 ELSE 2 * (Len(o.path) - 2) - 1)
            BY <1>1, <1>5, GithubInner
        <3> DEFINE n == Len(o.path)
                   l == Len(Inner(o, 2))
        <3>3. n \in Nat /\ n >= 3 /\ l = (IF n = 2 THEN 0 ELSE 2 * (n - 2) - 1)
            BY <1>1, <2>1, <3>2
        <3> HIDE DEF n, l
        <3>4. l # 0
            BY <3>3
        <3>5. Len(Inner(o, 2)) # 0
            BY <3>4 DEF l
        <3> QED BY <3>1, <3>2, <3>5 DEF HasTokens
    <2>3. CASE o.kind = "folder"
        BY <2>3 DEF GithubForm
    <2> QED BY <1>3, <1>10, <2>2, <2>3
<1> QED BY <1>9, <1>10

LEMMA GitlabIds ==
    ASSUME NEW c, WellFormed("gitlab", c), NEW o \in c, NEW i, GitlabForm(c, i, o)
    PROVE  i.id \in Seq(Tokens)
<1>1. PICK p \in c : /\ IsPrefix(p.path, o.path)
                     /\ i.id = Join(p.path, "%2F") \o <<":">> \o Inner(o, Len(p.path))
    BY DEF GitlabForm, Named
<1>2. o \in Things /\ p \in Things
    BY DEF WellFormed, Tree
<1>3. p.path \in Seq(Names) /\ o.path \in Seq(Names) /\ Len(p.path) \in Nat /\ "%2F" \in Tokens
    BY <1>2, ThingPath DEF Tokens
<1>4. Len(p.path) <= Len(o.path)
    BY <1>1, <1>3, PathPrefix
<1>5. Inner(o, Len(p.path)) \in Seq(Tokens)
    BY <1>2, <1>3, <1>4, InnerIs
<1>6. Join(p.path, "%2F") \in Seq(Tokens)
    BY <1>3, JoinIs
<1>7. <<":">> \in Seq(Tokens)
    BY DEF Tokens
<1> DEFINE a == Join(p.path, "%2F")
           b == <<":">>
           e == Inner(o, Len(p.path))
<1> HIDE DEF a, b, e
<1>8. (a \o b) \o e \in Seq(Tokens)
    <2>1. a \in Seq(Tokens) /\ b \in Seq(Tokens) /\ e \in Seq(Tokens)
        BY <1>5, <1>6, <1>7 DEF a, b, e
    <2> QED BY <2>1
<1> QED BY <1>1, <1>8 DEF a, b, e

LEMMA BitbucketIds ==
    ASSUME NEW c, WellFormed("bitbucket", c), NEW o \in c, NEW i, BitbucketForm(i, o)
    PROVE  i.id \in Seq(Tokens)
<1>1. o \in Things /\ o.path \in Seq(Names) /\ "/" \in Tokens
    BY ThingPath DEF WellFormed, Tree, Tokens
<1> DEFINE q == IF o.kind = "workspace" THEN o.path ELSE Join(o.path, "/")
           k == IF o.kind = "workspace" THEN "workspace" ELSE "repository"
<1>2. q \in Seq(Tokens)
    <2>1. Join(o.path, "/") \in Seq(Tokens)
        BY <1>1, JoinIs
    <2>2. Names \subseteq Tokens
        BY DEF Tokens
    <2>3. o.path \in Seq(Tokens)
        BY <1>1, <2>2
    <2> QED BY <2>1, <2>3
<1>3. k \in {"file", "folder", "workspace", "repository"}
    OBVIOUS
<1>4. i.id = <<k, ":">> \o q
    BY DEF BitbucketForm, BitbucketItem, Item, NotRoot, Named
<1> HIDE DEF k, q
<1>5. IsKindPath(i.id, k, q)
    BY <1>2, <1>3, <1>4, KindPath
<1> QED BY <1>5 DEF IsKindPath

LEMMA BlobIds ==
    ASSUME NEW o \in Things, o.path # <<>>
    PROVE  BlobItem(o).id \in Seq(Tokens) /\ BlobKey(o) \in Seq(Tokens)
<1> DEFINE a == FirstNames(o, 1)
           b == <<":/">>
           e == BlobKey(o)
<1>1. BlobItem(o).id = (a \o b) \o e
    BY DEF BlobItem, Item
<1>2. a \in Seq(Tokens) /\ e \in Seq(Tokens)
    BY BlobKeyIs
<1>3. b \in Seq(Tokens)
    BY DEF Tokens
<1> HIDE DEF a, b, e
<1>4. (a \o b) \o e \in Seq(Tokens)
    BY <1>2, <1>3
<1> QED BY <1>1, <1>2, <1>4 DEF e

LEMMA OwncloudIds ==
    ASSUME NEW c, WellFormed("owncloud", c), NEW o \in c, NEW i, OwncloudForm(i, o)
    PROVE  i.id \in Seq(Tokens) /\ Len(i.id) # 2
<1>1. o \in Things
    BY DEF WellFormed, Tree
<1>2. CASE IsAccount(i, o)
    BY <1>2 DEF IsAccount, Named
<1>3. ASSUME NEW q \in {OwncloudPath(o), <<"/">> \o Join(o.path, "/")},
             Named(i, <<FileOrFolder(o), ":">> \o q, FileOrFolder(o))
      PROVE  i.id \in Seq(Tokens) /\ Len(i.id) # 2
    <2> DEFINE k == FileOrFolder(o)
    <2>1. q \in Seq(Tokens)
        <3>1. <<"/">> \o Join(o.path, "/") \in Seq(Tokens)
            BY <1>1, SlashPath
        <3> QED BY <1>1, <1>3, <3>1, StrippedPath
    <2>2. Len(q) # 0
        <3>1. Len(<<"/">> \o Join(o.path, "/")) = 1 + Len(Join(o.path, "/")) /\ Join(o.path, "/") \in Seq(Tokens)
            BY <1>1, SlashPath
        <3>2. Len(<<"/">> \o Join(o.path, "/")) # 0
            <4> DEFINE l == Len(Join(o.path, "/"))
            <4>1. l \in Nat /\ Len(<<"/">> \o Join(o.path, "/")) = 1 + l
                BY <3>1
            <4> HIDE DEF l
            <4> QED BY <4>1
        <3>3. Len(OwncloudPath(o)) # 0
            <4>1. CASE o.path = <<>>
                <5>1. OwncloudPath(o) = <<"/">>
                    BY <4>1 DEF OwncloudPath
                <5> QED BY <5>1
            <4>2. CASE o.path # <<>>
                <5>1. OwncloudPath(o) = Join(o.path, "/")
                    BY <4>2 DEF OwncloudPath
                <5>2. Len(Join(o.path, "/")) > 0
                    BY <1>1, <4>2, SlashPath
                <5> QED BY <5>1, <5>2
            <4> QED BY <4>1, <4>2
        <3> QED BY <1>3, <3>2, <3>3
    <2>3. k \in {"file", "folder", "workspace", "repository"}
        BY DEF FileOrFolder
    <2> HIDE DEF k
    <2>4. i.id = <<k, ":">> \o q
        BY <1>3 DEF Named, k
    <2>5. IsKindPath(i.id, k, q)
        BY <2>1, <2>3, <2>4, KindPath
    <2>6. i.id \in Seq(Tokens) /\ Len(i.id) = 2 + Len(q) /\ Len(q) \in Nat
        BY <2>5 DEF IsKindPath
    <2>7. Len(i.id) # 2
        BY <2>2, <2>6
    <2> QED BY <2>6, <2>7
<1> QED BY <1>2, <1>3 DEF OwncloudForm

LEMMA GoodIds ==
    ASSUME NEW s \in AllImps, NEW c, WellFormed(s, c), NEW o \in c, NEW i, Form(s, c, i, o)
    PROVE  GoodId(s, i.id)
<1>1. CASE s \in KeyedImps \ {"figshare"}
    BY <1>1 DEF GoodId, KeyedImps
<1>2. CASE s = "figshare"
    <2>1. FigshareForm(c, i, o)
        BY <1>2 DEF Form
    <2>2. i.id # <<>>
        <3>1. \A a, b, e : <<a, b, e>> # <<>>
            OBVIOUS
        <3>2. ASSUME NEW a, NEW b, NEW e, NEW f, NEW g, NEW h, NEW j
              PROVE  <<a, b, e, f, g, h, j>> # <<>>
            <4> DEFINE w == <<a, b, e, f, g, h, j>>
            <4>1. Len(w) = 7
                OBVIOUS
            <4> HIDE DEF w
            <4>2. Len(w) # 0
                BY <4>1
            <4>3. w # <<>>
                BY <4>2
            <4> QED BY <4>3 DEF w
        <3> QED BY <2>1, <3>1, <3>2 DEF FigshareForm, Named
    <2> QED BY <1>2, <2>2 DEF GoodId, KeyedImps
<1>3. CASE s = "github"
    <2>1. GithubForm(i, o)
        BY <1>3 DEF Form
    <2>2. HasTokens(i.id)
        BY <1>3, <2>1, GithubIds
    <2> QED BY <1>3, <2>2 DEF GoodId
<1>4. CASE s = "gitlab"
    <2>1. GitlabForm(c, i, o)
        BY <1>4 DEF Form
    <2>2. i.id \in Seq(Tokens)
        BY <1>4, <2>1, GitlabIds
    <2> QED BY <1>4, <2>2 DEF GoodId
<1>5. CASE s = "bitbucket"
    <2>1. BitbucketForm(i, o)
        BY <1>5 DEF Form
    <2>2. i.id \in Seq(Tokens)
        BY <1>5, <2>1, BitbucketIds
    <2> QED BY <1>5, <2>2 DEF GoodId
<1>6. CASE s \in {"s3", "azure"}
    <2>1. o \in Things
        BY DEF WellFormed, Tree
    <2>2. o.path # <<>> /\ i.id \in {BlobItem(o).id, BlobKey(o)}
        <3>1. CASE s = "s3"
            <4>1. S3Form(i, o)
                BY <3>1 DEF Form
            <4> QED BY <4>1 DEF S3Form, Named
        <3>2. CASE s = "azure"
            <4>1. AzureForm(i, o)
                BY <3>2 DEF Form
            <4> QED BY <4>1 DEF AzureForm
        <3> QED BY <1>6, <3>1, <3>2
    <2>3. i.id \in Seq(Tokens)
        BY <2>1, <2>2, BlobIds
    <2> QED BY <1>6, <2>3 DEF GoodId
<1>7. CASE s = "owncloud"
    <2>1. OwncloudForm(i, o)
        BY <1>7 DEF Form
    <2>2. i.id \in Seq(Tokens) /\ Len(i.id) # 2
        BY <1>7, <2>1, OwncloudIds
    <2> QED BY <1>7, <2>2 DEF GoodId
<1>8. s \in KeyedImps \/ s \in {"github", "gitlab", "bitbucket", "s3", "azure", "owncloud"}
    BY DEF AllImps, KeyedImps
<1> QED BY <1>1, <1>2, <1>3, <1>4, <1>5, <1>6, <1>7, <1>8

LEMMA AnswerForm ==
    ASSUME NEW s \in AllImps, NEW c, NEW o, NEW i, Form(s, c, i, o), NEW a, AnswerOf(a, i)
    PROVE  Form(s, c, a, o)
<1>1. a.id = i.id /\ a.type = i.type /\ a.of = i.of /\ (a.root => i.root)
    BY DEF AnswerOf
<1>2. a.of = o.oid /\ (a.root => a.type \in {"folder", "collection"})
    BY <1>1 DEF Form
<1>3. CASE s \in {"box", "dropbox", "googledrive", "onedrive"}
    <2>1. CASE s = "box"
        BY <1>1, <1>2, <2>1 DEF Form, BoxForm, IsAccount, Named
    <2>2. CASE s = "dropbox"
        BY <1>1, <1>2, <2>2 DEF Form, DropboxKeyForm, DropboxPathForm, Named
    <2>3. CASE s = "googledrive"
        BY <1>1, <1>2, <2>3 DEF Form, DriveForm, Named
    <2>4. CASE s = "onedrive"
        BY <1>1, <1>2, <2>4 DEF Form, OneDriveForm
    <2> QED BY <1>3, <2>1, <2>2, <2>3, <2>4
<1>4. CASE s \in {"figshare", "dataverse", "link"}
    <2>1. CASE s = "figshare"
        <3>1. FigshareForm(c, i, o)
            BY <2>1 DEF Form
        <3>2. FigshareForm(c, a, o)
            BY <1>1, <3>1 DEF FigshareForm, Named
        <3> QED BY <1>2, <2>1, <3>2 DEF Form
    <2>2. CASE s = "dataverse"
        BY <1>1, <1>2, <2>2 DEF Form, DataverseForm, IsAccount, Named
    <2>3. CASE s = "link"
        BY <1>1, <1>2, <2>3 DEF Form, LinkForm, IsAccount, Named
    <2> QED BY <1>4, <2>1, <2>2, <2>3
<1>5. CASE s \in {"zotero", "mendeley"}
    <2>1. CASE s = "zotero"
        <3>1. ZoteroForm(c, i, o)
            BY <2>1 DEF Form
        <3>2. ZoteroForm(c, a, o)
            BY <1>1, <3>1 DEF ZoteroForm, Named
        <3> QED BY <1>2, <2>1, <3>2 DEF Form
    <2>2. CASE s = "mendeley"
        BY <1>1, <1>2, <2>2 DEF Form, MendeleyForm, Named
    <2> QED BY <1>5, <2>1, <2>2
<1>6. CASE s \in {"github", "gitlab", "bitbucket"}
    <2>1. CASE s = "github"
        <3>1. GithubForm(i, o)
            BY <2>1 DEF Form
        <3>2. GithubForm(a, o)
            BY <1>1, <3>1 DEF GithubForm, Named
        <3> QED BY <1>2, <2>1, <3>2 DEF Form
    <2>2. CASE s = "gitlab"
        <3>1. GitlabForm(c, i, o)
            BY <2>2 DEF Form
        <3>2. GitlabForm(c, a, o)
            BY <1>1, <3>1 DEF GitlabForm, Named
        <3> QED BY <1>2, <2>2, <3>2 DEF Form
    <2>3. CASE s = "bitbucket"
        BY <1>1, <1>2, <2>3 DEF Form, BitbucketForm, Named
    <2> QED BY <1>6, <2>1, <2>2, <2>3
<1>7. CASE s \in {"s3", "azure", "owncloud"}
    <2>1. CASE s = "s3"
        BY <1>1, <1>2, <2>1 DEF Form, S3Form, Named
    <2>2. CASE s = "azure"
        BY <1>1, <1>2, <2>2 DEF Form, AzureForm
    <2>3. CASE s = "owncloud"
        <3>1. OwncloudForm(i, o)
            BY <2>3 DEF Form
        <3>2. OwncloudForm(a, o)
            BY <1>1, <3>1 DEF OwncloudForm, IsAccount, Named
        <3> QED BY <1>2, <2>3, <3>2 DEF Form
    <2> QED BY <1>7, <2>1, <2>2, <2>3
<1> QED BY <1>3, <1>4, <1>5, <1>6, <1>7 DEF AllImps

(* An id with a key in it names what the thing was when the addon was set up. *)
LEMMA KeptForm ==
    ASSUME imp \in AllImps, NEW d, Tree(d), NEW c, Tree(c), LeftOf(d, c),
           NEW i, Stable(i), NEW o \in c, Form(imp, c, i, o)
    PROVE  MadeOf(imp, d, i)
<1>1. PICK u \in d : SameThing(o, u)
    BY DEF LeftOf
<1>2. /\ u.oid = o.oid /\ u.kind = o.kind /\ u.key = o.key /\ u.alias = o.alias
      /\ u.path = <<>> <=> o.path = <<>>
      /\ FileOrFolder(u) = FileOrFolder(o) /\ LinkType(u) = LinkType(o)
    BY <1>1, LeftRoot DEF SameThing, Tree, FileOrFolder, LinkType
<1>3. imp \in KeyedImps
    BY DEF Stable
<1>4. i.of = u.oid /\ (i.root => i.type \in {"folder", "collection"})
    BY <1>2 DEF Form
<1>5. \A a \in c : \E v \in d : SameThing(a, v) /\ (IsIn(o, a) => IsIn(u, v)) /\ (IsPrefix(a.path, o.path) => IsPrefix(v.path, u.path))
    <2> TAKE a \in c
    <2>1. PICK v \in d : SameThing(a, v)
        BY DEF LeftOf
    <2>2. IsIn(o, a) <=> IsIn(u, v)
        BY <1>1, <2>1, LeftPair
    <2>3. IsPrefix(a.path, o.path) <=> IsPrefix(v.path, u.path)
        BY <1>1, <2>1, LeftPair
    <2> QED BY <2>1, <2>2, <2>3
<1>6. Form(imp, d, i, u)
    <2>1. CASE imp = "box"
        BY <1>2, <1>4, <2>1 DEF Form, BoxForm, IsAccount, Named
    <2>2. CASE imp = "dropbox"
        <3>1. ~DropboxPathForm(i, o)
            <4> SUFFICES ASSUME DropboxPathForm(i, o) PROVE FALSE
                OBVIOUS
            <4>1. o.path # <<>> /\ i.id = <<"/">> \o Join(o.path, "/")
                BY DEF DropboxPathForm, Named
            <4>2. Len(i.id) = 1 + Len(Join(o.path, "/")) /\ Len(Join(o.path, "/")) > 0 /\ Join(o.path, "/") \in Seq(Tokens)
                <5>1. o \in Things
                    BY DEF Tree
                <5> QED BY <4>1, <5>1, SlashPath
            <4> DEFINE l == Len(Join(o.path, "/"))
            <4>3. l \in Nat /\ l > 0 /\ Len(i.id) = 1 + l
                BY <4>2
            <4> HIDE DEF l
            <4>4. Len(i.id) > 1
                BY <4>3
            <4> QED BY <2>2, <4>4 DEF Stable
        <3>2. DropboxKeyForm(i, o)
            BY <2>2, <3>1 DEF Form
        <3>3. DropboxKeyForm(i, u)
            BY <1>2, <3>2 DEF DropboxKeyForm, Named
        <3> QED BY <1>4, <2>2, <3>3 DEF Form
    <2>3. CASE imp = "googledrive"
        BY <1>2, <1>4, <2>3 DEF Form, DriveForm, Named
    <2>4. CASE imp = "onedrive"
        BY <1>2, <1>4, <2>4 DEF Form, OneDriveForm
    <2>5. CASE imp = "figshare"
        <3>1. FigshareForm(c, i, o)
            BY <2>5 DEF Form
        <3>2. CASE o.kind \in {"project", "article"} /\ Named(i, <<o.kind, "/", o.key>>, "folder")
            <4>1. FigshareForm(d, i, u)
                BY <1>2, <3>2 DEF FigshareForm
            <4> QED BY <1>4, <2>5, <4>1 DEF Form
        <3>3. CASE /\ o.kind = "file"
                   /\ \E a \in c : /\ IsIn(o, a)
                                   /\ a.kind = "article"
                                   /\ Named(i, <<"article", "/", a.key, "/", "files", "/", o.key>>, "file")
            <4>1. PICK a \in c : /\ IsIn(o, a)
                                 /\ a.kind = "article"
                                 /\ Named(i, <<"article", "/", a.key, "/", "files", "/", o.key>>, "file")
                BY <3>3
            <4>2. PICK v \in d : SameThing(a, v) /\ IsIn(u, v)
                BY <1>5, <4>1
            <4>3. v.kind = "article" /\ v.key = a.key
                BY <4>1, <4>2 DEF SameThing
            <4>4. FigshareForm(d, i, u)
                BY <1>2, <3>3, <4>1, <4>2, <4>3 DEF FigshareForm
            <4> QED BY <1>4, <2>5, <4>4 DEF Form
        <3> QED BY <3>1, <3>2, <3>3 DEF FigshareForm
    <2>6. CASE imp = "dataverse"
        BY <1>2, <1>4, <2>6 DEF Form, DataverseForm, IsAccount, Named
    <2>7. CASE imp = "link"
        BY <1>2, <1>4, <2>7 DEF Form, LinkForm, IsAccount, Named
    <2>8. CASE imp = "zotero"
        <3>1. ZoteroForm(c, i, o)
            BY <2>8 DEF Form
        <3>2. CASE o.kind = "library" /\ Named(i, <<"collection", ":", o.key, ":", "ROOT">>, "collection")
            <4>1. ZoteroForm(d, i, u)
                BY <1>2, <3>2 DEF ZoteroForm
            <4> QED BY <1>4, <2>8, <4>1 DEF Form
        <3>3. CASE /\ o.kind \in {"collection", "document"}
                   /\ \E l \in c : /\ l.kind = "library"
                                   /\ IsPrefix(l.path, o.path)
                                   /\ Named(i, <<o.kind, ":", l.key, ":", o.key>>, o.kind)
            <4>1. PICK l \in c : /\ l.kind = "library"
                                 /\ IsPrefix(l.path, o.path)
                                 /\ Named(i, <<o.kind, ":", l.key, ":", o.key>>, o.kind)
                BY <3>3
            <4>2. PICK v \in d : SameThing(l, v) /\ IsPrefix(v.path, u.path)
                BY <1>5, <4>1
            <4>3. v.kind = "library" /\ v.key = l.key
                BY <4>1, <4>2 DEF SameThing
            <4>4. ZoteroForm(d, i, u)
                BY <1>2, <3>3, <4>1, <4>2, <4>3 DEF ZoteroForm
            <4> QED BY <1>4, <2>8, <4>4 DEF Form
        <3> QED BY <3>1, <3>2, <3>3 DEF ZoteroForm
    <2>9. CASE imp = "mendeley"
        BY <1>2, <1>4, <2>9 DEF Form, MendeleyForm, Named
    <2> QED BY <1>3, <2>1, <2>2, <2>3, <2>4, <2>5, <2>6, <2>7, <2>8, <2>9 DEF KeyedImps
<1> QED BY <1>6 DEF MadeOf

(***************************************************************************)
(* What the picker is given and what the owner does keep the invariant.    *)
(***************************************************************************)
ItemTypeNames == {"file", "folder", "document", "collection", "resource"}

LEMMA ImpIs ==
    ASSUME IInv
    PROVE  /\ imp \in Imps /\ imp \in AllImps
           /\ WellFormed(imp, Content[imp]) /\ Tree(Content[imp])
           /\ WellFormed(imp, content) /\ Tree(content) /\ content \subseteq Things /\ IsFiniteSet(content)
           /\ LeftOf(Content[imp], content)
<1>1. imp \in Imps /\ WellFormed(imp, content) /\ LeftOf(Content[imp], content)
    BY DEF IInv, TypeOK
<1>2. imp \in AllImps /\ WellFormed(imp, Content[imp])
    BY <1>1, BrowseAssumption
<1> QED BY <1>1, <1>2 DEF WellFormed, Tree

LEMMA GivenKeeps ==
    ASSUME IInv, NEW items, Given(items),
           \A a \in items : MadeOf(imp, content, a) /\ a.type \in ItemTypeNames
    PROVE  IInv'
<1>1. /\ imp \in Imps /\ imp \in AllImps
      /\ WellFormed(imp, Content[imp]) /\ Tree(Content[imp])
      /\ WellFormed(imp, content) /\ Tree(content)
      /\ LeftOf(Content[imp], content)
    BY ImpIs
<1>2. /\ held' = held \cup items /\ fresh' = fresh \cup items
      /\ imp' = imp /\ content' = content /\ changes' = changes
    BY DEF Given
<1>3. ASSUME NEW a \in items
      PROVE  /\ a.of \in {o.oid : o \in Content[imp]}
             /\ GoodId(imp, a.id)
             /\ Stable(a) => MadeOf(imp, Content[imp], a)
    <2>1. PICK o \in content : Form(imp, content, a, o)
        BY DEF MadeOf
    <2>2. PICK u \in Content[imp] : SameThing(o, u)
        BY <1>1 DEF LeftOf
    <2>3. a.of = u.oid
        BY <2>1, <2>2 DEF Form, SameThing
    <2>4. GoodId(imp, a.id)
        BY <1>1, <2>1, GoodIds
    <2>5. Stable(a) => MadeOf(imp, Content[imp], a)
        BY <1>1, <2>1, KeptForm
    <2> QED BY <2>3, <2>4, <2>5
<1>4. TypeOK'
    <2>1. \A i \in held : i.type \in ItemTypeNames /\ i.of \in {o.oid : o \in Content[imp]}
        BY DEF IInv, TypeOK, ItemTypeNames
    <2>2. \A i \in held' : i.type \in ItemTypeNames /\ i.of \in {o.oid : o \in Content[imp]}
        BY <1>2, <1>3, <2>1
    <2>3. /\ imp \in Imps /\ Cardinality(content) <= Cardinality(Content[imp])
          /\ fresh \subseteq held /\ changes \in 0..MaxChanges
        BY DEF IInv, TypeOK
    <2>4. fresh' \subseteq held'
        BY <1>2, <2>3
    <2> QED BY <1>2, <2>2, <2>3, <2>4 DEF TypeOK, ItemTypeNames
<1>5. \A i \in fresh' : MadeOf(imp, content, i)
    BY <1>2 DEF IInv
<1>6. \A i \in held' : GoodId(imp, i.id) /\ (Stable(i) => MadeOf(imp, Content[imp], i))
    <2>1. \A i \in held : GoodId(imp, i.id) /\ (Stable(i) => MadeOf(imp, Content[imp], i))
        BY DEF IInv
    <2> QED BY <1>2, <1>3, <2>1
<1>7. \A i : Stable(i)' <=> Stable(i)
    BY <1>2 DEF Stable
<1> QED BY <1>1, <1>2, <1>4, <1>5, <1>6, <1>7 DEF IInv

LEMMA ChangeKeeps ==
    ASSUME IInv, NEW c, Change(c), LeftOf(Content[imp], c), c \subseteq Things, IsFiniteSet(c),
           Cardinality(c) <= Cardinality(Content[imp])
    PROVE  IInv'
<1>1. imp \in Imps /\ imp \in AllImps /\ WellFormed(imp, Content[imp])
    BY ImpIs
<1>2. /\ held' = held /\ fresh' = {}
      /\ imp' = imp /\ content' = c /\ changes' = changes + 1 /\ changes < MaxChanges
    BY DEF Change
<1>3. WellFormed(imp, c)
    BY <1>1, WellFormedLeft
<1>4. TypeOK'
    <2>1. changes' \in 0..MaxChanges
        BY <1>2, BrowseAssumption DEF IInv, TypeOK
    <2> QED BY <1>1, <1>2, <2>1 DEF IInv, TypeOK
<1>5. \A i \in held : GoodId(imp, i.id) /\ (Stable(i) => MadeOf(imp, Content[imp], i))
    BY DEF IInv
<1>6. \A i : Stable(i)' <=> Stable(i)
    BY <1>2 DEF Stable
<1> QED BY <1>2, <1>3, <1>4, <1>5, <1>6 DEF IInv

LEMMA EachMakes ==
    ASSUME NEW s \in AllImps, NEW c, WellFormed(s, c)
    PROVE  Makes(s, c)
<1>1. s \in {"box", "dropbox", "googledrive", "onedrive", "figshare", "dataverse", "link"} => Makes(s, c)
    BY BoxMakes, DropboxMakes, DriveMakes, FigshareMakes, DataverseMakes, LinkMakes
<1>2. s \in {"zotero", "mendeley", "github", "gitlab"} => Makes(s, c)
    BY ZoteroMakes, MendeleyMakes, GithubMakes, GitlabMakes
<1>3. s \in {"bitbucket", "s3", "azure", "owncloud"} => Makes(s, c)
    BY BitbucketMakes, S3Makes, AzureMakes, OwncloudMakes
<1> QED BY <1>1, <1>2, <1>3 DEF AllImps

LEMMA InitKeeps ==
    ASSUME Init
    PROVE  IInv
<1>1. imp \in Imps /\ content = Content[imp] /\ fresh = held /\ changes = 0
    BY DEF Init
<1>2. imp \in AllImps /\ WellFormed(imp, content)
    BY <1>1, BrowseAssumption
<1>3. Tree(content) /\ IsFiniteSet(content)
    BY <1>2 DEF WellFormed, Tree
<1>4. LeftOf(Content[imp], content)
    BY <1>1, <1>3, AllIsLeft
<1>5. ASSUME NEW i \in held
      PROVE  i \in StartingPoints(imp, content)
    BY DEF Init
<1>6. ASSUME NEW i \in held
      PROVE  MadeOf(imp, content, i) /\ i.type \in ItemTypeNames
    <2>1. MadeOf(imp, content, i)
        BY <1>2, <1>5, EachMakes DEF Makes, MakesStarts
    <2>2. i.type \in {FolderType(imp), "folder"}
        BY <1>5, ItemIs DEF StartingPoints
    <2> QED BY <2>1, <2>2 DEF FolderType, ItemTypeNames
<1>7. ASSUME NEW i \in held
      PROVE  i.of \in {o.oid : o \in Content[imp]} /\ GoodId(imp, i.id)
    <2>1. PICK o \in content : Form(imp, content, i, o)
        BY <1>6 DEF MadeOf
    <2>2. GoodId(imp, i.id)
        BY <1>2, <2>1, GoodIds
    <2>3. i.of = o.oid
        BY <2>1 DEF Form
    <2> QED BY <1>1, <2>2, <2>3
<1>8. TypeOK
    <2>1. Cardinality(content) <= Cardinality(Content[imp])
        <3>1. Cardinality(content) \in Nat
            BY <1>3, FS_CardinalityType
        <3> QED BY <1>1, <3>1
    <2>2. changes \in 0..MaxChanges
        BY <1>1, BrowseAssumption
    <2> QED BY <1>1, <1>6, <1>7, <2>1, <2>2 DEF TypeOK, ItemTypeNames
<1> QED BY <1>1, <1>2, <1>4, <1>6, <1>7, <1>8 DEF IInv

(* An answer was made of the content if the items of the operation's result were. *)
LEMMA AnswerMade ==
    ASSUME imp \in AllImps, NEW items, \A x \in items : MadeOf(imp, content, x), NEW answer \in Answer(imp, items)
    PROVE  \A a \in answer : MadeOf(imp, content, a) /\ a.type \in ItemTypeNames
<1> TAKE a \in answer
<1>1. PICK i \in items : AnswerOf(a, i) /\ a.type \in DOMAIN ItemTypes(imp)
    BY AnswerItems
<1>2. PICK o \in content : Form(imp, content, i, o)
    BY DEF MadeOf
<1>3. Form(imp, content, a, o)
    BY <1>1, <1>2, AnswerForm
<1>4. DOMAIN ItemTypes(imp) \subseteq ItemTypeNames
    BY DEF ItemTypes, ItemTypeNames
<1> QED BY <1>1, <1>3, <1>4 DEF MadeOf

LEMMA StepKeeps ==
    ASSUME IInv, [Next]_vars
    PROVE  IInv'
<1>1. /\ imp \in AllImps /\ WellFormed(imp, content)
      /\ Tree(content) /\ content \subseteq Things /\ IsFiniteSet(content)
      /\ LeftOf(Content[imp], content) /\ IsFiniteSet(Content[imp])
    BY ImpIs DEF Tree
<1>2. Makes(imp, content)
    BY <1>1, EachMakes
<1>3. CASE OpenRoot
    <2>1. PICK items \in ListRootItems(imp, content) : \E answer \in Answer(imp, items) : Given(answer)
        BY <1>3 DEF OpenRoot
    <2>4. PICK answer \in Answer(imp, items) : Given(answer)
        BY <2>1
    <2>2. \A x \in items : MadeOf(imp, content, x)
        BY <1>2, <2>1 DEF Makes, MakesRoots
    <2>3. \A a \in answer : MadeOf(imp, content, a) /\ a.type \in ItemTypeNames
        BY <1>1, <2>2, AnswerMade
    <2> QED BY <2>3, <2>4, GivenKeeps
<1>4. ASSUME NEW i \in held, OpenItem(i)
      PROVE  IInv'
    <2>1. PICK item \in GetItemInfo(imp, content, i.id) : \E answer \in Answer(imp, {item}) : Given(answer)
        <3>1. Arguments(GetItemInfoKwargs, OpenRequest(i)) = {OpenRequest(i)}
            BY OpenIsUnderstood
        <3>2. OpenRequest(i).item_id[2] = i.id
            BY DEF OpenRequest, Str
        <3> QED BY <1>4, <3>1, <3>2 DEF OpenItem
    <2>5. PICK answer \in Answer(imp, {item}) : Given(answer)
        BY <2>1
    <2>2. GoodId(imp, i.id)
        BY <1>4 DEF IInv
    <2>3. \A x \in {item} : MadeOf(imp, content, x)
        BY <1>2, <2>1, <2>2 DEF Makes, MakesInfo
    <2>4. \A a \in answer : MadeOf(imp, content, a) /\ a.type \in ItemTypeNames
        BY <1>1, <2>3, AnswerMade
    <2> QED BY <2>4, <2>5, GivenKeeps
<1>5. ASSUME NEW i \in held, NEW type \in Types(imp), OpenFolder(i, type)
      PROVE  IInv'
    <2>1. PICK kwargs : /\ Arguments(ListChildItemsKwargs(imp), ListRequest(imp, i, type)) = {kwargs}
                        /\ \A c : PerformList(imp, c, kwargs) = ListChildItems(imp, c, i.id, type)
        BY ListIsUnderstood
    <2>2. PICK items \in ListChildItems(imp, content, i.id, type) : \E answer \in Answer(imp, items) : Given(answer)
        BY <1>5, <2>1 DEF OpenFolder
    <2>6. PICK answer \in Answer(imp, items) : Given(answer)
        BY <2>2
    <2>3. GoodId(imp, i.id)
        BY <1>5 DEF IInv
    <2>4. \A x \in items : MadeOf(imp, content, x)
        BY <1>2, <2>2, <2>3 DEF Makes, MakesChildren
    <2>5. \A a \in answer : MadeOf(imp, content, a) /\ a.type \in ItemTypeNames
        BY <1>1, <2>4, AnswerMade
    <2> QED BY <2>5, <2>6, GivenKeeps
<1>6. ASSUME NEW c, Change(c), LeftOf(Content[imp], c), c \subseteq Things,
             IsFiniteSet(c) /\ Cardinality(c) <= Cardinality(content)
      PROVE  IInv'
    <2>1. Cardinality(c) \in Nat /\ Cardinality(content) \in Nat /\ Cardinality(Content[imp]) \in Nat
        BY <1>1, <1>6, FS_CardinalityType
    <2>2. Cardinality(content) <= Cardinality(Content[imp])
        BY DEF IInv, TypeOK
    <2>3. Cardinality(c) <= Cardinality(Content[imp])
        BY <1>6, <2>1, <2>2
    <2> QED BY <1>6, <2>3, ChangeKeeps
<1>7. ASSUME NEW o \in content \ Account(content), Delete(o)
      PROVE  IInv'
    <2> DEFINE c == {x \in content : ~IsPrefix(o.path, x.path)}
    <2>1. LeftOf(Content[imp], c)
        BY <1>1, DeletedLeft
    <2>2. c \in SUBSET content
        OBVIOUS
    <2>3. Change(c)
        BY <1>7 DEF Delete
    <2> HIDE DEF c
    <2>4. IsFiniteSet(c) /\ Cardinality(c) <= Cardinality(content)
        BY <1>1, <2>2, FS_Subset
    <2> QED BY <1>1, <1>6, <2>1, <2>2, <2>3, <2>4
<1>8. ASSUME NEW o \in content \ Account(content), NEW name \in NewNames, Rename(o, name)
      PROVE  IInv'
    <2> DEFINE c == {Renamed(o, name, x) : x \in content}
               f == [x \in content |-> Renamed(o, name, x)]
    <2>1. o \in Things /\ o.path # <<>> /\ name \in Names
        BY <1>1, BrowseAssumption DEF Account, At
    <2>2. \A x \in content : ~IsPrefix(NewPath(o, name), x.path)
        BY <1>8 DEF Rename, NewPath
    <2>3. LeftOf(Content[imp], c)
        BY <1>1, <2>1, <2>2, RenamedLeft
    <2>4. c \subseteq Things
        BY <1>1, <2>1, RenamedIs
    <2>5. Change(c)
        BY <1>8 DEF Rename, Renamed
    <2>6. IsFiniteSet(c) /\ Cardinality(c) <= Cardinality(content)
        <3>1. f \in Surjection(content, c)
            BY DEF Surjection
        <3> HIDE DEF c, f
        <3> QED BY <1>1, <3>1, FS_Surjection
    <2> HIDE DEF c
    <2> QED BY <1>6, <2>3, <2>4, <2>5, <2>6
<1>9. CASE UNCHANGED vars
    <2>1. imp' = imp /\ content' = content /\ held' = held /\ fresh' = fresh /\ changes' = changes
        BY <1>9 DEF vars
    <2>2. TypeOK'
        BY <2>1 DEF IInv, TypeOK
    <2>3. \A i : Stable(i)' <=> Stable(i)
        BY <2>1 DEF Stable
    <2> QED BY <2>1, <2>2, <2>3 DEF IInv
<1> QED BY <1>3, <1>4, <1>5, <1>7, <1>8, <1>9 DEF Next

LEMMA Invariance == Spec => []IInv
<1>1. Init => IInv
    BY InitKeeps
<1>2. IInv /\ [Next]_vars => IInv'
    BY StepKeeps
<1> QED BY <1>1, <1>2, PTL DEF Spec

(***************************************************************************)
(* The invariant says of every trusted item what it was made of.           *)
(***************************************************************************)
LEMMA TrustedOrigin ==
    ASSUME IInv, NEW i \in Trusted
    PROVE  \E d, o : Origin(d, o, i) /\ LeftOf(Content[imp], d) /\ LeftOf(Content[imp], content)
<1>1. /\ imp \in AllImps /\ WellFormed(imp, Content[imp]) /\ WellFormed(imp, content)
      /\ LeftOf(Content[imp], content) /\ Tree(content)
    BY ImpIs
<1>2. CASE i \in held /\ Stable(i)
    <2>1. PICK o \in Content[imp] : Form(imp, Content[imp], i, o)
        BY <1>2 DEF IInv, MadeOf
    <2>2. Origin(Content[imp], o, i)
        BY <1>1, <1>2, <2>1 DEF Origin
    <2>3. LeftOf(Content[imp], Content[imp])
        BY <1>1, AllIsLeft DEF WellFormed
    <2> QED BY <1>1, <2>2, <2>3
<1>3. CASE i \in fresh
    <2>1. PICK o \in content : Form(imp, content, i, o)
        BY <1>3 DEF IInv, MadeOf
    <2>2. LeftOf(content, content)
        BY <1>1, AllIsLeft
    <2>3. Origin(content, o, i)
        BY <1>1, <2>1, <2>2 DEF Origin
    <2> QED BY <1>1, <2>3
<1> QED BY <1>2, <1>3 DEF Trusted

LEMMA KindIs ==
    ASSUME IInv, imp \notin KeyedImps, NEW d, NEW o, NEW i, Origin(d, o, i)
    PROVE  Kind(i.of) = o.kind
<1>1. Tree(Content[imp]) /\ LeftOf(Content[imp], content) /\ WellFormed(imp, Content[imp])
    BY ImpIs
<1>2. i.of = o.oid /\ o \in content
    BY PathOrigin
<1>3. PICK u \in Content[imp] : u.oid = o.oid /\ u.kind = o.kind
    BY <1>1, <1>2 DEF LeftOf, SameThing
<1> QED BY <1>1, <1>2, <1>3 DEF Kind, Tree

LEMMA TrustedLeads ==
    ASSUME IInv, NEW i \in Trusted
    PROVE  (OpensExactly(i) => Opens(i)) /\ Lists(i) /\ Answers(i) /\ Describes(i)
<1>1. imp \in AllImps
    BY ImpIs
<1>2. PICK d, o : Origin(d, o, i) /\ LeftOf(Content[imp], d) /\ LeftOf(Content[imp], content)
    BY TrustedOrigin
<1>3. CASE imp \in {"box", "dropbox", "googledrive", "onedrive", "figshare"}
    BY <1>2, <1>3, BoxLeads, DropboxLeads, DriveLeads, FigshareLeads
<1>4. CASE imp \in {"dataverse", "link", "mendeley"}
    BY <1>2, <1>4, DataverseLeads, LinkLeads, MendeleyLeads
<1>7. CASE imp = "zotero"
    BY <1>2, <1>7, ZoteroLeads DEF OpensExactly
<1>5. CASE imp \in {"gitlab", "bitbucket", "owncloud"}
    BY <1>2, <1>5, GitlabLeads, BitbucketLeads, OwncloudLeads
<1>6. CASE imp \in {"github", "s3", "azure"}
    <2>1. /\ o.kind \in {"account", "repository", "bucket"} => Opens(i)
          /\ Lists(i) /\ Answers(i) /\ Describes(i)
        BY <1>2, <1>6, GithubLeads, S3Leads, AzureLeads
    <2>2. OpensExactly(i) => o.kind \in {"account", "repository", "bucket"}
        <3>1. OpensExactly(i) => Kind(i.of) \in {"account", "repository", "bucket"}
            BY <1>6 DEF OpensExactly
        <3>2. CASE imp \notin KeyedImps
            BY <1>2, <3>1, <3>2, KindIs
        <3> QED BY <1>6, <3>2 DEF KeyedImps
    <2> QED BY <2>1, <2>2
<1> QED BY <1>1, <1>3, <1>4, <1>5, <1>6, <1>7 DEF AllImps

(***************************************************************************)
(* The picker holds items that the service had, and the content does not   *)
(* grow.                                                                   *)
(***************************************************************************)
THEOREM PickerHoldsItemsOfTheService == Spec => []TypeOK
<1>1. IInv => TypeOK
    BY DEF IInv
<1> QED BY <1>1, Invariance, PTL

(* get_item_info leads back: whatever id of a result, or of a root that the migration  *)
(* wrote, is asked for, what it answers is the item that the id was given for, with the *)
(* same type, as long as the service has the item; after any renames and deletions for  *)
(* ids that are keys, and since the last of them for ids that are paths.  Not so for    *)
(* what OpensExactly leaves out: a Zotero group whose number is part of that of another *)
(* group, and the files and folders of GitHub, S3 and Azure.                            *)
THEOREM ListedItemsStayOpen == Spec => []ListedItemsOpen
<1>1. IInv => ListedItemsOpen
    <2> SUFFICES ASSUME IInv, NEW i \in Trusted, OpensExactly(i)
                 PROVE  Opens(i)
        BY DEF ListedItemsOpen, Opens
    <2> QED BY TrustedLeads
<1> QED BY <1>1, Invariance, PTL

(* list_child_items of a folder's id does answer, and with what the folder holds now,  *)
(* all of it and nothing else, of the type that was asked for.  Not so for a directory *)
(* of GitHub in another directory, nor for a folder that the OSF wrote for ownCloud.   *)
THEOREM ListingsStayComplete == Spec => []ListingsAreComplete
<1>1. IInv => ListingsAreComplete
    <2> SUFFICES ASSUME IInv, NEW i \in Trusted
                 PROVE  Lists(i) /\ Answers(i)
        BY DEF ListingsAreComplete, Lists, Answers, IsListed
    <2> QED BY TrustedLeads
<1> QED BY <1>1, Invariance, PTL

(* build_wb_config of the id of an item that may be the root describes this item to *)
(* WaterButler, and the url of a link target shows the target.                      *)
THEOREM RootsReachWaterButler == Spec => []RootReachesWaterButler
<1>1. IInv => RootReachesWaterButler
    <2> SUFFICES ASSUME IInv, NEW i \in Trusted
                 PROVE  Describes(i)
        BY DEF RootReachesWaterButler, Describes
    <2> QED BY TrustedLeads
<1> QED BY <1>1, Invariance, PTL

(* The arguments that the picker makes of an item it was given meet the schema of each *)
(* operation, and are parsed to the id and the type that it means.                     *)
THEOREM RequestsStayUnderstood == Spec => []RequestsAreUnderstood
<1>1. RequestsAreUnderstood
    <2>1. ASSUME NEW i \in fresh
          PROVE  Arguments(GetItemInfoKwargs, OpenRequest(i)) = {OpenRequest(i)}
        BY OpenIsUnderstood
    <2>2. ASSUME NEW i \in fresh, NEW type \in Types(imp)
          PROVE  LET kwargs == Arguments(ListChildItemsKwargs(imp), ListRequest(imp, i, type))
                 IN  /\ kwargs # {}
                     /\ \A k \in kwargs : PerformList(imp, content, k) = ListChildItems(imp, content, i.id, type)
        <3>1. PICK kwargs : /\ Arguments(ListChildItemsKwargs(imp), ListRequest(imp, i, type)) = {kwargs}
                            /\ \A c : PerformList(imp, c, kwargs) = ListChildItems(imp, c, i.id, type)
            BY ListIsUnderstood
        <3> QED BY <3>1
    <2> QED BY <2>1, <2>2 DEF RequestsAreUnderstood
<1> QED BY <1>1, PTL DEF Spec

-----------------------------------------------------------------------------
(***************************************************************************)
(* The items listed: ids made of keys lead back to their items, whatever   *)
(* the account holds by then.  "c" and "d" are contents of the account at  *)
(* different times, "o" an item that was listed.                           *)
(***************************************************************************)
\* What a service has under a key, of some kinds.
Has(c, kinds, key) == {p \in c : p.kind \in kinds /\ key \in {p.key, p.alias}}

LEMMA KeyedHas ==
    ASSUME NEW c, NEW kinds, NEW key
    PROVE  Keyed(c, kinds, <<key>>) = Has(c, kinds, key)
BY DEF Keyed, Has

\* Box (get_item_info, build_wb_config): an id leads back to what the service has
\* under its key and kind; a file is not taken for the folder of the same key.
THEOREM BoxIdsLeadBack ==
    ASSUME NEW c, NEW o, o.kind \in {"file", "folder"}
    PROVE  /\ BoxInfo(c, BoxItem(o).id) = {BoxItem(p) : p \in Has(c, {o.kind}, o.key)}
           /\ BoxWb(c, BoxItem(o).id) = Has(c, {"folder"}, o.key)
<1> DEFINE q == << <<o.kind>>, <<o.key>> >>
<1>1. BoxItem(o).id = <<o.kind, ":", o.key>>
    BY DEF BoxItem, Item
<1>2. SplitOnce(<<o.kind, ":", o.key>>, ":") = {q}
    BY SplitOfId
<1>3. BoxParse(<<o.kind, ":", o.key>>) = {q}
    BY <1>2 DEF BoxParse
<1>4. q[1][1] = o.kind /\ q[2] = <<o.key>>
    OBVIOUS
<1> HIDE DEF q
<1>5. BoxAt(c, <<o.kind, ":", o.key>>) = UNION {Keyed(c, {p[1][1]}, p[2]) : p \in {q}}
    BY <1>3, Zenon DEF BoxAt
<1>6. BoxAt(c, <<o.kind, ":", o.key>>) = Has(c, {o.kind}, o.key)
    BY <1>4, <1>5, KeyedHas
<1>7. BoxWb(c, <<o.kind, ":", o.key>>) = UNION {Keyed(c, {"folder"}, p[2]) : p \in {q}}
    BY <1>2, Zenon DEF BoxWb
<1>8. BoxWb(c, <<o.kind, ":", o.key>>) = Has(c, {"folder"}, o.key)
    BY <1>4, <1>7, KeyedHas
<1> HIDE DEF BoxItem
<1> QED
    BY <1>1, <1>6, <1>8, Zenon DEF BoxInfo

\* Google Drive and OneDrive (get_item_info, build_wb_config): the key of an item
\* leads back to it; WaterButler only gets folders.
THEOREM DriveIdsLeadBack ==
    ASSUME NEW c, NEW o
    PROVE  /\ DriveInfo(c, DriveItem(o).id)
                = {DriveItem(p) : p \in Has(c, {"file", "folder"}, o.key)}
           /\ OneDriveInfo(c, DriveItem(o).id)
                = {DriveItem(p) : p \in Has(c, {"file", "folder"}, o.key)}
           /\ DriveWb(c, DriveItem(o).id) = Has(c, {"folder"}, o.key)
           /\ OneDriveWb(c, DriveItem(o).id) = Has(c, {"folder"}, o.key)
<1>1. DriveItem(o).id = <<o.key>> /\ <<o.key>> # <<>>
    BY DEF DriveItem, Item
<1> HIDE DEF DriveItem
<1> QED
    BY <1>1, KeyedHas, Zenon DEF DriveInfo, OneDriveInfo, DriveWb, OneDriveWb

\* figshare's projects and articles (get_item_info, build_wb_config): their ids
\* lead back, and WaterButler gets the one that was described.
THEOREM FigshareIdsLeadBack ==
    ASSUME NEW c, NEW d, NEW o, o.kind \in {"project", "article"}
    PROVE  /\ FigshareInfo(c, FigshareItem(d, o).id)
                = {FigshareItem(c, p) : p \in Has(c, {o.kind}, o.key)}
           /\ FigshareWb(c, FigshareItem(d, o).id) = Has(c, {o.kind}, o.key)
<1> DEFINE id == <<o.kind, "/", o.key>>
<1>1. FigshareItem(d, o).id = id
    BY DEF FigshareItem, Item
<1>2. id # <<>> /\ Len(id) = 3 /\ id[1] = o.kind /\ id[2] = "/" /\ id[3] = o.key
    OBVIOUS
<1> HIDE DEF id
<1>3. FigshareAt(c, id) = Has(c, {o.kind}, o.key)
    <2>1. FigshareAt(c, id) = Keyed(c, {id[1]}, <<id[3]>>)
        <3>1. /\ Len(id) = 3 /\ id[1] \in {"article", "project"} /\ id[2] = "/"
              /\ ~(Len(id) = 7 /\ id[1] = "article" /\ id[5] = "files")
            BY <1>2
        <3> QED BY <3>1, Zenon DEF FigshareAt
    <2> QED BY <1>2, <2>1, KeyedHas
<1>4. FigshareWb(c, id) = Has(c, {o.kind}, o.key)
    <2>1. {"project", "article"} \cap {id[1]} = {o.kind}
        BY <1>2, Zenon
    <2>2. ~(Len(id) < 3)
        BY <1>2
    <2> QED BY <1>2, <2>1, <2>2, KeyedHas, Zenon DEF FigshareWb
<1> QED
    BY <1>1, <1>2, <1>3, <1>4, Zenon DEF FigshareInfo

\* Dataverse (get_item_info, build_wb_config): ids of dataverses, datasets and
\* files lead back; a dataset is the root that WaterButler gets.
THEOREM DataverseIdsLeadBack ==
    ASSUME NEW c, NEW o, o.kind \in {"dataverse", "dataset", "file"}
    PROVE  /\ DataverseInfo(c, DataverseItem(o).id)
                = {DataverseItem(p) : p \in {p \in c : p.kind = o.kind /\ p.key = o.key}}
           /\ o.kind = "dataset" => DataverseWb(c, DataverseItem(o).id)
                                       = {p \in c : p.kind = o.kind /\ p.key = o.key}
<1> DEFINE id == <<o.kind, "/", o.key>>
<1>1. DataverseItem(o).id = id
    BY DEF DataverseItem, Item, NotRoot
<1>2. id # <<>> /\ Len(id) = 3 /\ id[1] = o.kind /\ id[2] = "/" /\ id[3] = o.key
    OBVIOUS
<1> HIDE DEF id
<1>3. DataverseAt(c, id) = {p \in c : p.kind = o.kind /\ p.key = o.key}
    BY <1>2 DEF DataverseAt, DataverseKinds
<1>4. ASSUME o.kind = "dataset"
      PROVE  DataverseWb(c, id) = {p \in c : p.kind = o.kind /\ p.key = o.key}
    BY <1>3, <1>4 DEF DataverseWb
<1>5. DataverseInfo(c, id)
        = {DataverseItem(p) : p \in {p \in c : p.kind = o.kind /\ p.key = o.key}}
    BY <1>2, <1>3, Zenon DEF DataverseInfo
<1> QED
    BY <1>1, <1>4, <1>5

\* Zotero (get_item_info): the id of a document or collection leads back to what
\* its library has under its key, not to that of another library; no collection
\* has one of the keys that stand for a library.
THEOREM ZoteroIdsLeadBack ==
    ASSUME NEW c, NEW d, NEW o,
           o.kind \in {"document", "collection"},
           o.kind = "collection" => o.key \notin {"ROOT", "None"}
    PROVE  ZoteroInfo(c, ZoteroItem(d, o).id)
             = {ZoteroItem(c, p) :
                  p \in {p \in IF o.kind = "document" THEN Has(c, {o.kind}, o.key)
                               ELSE {p \in c \ Account(c) : p.kind = o.kind /\ p.key = o.key} :
                           ZoteroLibrary(c, p).key = ZoteroLibrary(d, o).key}}
<1> DEFINE l == ZoteroLibrary(d, o)
           id == <<o.kind, ":", l.key, ":", o.key>>
<1>1. ZoteroItem(d, o).id = id
    BY DEF ZoteroItem, Item
<1>2. /\ Len(id) = 5 /\ id[1] = o.kind /\ id[2] = ":" /\ id[3] = l.key /\ id[4] = ":"
      /\ id[5] = o.key
    OBVIOUS
<1> HIDE DEF id, l
<1>3. ZoteroParses(id)
    BY <1>2 DEF ZoteroParses
<1>4. CASE o.kind = "document"
    <2>1. ZoteroInfo(c, id)
            = {ZoteroItem(c, p) : p \in {p \in Keyed(c, {"document"}, <<id[5]>>) :
                                               ZoteroLibrary(c, p).key = id[3]}}
        BY <1>2, <1>3, <1>4, Zenon DEF ZoteroInfo
    <2>2. Keyed(c, {"document"}, <<id[5]>>) = Has(c, {o.kind}, o.key)
        BY <1>2, <1>4, KeyedHas
    <2> QED BY <1>1, <1>2, <1>4, <2>1, <2>2, Zenon DEF l
<1>5. CASE o.kind = "collection"
    <2>1. ZoteroInfo(c, id)
            = {ZoteroItem(c, p) : p \in ZoteroResolve(c, l.key, o.key)}
        BY <1>2, <1>3, <1>5, Zenon DEF ZoteroInfo
    <2> DEFINE T == {p \in {p \in c \ Account(c) : p.kind = o.kind /\ p.key = o.key} :
                       ZoteroLibrary(c, p).key = l.key}
    <2>2. ZoteroResolve(c, l.key, o.key) = T
        BY <1>5, Zenon DEF ZoteroResolve
    <2> QED BY <1>1, <1>5, <2>1, <2>2, Zenon DEF l
<1> QED
    BY <1>4, <1>5

\* Mendeley (get_item_info): ids of folders and documents lead back; the two are
\* told apart, and neither is taken for the root.
THEOREM MendeleyIdsLeadBack ==
    ASSUME NEW c, NEW o, o.kind \in {"document", "collection"}, o.path # <<>>
    PROVE  MendeleyInfo(c, MendeleyItem(o).id)
             = {MendeleyItem(p) : p \in Has(c \ Account(c), {o.kind}, o.key)}
<1> DEFINE id == <<o.kind, ":", o.key>>
           q == << <<o.kind>>, <<o.key>> >>
           found(p) == Keyed(c \ Account(c), {"collection", "document"} \cap {p[1][1]}, p[2])
<1>1. MendeleyItem(o).id = id /\ id # <<"ROOT">>
    BY DEF MendeleyItem, Item
<1>2. SplitOnce(id, ":") = {q}
    BY SplitOfId
<1>3. Len(q[1]) = 1 /\ q[1][1] = o.kind /\ q[2] = <<o.key>>
    OBVIOUS
<1>4. found(q) = Has(c \ Account(c), {o.kind}, o.key)
    <2>1. {"collection", "document"} \cap {q[1][1]} = {o.kind}
        BY <1>3
    <2> HIDE DEF q
    <2> QED BY <1>3, <2>1, KeyedHas
<1> HIDE DEF id, q
<1>5. MendeleyInfo(c, id) = UNION {{MendeleyItem(p) : p \in found(r)} :
                                         r \in {r \in SplitOnce(id, ":") : Len(r[1]) = 1}}
    BY <1>1, Zenon DEF MendeleyInfo
<1>6. {r \in SplitOnce(id, ":") : Len(r[1]) = 1} = {q}
    BY <1>2, <1>3
<1> HIDE DEF found
<1>7. MendeleyInfo(c, id) = {MendeleyItem(p) : p \in found(q)}
    BY <1>5, <1>6
<1> QED
    BY <1>1, <1>4, <1>7, Zenon
=================================================================================
