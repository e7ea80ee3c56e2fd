------------------------------ MODULE Listing ------------------------------
(* A client lists the items of one folder of an external service: it calls  *)
(* a listing operation of an addon implementation (addon_imps/) with the    *)
(* cursor it was last given, until it is given none.  The implementation    *)
(* asks the service for a page, keeps the items of the wanted type and      *)
(* makes the next cursor; it pages by offset, by number, with a token the   *)
(* service hands out, or not at all.                                        *)
(*                                                                          *)
(* The folder does not change during the walk.  An entry is its position    *)
(* and what it is at the service; names, ids and urls are left out, and so  *)
(* is the order of the items on a page.                                     *)
EXTENDS OffsetCursor, Sequences, FiniteSets

CONSTANTS Listings,     \* the listing operations considered
          MaxEntries,   \* bound: the length of the longest folder
          PageSize,     \* entries per page: 30 at GitHub, 20 at figshare, ...
          MAX_RESULTS,  \* the most entries that Azure is asked for
          DefaultPage   \* entries a service gives of a list when asked for no number

VARIABLES listing,      \* the operation called
          folder,       \* what the folder holds at the service
          item_type,    \* the type of items the client asks for, or None
          cursor,       \* the cursor of the next call, <<>> in the first
          listed,       \* the items received so far
          repeated,     \* whether some item was received twice
          walk,         \* "more", "done" or "failed"
          sample        \* the last result, or None

listing_vars == <<listing, folder, item_type, cursor, listed, repeated, walk, sample>>

Roots == {"github_repos", "figshare_root", "gitlab_projects", "dataverse_mydata",
          "bitbucket_workspaces"}                         \* take no item type
Untyped == {"bitbucket_repos", "onedrive", "dataverse_link"}    \* ignore it
Typed == {"box", "github", "figshare_articles", "figshare_files", "google_drive",
          "dropbox", "bitbucket", "gitlab", "azure", "s3", "owncloud", "dataverse",
          "dataverse_files", "zotero", "mendeley"}

\* "other" is what a service has besides: a symlink at GitHub, a web link at Box,
\* an article of a type not used at figshare, the object that stands for a folder
\* at S3, a note at Zotero, a folder of another parent at Mendeley, an unpublished
\* dataset.
Kinds == {"file", "folder", "other"}
ItemType == {"FILE", "FOLDER"}

\* What a cursor encodes: nothing, a number or token, or the fields of an OffsetCursor.
Cursors == Seq(Nat)

ASSUME ListingAssumption ==
    /\ Listings \subseteq Roots \cup Untyped \cup Typed
    /\ {MaxEntries, PageSize, MAX_RESULTS, DefaultPage} \subseteq Nat \ {0}
    /\ None \notin ItemType \cup Cursors

Folders == UNION {[1 .. n -> Kinds] : n \in 0 .. MaxEntries}

------------------------------------------------------------------------------
\* What the service returns (external): some entries of a list, in order.
Entries == DOMAIN folder
Size == Cardinality(Entries)

NumberBefore(i, entries) == Cardinality({j \in entries : j < i})

Slice(entries, offset, limit) ==
    {i \in entries : NumberBefore(i, entries) \in offset .. offset + limit - 1}

OfKind(entries, kinds) == {i \in entries : folder[i] \in kinds}

\* Which entries are parsed as files; the others become folders, collections, ...
FileKinds ==
    CASE listing \in {"box", "dropbox", "github", "onedrive", "azure", "s3", "owncloud",
                      "zotero", "mendeley"} -> {"file"}
      [] listing \in {"google_drive", "bitbucket", "gitlab"} -> {"file", "other"}
      [] listing \in {"figshare_files", "dataverse_files"} -> Kinds
      [] OTHER -> {}

ItemOf(i) ==
    [item_id |-> i, item_type |-> IF folder[i] \in FileKinds THEN "FILE" ELSE "FOLDER"]

Items(entries) == {ItemOf(i) : i \in entries}

OfWantedType(items) == {item \in items : item_type \in {None, item.item_type}}

\* An ItemSampleResult: the cursors not given are "" and None.
Sample(items) ==
    [items |-> items, this |-> <<>>, next |-> None, prev |-> None, first |-> <<>>]

SampleThen(items, next) == [Sample(items) EXCEPT !.next = next]

\* The client receives a result and, if it has a next cursor, will go on there.
Receive(result) ==
    /\ walk = "more"
    /\ sample' = result
    /\ listed' = listed \cup result.items
    /\ repeated' = (repeated \/ result.items \cap listed # {})
    /\ cursor' = IF result.next = None THEN <<>> ELSE result.next
    /\ walk' = IF result.next = None THEN "done" ELSE "more"
    /\ UNCHANGED <<listing, folder, item_type>>

\* The operation raises an error.
Fail ==
    /\ walk = "more"
    /\ walk' = "failed"
    /\ sample' = None
    /\ UNCHANGED <<listing, folder, item_type, cursor, listed, repeated>>

------------------------------------------------------------------------------
(* By offset. *)

\* BoxDotComStorageImp.list_child_items: the response repeats the offset and the
\* limit it used and has the total count; an unknown type is a KeyError.
BoxCursor == IF cursor = <<>> THEN DecodeCursor(<<0, PageSize, 0>>) ELSE DecodeCursor(cursor)
BoxPage == Slice(Entries, BoxCursor.offset, BoxCursor.limit)
Box ==
    LET parsed == [BoxCursor EXCEPT !.total_count = Size]
    IN  [items |-> OfWantedType(Items(BoxPage)),
         this  |-> EncodeCursor(parsed),
         next  |-> NextCursorStr(parsed),
         prev  |-> PrevCursorStr(parsed),
         first |-> FirstCursorStr(parsed)]

------------------------------------------------------------------------------
(* By page number. *)

PageNumber == IF cursor = <<>> THEN 1 ELSE cursor[1]
PageOf(entries) == Slice(entries, (PageNumber - 1) * PageSize, PageSize)

\* GitHubStorageImp: the next page is the one after a full page.
PageCursor(entries) ==
    [items |-> Items(entries),
     this  |-> <<PageNumber>>,
     next  |-> IF Cardinality(entries) = PageSize THEN <<PageNumber + 1>> ELSE None,
     prev  |-> IF PageNumber > 1 THEN <<PageNumber - 1>> ELSE None,
     first |-> <<1>>]

GitHubRepos == PageCursor(PageOf(Entries))

\* Types are told apart as they are at the service: what is neither "file" nor
\* "dir" is parsed as a folder, but is not among the folders.
GitHubContents ==
    PageCursor(OfKind(PageOf(Entries),
        CASE item_type = None     -> Kinds
          [] item_type = "FILE"   -> {"file"}
          [] item_type = "FOLDER" -> {"folder"}))

\* mutants: the same page again, and one page left out
SamePageAfter(result) == IF Cardinality(result) >= PageSize THEN <<PageNumber>> ELSE None
SkipPageAfter(result) == IF Cardinality(result) >= PageSize THEN <<PageNumber + 2>> ELSE None

\* FigshareStorageImp._get_next_cursor
NextPageAfter(result) == IF Cardinality(result) >= PageSize THEN <<PageNumber + 1>> ELSE None

\* Articles of types not used are dropped from the page.
FigshareArticles ==
    LET result == IF item_type = "FILE" THEN {}
                  ELSE OfKind(PageOf(Entries), {"file", "folder"})
    IN  SampleThen(Items(result), NextPageAfter(result))

FigshareFiles ==
    LET result == IF item_type = "FOLDER" THEN {} ELSE PageOf(Entries)
    IN  SampleThen(Items(result), NextPageAfter(result))

\* Projects (here "folder") and articles are asked for with the same page number.
FigshareRoot ==
    LET projects == PageOf(OfKind(Entries, {"folder"}))
        articles == OfKind(PageOf(OfKind(Entries, {"file", "other"})), {"file"})
    IN  SampleThen(Items(projects \cup articles),
                   IF NextPageAfter(projects) # None THEN NextPageAfter(projects)
                                                     ELSE NextPageAfter(articles))

------------------------------------------------------------------------------
(* With a token; the service chooses how long each page is. *)

TokenOffset == IF cursor = <<>> THEN 0 ELSE cursor[1]
TokenAfter(page) ==
    IF TokenOffset + Cardinality(page) < Size THEN <<TokenOffset + Cardinality(page)>> ELSE None

\* Google Drive, where the service selects the type, Bitbucket's repository
\* contents, GitLab's repository tree, and Dropbox
TypedByToken(page) == SampleThen(OfWantedType(Items(page)), TokenAfter(page))

\* roots, and the repositories of a workspace at Bitbucket
UntypedByToken(page) == SampleThen(Items(page), TokenAfter(page))

\* neither "file" nor "folder" is the tag of some entry
DropboxRaises(page) == OfKind(page, {"other"}) # {}

\* NextLinkCursor.__init__ assigns this_cursor_str, a property without setter
OneDriveRaises(page) == TokenAfter(page) # None

ByToken(page) ==
    IF \/ listing = "dropbox" /\ DropboxRaises(page)
       \/ listing = "onedrive" /\ OneDriveRaises(page)
    THEN Fail
    ELSE Receive(IF listing \in {"google_drive", "bitbucket", "gitlab", "dropbox"}
                 THEN TypedByToken(page) ELSE UntypedByToken(page))

------------------------------------------------------------------------------
(* In one request. *)

Azure == Sample(OfWantedType(Items(Slice(Entries, 0, MAX_RESULTS))))

\* S3, Zotero and Mendeley have more pages than the one that is asked for, 1000, 25
\* and 20 entries of each list; nothing asks for the next.
FirstPage(entries) == Slice(entries, 0, DefaultPage)

\* the common prefixes, and the keys that do not end with "/"
S3 == Sample(OfWantedType(Items(OfKind(FirstPage(Entries), {"file", "folder"}))))

OwnCloud == Sample(OfWantedType(Items(Entries)))

\* the contents of a dataverse are folders, and those of a dataset files
Dataverse == Sample(IF item_type = "FILE" THEN {} ELSE Items(Entries))
DataverseFiles == Sample(IF item_type = "FOLDER" THEN {} ELSE Items(Entries))
DataverseLink == Sample(Items(OfKind(Entries, {"file", "folder"})))

\* documents, then collections: each asked for unless only the other is wanted
DocumentsAndCollections(documents, collections) ==
    Sample(Items((IF item_type = "FOLDER" THEN {} ELSE OfKind(FirstPage(documents), {"file"}))
                 \cup (IF item_type = "FILE" THEN {} ELSE OfKind(FirstPage(collections), {"folder"}))))

Zotero == DocumentsAndCollections(OfKind(Entries, {"file", "other"}), OfKind(Entries, {"folder"}))

\* all folders are asked for, those of another parent are dropped
Mendeley == DocumentsAndCollections(OfKind(Entries, {"file"}), OfKind(Entries, {"folder", "other"}))

------------------------------------------------------------------------------
ListingInit ==
    /\ listing \in Listings
    /\ folder \in Folders
    /\ item_type \in (IF listing \in Roots THEN {None} ELSE ItemType \cup {None})
    /\ cursor = <<>>
    /\ listed = {}
    /\ repeated = FALSE
    /\ walk = "more"
    /\ sample = None

ListByOffset ==
    /\ listing = "box"
    /\ IF OfKind(BoxPage, {"other"}) # {} THEN Fail ELSE Receive(Box)

ListByPageNumber ==
    \/ listing = "github_repos" /\ Receive(GitHubRepos)
    \/ listing = "github" /\ Receive(GitHubContents)
    \/ listing = "figshare_root" /\ Receive(FigshareRoot)
    \/ listing = "figshare_articles" /\ Receive(FigshareArticles)
    \/ listing = "figshare_files" /\ Receive(FigshareFiles)

ListByToken ==
    /\ listing \in {"google_drive", "dropbox", "bitbucket", "bitbucket_repos", "gitlab",
                    "gitlab_projects", "dataverse_mydata", "bitbucket_workspaces", "onedrive"}
    /\ \E n \in 1 .. PageSize : ByToken(Slice(Entries, TokenOffset, n))

ListAtOnce ==
    \/ listing = "azure" /\ Receive(Azure)
    \/ listing = "s3" /\ Receive(S3)
    \/ listing = "owncloud" /\ Receive(OwnCloud)
    \/ listing = "dataverse" /\ Receive(Dataverse)
    \/ listing = "dataverse_files" /\ Receive(DataverseFiles)
    \/ listing = "dataverse_link" /\ Receive(DataverseLink)
    \/ listing = "zotero" /\ Receive(Zotero)
    \/ listing = "mendeley" /\ Receive(Mendeley)

ListingNext == ListByOffset \/ ListByPageNumber \/ ListByToken \/ ListAtOnce

ListingSpec == ListingInit /\ [][ListingNext]_listing_vars

\* The client goes on as long as it is given a cursor.
FairListing == ListingSpec /\ WF_listing_vars(ListingNext)

------------------------------------------------------------------------------
(* Properties. *)

ListedItem == [item_id : Nat \ {0}, item_type : ItemType]

\* Type invariant of the walk; no cursor has a negative offset.
ListingTypeOK ==
    /\ listing \in Listings
    /\ folder \in Folders
    /\ item_type \in ItemType \cup {None}
    /\ cursor \in Cursors
    /\ listed \subseteq ListedItem
    /\ repeated \in BOOLEAN
    /\ walk \in {"more", "done", "failed"}
    /\ sample = None \/ {sample.this, sample.next, sample.prev} \subseteq Cursors \cup {None}

\* The items of the folder that a listing of this type should have.
IsHidden(kind) ==
    /\ kind = "other"
    /\ \/ listing \in {"figshare_root", "figshare_articles", "s3", "mendeley", "zotero",
                       "dataverse_link"}
       \/ listing = "github" /\ item_type # None
Shown == {i \in Entries : ~IsHidden(folder[i])}
Wanted == IF listing \in Untyped THEN Items(Shown) ELSE OfWantedType(Items(Shown))

\* Pages do not overlap and hold nothing but items of the wanted type.
ListedOnce == ~repeated /\ listed \subseteq Wanted

\* The lists of which the first page is asked for only.
Unpaged ==
    CASE listing = "s3" -> {Entries}
      [] listing = "zotero" -> {OfKind(Entries, {"file", "other"}), OfKind(Entries, {"folder"})}
      [] listing = "mendeley" -> {OfKind(Entries, {"file"}), OfKind(Entries, {"folder", "other"})}
      [] OTHER -> {}

\* Where a listing ends early: after a page that was full before items were
\* dropped from it, at the most results that Azure is asked for, at the largest
\* index of an OffsetCursor, after the only page that is asked for.
CutShort ==
    \/ /\ listing \in {"github", "figshare_articles", "figshare_root"}
       /\ Size > PageSize
       /\ Cardinality(Wanted) < Size
    \/ listing = "azure" /\ Size > MAX_RESULTS
    \/ listing = "box" /\ Size > MAX_INDEX
    \/ \E list \in Unpaged : Cardinality(list) > DefaultPage

\* A client that follows the cursors to the last page has seen every item of the
\* folder that has the type it asked for, unless the listing was cut short.
CompleteUnlessCutShort == walk = "done" => listed = Wanted \/ CutShort

\* "when None, this is the last page of results" (addon_toolkit/interfaces):
\* there is nothing beyond the page without a next cursor.
LastPageIsLast == walk = "done" => listed = Wanted

\* The previous cursor of a page is the cursor of the page that led there.
PrevLeadsBack ==
    [][None \notin {sample, sample'} /\ sample'.prev # None => sample'.prev = sample.this]_listing_vars

\* Following the cursors comes to an end.
WalkEnds == <>(walk # "more")
=============================================================================
