--------------------------------- MODULE KeyedItems ---------------------------------
(***************************************************************************)
(* The implementations of services that give every item a key of its own:  *)
(* Box, Dropbox, Google Drive, OneDrive, figshare, Dataverse (as storage   *)
(* and as link), Zotero and Mendeley.  "c" is the content of the account   *)
(* at the service.                                                         *)
(***************************************************************************)
EXTENDS ItemIds

(***************************************************************************)
(* Box: ids are "<type>:<key>"; an empty id is the root.                   *)
(***************************************************************************)
BoxItem(o) == Item(<<o.kind, ":", o.key>>, FileOrFolder(o), o)

BoxParse(id) ==
    IF id = <<>> THEN {<<<<"folder">>, <<"0">>>>}
    ELSE {p \in SplitOnce(id, ":") : p[1] \in {<<"file">>, <<"folder">>}}

(* Mutant: files and folders looked up alike. *)
BoxAtAnyType(c, id) == UNION {Keyed(c, {"file", "folder"}, p[2]) : p \in BoxParse(id)}

BoxAt(c, id) == UNION {Keyed(c, {p[1][1]}, p[2]) : p \in BoxParse(id)}

BoxInfo(c, id) == {BoxItem(o) : o \in BoxAt(c, id)}

BoxRoots(c) == {BoxInfo(c, <<"folder", ":", "0">>)}

BoxChildren(c, id, type) ==
    {OfType({BoxItem(x) : x \in Under(c, o.path)}, type) :
        o \in {o \in BoxAt(c, id) : o.kind = "folder"}}

BoxWb(c, id) == UNION {Keyed(c, {"folder"}, p[2]) : p \in SplitOnce(id, ":")}

(***************************************************************************)
(* Dropbox: the ids of the service, "/" or empty for the root.  The        *)
(* service takes a key or a path.                                          *)
(***************************************************************************)
DropboxRootIds == {<<>>, <<"/">>}

DropboxAt(c, id) ==
    IF id = <<>> THEN Account(c)
    ELSE {o \in c \ Account(c) : id \in {<<o.key>>, <<"/">> \o Join(o.path, "/")}}

DropboxItem(o) == Item(<<o.key>>, FileOrFolder(o), o)

DropboxInfo(c, id) ==
    IF id \in DropboxRootIds THEN {Item(<<"/">>, "folder", o) : o \in Account(c)}
    ELSE {DropboxItem(o) : o \in DropboxAt(c, id)}

DropboxRoots(c) == {{Item(<<"/">>, "folder", o) : o \in Account(c)}}

DropboxChildren(c, id, type) ==
    {OfType({DropboxItem(x) : x \in Under(c, o.path)}, type) :
        o \in {o \in DropboxAt(c, IF id = <<"/">> THEN <<>> ELSE id) : o.kind = "folder"}}

(* WaterButler gets the path that the service reports now. *)
DropboxWb(c, id) ==
    IF id \in DropboxRootIds THEN Account(c)
    ELSE UNION {At(c, o.path) : o \in DropboxAt(c, id)}

(***************************************************************************)
(* Google Drive: the keys of the service; it knows its root as "root".     *)
(***************************************************************************)
DriveItem(o) == Item(<<o.key>>, FileOrFolder(o), o)

DriveInfo(c, id) ==
    {DriveItem(o) : o \in Keyed(c, {"file", "folder"}, IF id = <<>> THEN <<"root">> ELSE id)}

DriveRoots(c) == {DriveInfo(c, <<"root">>)}

(* A query on the parent: of a key that no folder has, it finds nothing. *)
DriveChildren(c, id, type) ==
    {OfType({DriveItem(x) : x \in UNION {Under(c, o.path) : o \in Keyed(c, {"folder"}, id)}}, type)}

DriveWb(c, id) == Keyed(c, {"folder"}, id)

(***************************************************************************)
(* OneDrive: as Google Drive, but the root is always listed as "root" and  *)
(* the requested item type is not looked at.                               *)
(***************************************************************************)
OneDriveInfo(c, id) == {DriveItem(o) : o \in Keyed(c, {"file", "folder"}, id)}

OneDriveRoots(c) == {{[i EXCEPT !.id = <<"root">>] : i \in OneDriveInfo(c, <<"root">>)}}

OneDriveChildren(c, id, type) ==
    {{DriveItem(x) : x \in Under(c, o.path)} : o \in Keyed(c, {"folder"}, id)}

OneDriveWb(c, id) == Keyed(c, {"folder"}, id)

(***************************************************************************)
(* figshare: "project/<key>", "article/<key>", "article/<key>/files/<key>".*)
(***************************************************************************)
FigshareParent(c, o) == At(c, Front(o.path))

FigshareItem(c, o) ==
    IF o.kind = "file"
    THEN Item(<<"article", "/", (CHOOSE a \in FigshareParent(c, o) : TRUE).key,
                "/", "files", "/", o.key>>, "file", o)
    ELSE Item(<<o.kind, "/", o.key>>, "folder", o)

(* ARTICLE_REGEX, PROJECT_REGEX and FILE_REGEX with the request that each leads to. *)
FigshareAt(c, id) ==
    CASE Len(id) = 3 /\ id[1] \in {"article", "project"} /\ id[2] = "/" ->
            Keyed(c, {id[1]}, <<id[3]>>)
      [] Len(id) = 7 /\ id[1] = "article" /\ id[5] = "files" ->
            {o \in Keyed(c, {"file"}, <<id[7]>>) :
                FigshareParent(c, o) = Keyed(c, {"article"}, <<id[3]>>)}
      [] OTHER -> {}

FigshareInfo(c, id) ==
    IF id = <<>> THEN {Item(<<>>, "folder", o) : o \in Account(c)}
    ELSE {FigshareItem(c, o) : o \in FigshareAt(c, id)}

FigshareRoots(c) == {{FigshareItem(c, o) : o \in Under(c, <<>>)}}

FigshareChildren(c, id, type) ==
    LET match == {o \in FigshareAt(c, id) :
                    \/ o.kind = "article" /\ type # "folder"
                    \/ o.kind = "project" /\ type # "file"}
    IN  {{FigshareItem(c, x) : x \in UNION {Under(c, o.path) : o \in match}}}

(* The first two segments of the id: the type and the id of the container. *)
FigshareWb(c, id) ==
    IF Len(id) < 3 THEN {} ELSE Keyed(c, {"project", "article"} \cap {id[1]}, <<id[3]>>)

(***************************************************************************)
(* Dataverse as storage: "dataverse/<key>", "dataset/<key>", "file/<key>". *)
(***************************************************************************)
DataverseKinds == {"dataverse", "dataset", "file"}

DataverseItem(o) ==
    LET item == Item(<<o.kind, "/", o.key>>, FileOrFolder(o), o)
    IN  IF o.kind = "dataverse" THEN NotRoot(item) ELSE item

DataverseAt(c, id) ==
    IF Len(id) = 3 /\ id[1] \in DataverseKinds /\ id[2] = "/"
    THEN {o \in c : o.kind = id[1] /\ o.key = id[3]} ELSE {}

DataverseInfo(c, id) ==
    IF id = <<>> THEN {Item(<<>>, "folder", o) : o \in Account(c)}
    ELSE {DataverseItem(o) : o \in DataverseAt(c, id)}

DataverseRoots(c) == {{DataverseItem(o) : o \in {o \in Under(c, <<>>) : o.kind = "dataverse"}}}

DataverseChildren(c, id, type) ==
    IF id = <<>> THEN DataverseRoots(c)
    ELSE LET match == {o \in DataverseAt(c, id) :
                        \/ o.kind = "dataverse" /\ type # "file"
                        \/ o.kind = "dataset" /\ type # "folder"}
         IN  {{DataverseItem(x) : x \in UNION {Under(c, o.path) : o \in match}}}

(* The id, the doi and the name of a data set: nothing else can be the root. *)
DataverseWb(c, id) == {o \in DataverseAt(c, id) : o.kind = "dataset"}

(***************************************************************************)
(* Dataverse as link: dataverses are named by their alias, data sets and   *)
(* files by their persistent id (none when the service gave them none).    *)
(* Drafts are not published and have no page to link to.                   *)
(***************************************************************************)
LinkType(o) == IF o.kind = "file" THEN "resource" ELSE "folder"

(* _make_url refuses a missing persistent id, and with it the whole result. *)
LinkItems(os) ==
    IF \E o \in os : o.alias = NoAlias THEN {}
    ELSE {{Item(<<o.kind, "/", o.alias>>, LinkType(o), o) : o \in os}}

LinkAt(c, id) ==
    IF Len(id) = 3 /\ id[1] \in DataverseKinds
    THEN {o \in c : o.kind = id[1] /\ (o.alias = id[3] \/ (o.kind = "dataverse" /\ o.key = id[3]))}
    ELSE {}

LinkInfo(c, id) ==
    IF id = <<>> THEN {Item(<<>>, "folder", o) : o \in Account(c)}
    ELSE UNION {UNION LinkItems({o}) : o \in LinkAt(c, id)}

LinkRoots(c) == LinkItems({o \in Under(c, <<>>) : o.kind = "dataverse"})

LinkChildren(c, id, type) ==
    IF id = <<>> THEN LinkRoots(c)
    ELSE UNION {LinkItems({x \in Under(c, o.path) : x.kind # "draft"}) : o \in LinkAt(c, id)}

(* The page that the url of a target shows. *)
LinkUrl(c, id) == {o \in LinkAt(c, id) : o.alias # NoAlias /\ o.alias = id[3]}

(***************************************************************************)
(* Zotero: "<type>:<library>:<key>", with ROOT for the library itself.  A  *)
(* migrated addon may say None instead.                                    *)
(***************************************************************************)
ZoteroLibrary(c, o) == CHOOSE l \in At(c, SubSeq(o.path, 1, 1)) : TRUE

ZoteroItem(c, o) ==
    CASE o.kind = "library" -> Item(<<"collection", ":", o.key, ":", "ROOT">>, "collection", o)
      [] OTHER -> Item(<<o.kind, ":", ZoteroLibrary(c, o).key, ":", o.key>>, o.kind, o)

(* The request for a collection, or for the library when there is none. *)
ZoteroResolve(c, library, key) ==
    {o \in c \ Account(c) :
        /\ ZoteroLibrary(c, o).key = library
        /\ IF key = "ROOT" THEN o.kind = "library" ELSE o.kind = "collection" /\ o.key = key}

ZoteroParses(id) == Len(id) = 5 /\ id[2] = ":" /\ id[4] = ":"

(* Python's "a in b", of strings. *)
Contained(a, b) == a = b \/ \E i, j \in 1..Len(b) : SubSeq(b, i, j) = a

(* The first of the service's list with this library anywhere in its id; a group is a number. *)
ZoteroLibraries(c, library) ==
    {o \in c : o.kind = "library" /\ IF library = "personal" THEN o.key = library
                                     ELSE Contained(library, o.key)}

ZoteroInfo(c, id) ==
    IF ~ZoteroParses(id) THEN {}
    ELSE IF id[1] = "collection" /\ id[5] \in {"ROOT", "None"}
    THEN {ZoteroItem(c, o) : o \in ZoteroLibraries(c, id[3])}
    ELSE IF id[1] = "collection"
    THEN {ZoteroItem(c, o) : o \in ZoteroResolve(c, id[3], id[5])}
    ELSE {ZoteroItem(c, o) : o \in {o \in Keyed(c, {"document"}, <<id[5]>>) :
                                      ZoteroLibrary(c, o).key = id[3]}}

ZoteroRoots(c) == {{ZoteroItem(c, o) : o \in Under(c, <<>>)}}

(* Mutant: all collections of a library instead of the top ones. *)
ZoteroChildrenWithoutTop(c, id, type) ==
    LET inside(o)      == IF o.kind = "library" THEN Below(c, o.path) ELSE Under(c, o.path)
        documents(o)   == {x \in inside(o) : x.kind = "document" /\ type # "collection"}
        collections(o) == {x \in inside(o) : x.kind = "collection" /\ type # "document"}
    IN  IF ~ZoteroParses(id) THEN {}
        ELSE {{ZoteroItem(c, x) : x \in documents(o) \cup collections(o)} :
                o \in ZoteroResolve(c, id[3], id[5])}

(* Of a library the service gives every document and the top collections. *)
ZoteroChildren(c, id, type) ==
    LET documents(o)   == {x \in IF o.kind = "library" THEN Below(c, o.path) ELSE Under(c, o.path) :
                            x.kind = "document" /\ type # "collection"}
        collections(o) == {x \in Under(c, o.path) : x.kind = "collection" /\ type # "document"}
    IN  IF ~ZoteroParses(id) THEN {}
        ELSE {{ZoteroItem(c, x) : x \in documents(o) \cup collections(o)} :
                o \in ZoteroResolve(c, id[3], id[5])}

(***************************************************************************)
(* Mendeley: "<type>:<key>", and ROOT for all documents.                   *)
(***************************************************************************)
MendeleyItem(o) ==
    IF o.path = <<>> THEN Item(<<"ROOT">>, "collection", o)
    ELSE Item(<<o.kind, ":", o.key>>, o.kind, o)

MendeleyInfo(c, id) ==
    IF id = <<"ROOT">> THEN {MendeleyItem(o) : o \in Account(c)}
    ELSE UNION {{MendeleyItem(o) : o \in Keyed(c \ Account(c), {"collection", "document"} \cap {p[1][1]}, p[2])} :
                  p \in {p \in SplitOnce(id, ":") : Len(p[1]) = 1}}

MendeleyRoots(c) == {{MendeleyItem(o) : o \in Account(c)}}

(* All folders are fetched, those with another parent are dropped. *)
MendeleyChildren(c, id, type) ==
    LET parsed == IF id = <<"ROOT">> THEN {id} ELSE {p[2] : p \in SplitOnce(id, ":")}
        folder(key) == IF key = <<"ROOT">> THEN Account(c) ELSE Keyed(c, {"collection"}, key)
        documents(o) == {x \in IF o.path = <<>> THEN c ELSE Under(c, o.path) :
                          x.kind = "document" /\ type # "collection"}
        collections(o) == {x \in Under(c, o.path) : x.kind = "collection" /\ type # "document"}
    IN  {{MendeleyItem(x) : x \in documents(o) \cup collections(o)} :
            o \in UNION {folder(key) : key \in parsed}}

=====================================================================================
