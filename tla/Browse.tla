----------------------------------- MODULE Browse -----------------------------------
(***************************************************************************)
(* Choosing the root of an addon: the file picker lists items of the       *)
(* external service through the operations of an addon implementation and  *)
(* sends back the ids that it was given, to open an item, to list what is  *)
(* in it, and to make it the root whose description WaterButler gets.  The *)
(* picker may also start from the id that the migration from the OSF wrote *)
(* for the folder selected there, or from an addon with no root at all.    *)
(* Meanwhile the owner renames and deletes things at the service.          *)
(*                                                                         *)
(* The items of the service carry a mark (oid) that no code sees; a result *)
(* remembers of which item it was made, and the properties compare this    *)
(* with the item that the id leads to.                                     *)
(***************************************************************************)
EXTENDS Naturals, FiniteSets, KeyedItems, PathItems, Contents, JsonArguments

CONSTANTS
    Imps,           \* the addon implementations looked at
    Content,        \* for each, what is in the account at the service
    NewNames,       \* names that things are renamed to
    MaxChanges      \* how often the owner changes the content

AllImps == {"box", "dropbox", "googledrive", "onedrive", "figshare", "dataverse", "link", "zotero",
            "mendeley", "github", "gitlab", "bitbucket", "s3", "azure", "owncloud"}

ASSUME BrowseAssumption ==
    /\ Imps \subseteq AllImps
    /\ \A s \in Imps : WellFormed(s, Content[s])
    /\ NewNames \subseteq Names
    /\ MaxChanges \in Nat

VARIABLES
    imp,            \* the implementation of the addon
    content,        \* what is in the account now
    held,           \* the items the picker was given so far
    fresh,          \* those given since the content last changed
    changes

vars == <<imp, content, held, fresh, changes>>

(***************************************************************************)
(* The operations, by implementation.                                      *)
(***************************************************************************)
GetItemInfo(s, c, id) ==
    CASE s = "box"         -> BoxInfo(c, id)
      [] s = "dropbox"     -> DropboxInfo(c, id)
      [] s = "googledrive" -> DriveInfo(c, id)
      [] s = "onedrive"    -> OneDriveInfo(c, id)
      [] s = "figshare"    -> FigshareInfo(c, id)
      [] s = "dataverse"   -> DataverseInfo(c, id)
      [] s = "link"        -> LinkInfo(c, id)
      [] s = "zotero"      -> ZoteroInfo(c, id)
      [] s = "mendeley"    -> MendeleyInfo(c, id)
      [] s = "github"      -> GithubInfo(c, id)
      [] s = "gitlab"      -> GitlabInfo(c, id)
      [] s = "bitbucket"   -> BitbucketInfo(c, id)
      [] s = "s3"          -> S3Info(c, id)
      [] s = "azure"       -> AzureInfo(c, id)
      [] s = "owncloud"    -> OwncloudInfo(c, id)

ListRootItems(s, c) ==
    CASE s = "box"         -> BoxRoots(c)
      [] s = "dropbox"     -> DropboxRoots(c)
      [] s = "googledrive" -> DriveRoots(c)
      [] s = "onedrive"    -> OneDriveRoots(c)
      [] s = "figshare"    -> FigshareRoots(c)
      [] s = "dataverse"   -> DataverseRoots(c)
      [] s = "link"        -> LinkRoots(c)
      [] s = "zotero"      -> ZoteroRoots(c)
      [] s = "mendeley"    -> MendeleyRoots(c)
      [] s = "github"      -> GithubRoots(c)
      [] s = "gitlab"      -> GitlabRoots(c)
      [] s = "bitbucket"   -> BitbucketRoots(c)
      [] s = "s3"          -> S3Roots(c)
      [] s = "azure"       -> AzureRoots(c)
      [] s = "owncloud"    -> OwncloudRoots(c)

ListChildItems(s, c, id, type) ==
    CASE s = "box"         -> BoxChildren(c, id, type)
      [] s = "dropbox"     -> DropboxChildren(c, id, type)
      [] s = "googledrive" -> DriveChildren(c, id, type)
      [] s = "onedrive"    -> OneDriveChildren(c, id, type)
      [] s = "figshare"    -> FigshareChildren(c, id, type)
      [] s = "dataverse"   -> DataverseChildren(c, id, type)
      [] s = "link"        -> LinkChildren(c, id, type)
      [] s = "zotero"      -> ZoteroChildren(c, id, type)
      [] s = "mendeley"    -> MendeleyChildren(c, id, type)
      [] s = "github"      -> GithubChildren(c, id, type)
      [] s = "gitlab"      -> GitlabChildren(c, id, type)
      [] s = "bitbucket"   -> BitbucketChildren(c, id, type)
      [] s = "s3"          -> S3Children(c, id, type)
      [] s = "azure"       -> AzureChildren(c, id, type)
      [] s = "owncloud"    -> OwncloudChildren(c, id, type)

(* The folder that WaterButler finds with the config; the page that a link leads to. *)
BuildWbConfig(s, c, id) ==
    CASE s = "box"         -> BoxWb(c, id)
      [] s = "dropbox"     -> DropboxWb(c, id)
      [] s = "googledrive" -> DriveWb(c, id)
      [] s = "onedrive"    -> OneDriveWb(c, id)
      [] s = "figshare"    -> FigshareWb(c, id)
      [] s = "dataverse"   -> DataverseWb(c, id)
      [] s = "link"        -> LinkUrl(c, id)
      [] s = "github"      -> GithubWb(c, id)
      [] s = "gitlab"      -> GitlabWb(c, id)
      [] s = "bitbucket"   -> BitbucketWb(c, id)
      [] s = "s3"          -> S3Wb(c, id)
      [] s = "azure"       -> AzureWb(c, id)
      [] s = "owncloud"    -> OwncloudWb(c, id)
      [] OTHER             -> {}

CitationImps == {"zotero", "mendeley"}

(***************************************************************************)
(* The ids that the migration makes of the OSF's settings, for the folders *)
(* that could be selected there.                                           *)
(***************************************************************************)
GetRootFolderForProvider(s, c) ==
    CASE s = "dropbox"   -> {<<IF o.path = <<>> THEN <<"/">> ELSE <<"/">> \o Join(o.path, "/"), o>> :
                                o \in {o \in c : o.kind = "folder"}}
      [] s = "box"       -> {<<<<"folder", ":", o.key>>, o>> : o \in {o \in c : o.kind = "folder"}}
      [] s = "github"    -> {<<FullName(o) \o <<":">>, o>> : o \in {o \in c : o.kind = "repository"}}
      [] s \in {"googledrive", "onedrive"} ->
                            {<<<<o.key>>, o>> : o \in {o \in c : o.kind = "folder"}}
      [] s = "s3"        -> {<<BlobItem(o).id, o>> : o \in {o \in c : o.kind \in {"bucket", "folder"}}}
      [] s = "owncloud"  -> {<<<<"folder", ":", "/">> \o Join(o.path, "/"), o>> :
                                o \in {o \in c : o.kind = "folder"}}
      [] s = "dataverse" -> {<<<<"dataset", "/", o.key>>, o>> : o \in {o \in c : o.kind = "dataset"}}
      [] s = "gitlab"    -> {<<Join(o.path, "%2F") \o <<":">>, o>> :
                                o \in {o \in c : o.kind = "repository" /\ Len(o.path) = 2}}
      [] s = "bitbucket" -> {<<<<"repository", ":">> \o Join(o.path, "/"), o>> :
                                o \in {o \in c : o.kind = "repository"}}
      [] s = "zotero"    -> {<<<<"collection", ":", ZoteroLibrary(c, o).key, ":",
                                IF o.kind = "library" THEN "ROOT" ELSE o.key>>, o>> :
                                o \in {o \in c : o.kind \in {"library", "collection"}}}
      [] s = "mendeley"  -> {<<<<"collection", ":", o.key>>, o>> :
                                o \in {o \in c : o.kind = "collection" /\ o.path # <<>>}}
      [] s = "figshare"  -> {<<<<IF o.kind = "project" THEN "project" ELSE "article", "/", o.key>>, o>> :
                                o \in {o \in c : o.kind \in {"project", "article"}}}
      [] OTHER           -> {}

(* Implementations that take an empty id for the root of the account. *)
TakesNoRoot == {"box", "dropbox", "owncloud", "dataverse", "link"}

FolderType(s) == IF s \in CitationImps THEN "collection" ELSE "folder"

StartingPoints(s, c) ==
    {Item(m[1], FolderType(s), m[2]) : m \in GetRootFolderForProvider(s, c)}
      \cup {Item(<<>>, "folder", o) : o \in IF s \in TakesNoRoot THEN Account(c) ELSE {}}

(***************************************************************************)
(* The declared operations: their parameters, the dataclass of an item and *)
(* the dataclass of a listing.                                             *)
(***************************************************************************)
ItemTypes(s) ==
    IF s \in CitationImps THEN [document |-> "DOCUMENT", collection |-> "COLLECTION"]
    ELSE IF s = "link" THEN [resource |-> "RESOURCE", folder |-> "FOLDER"]
    ELSE [file |-> "FILE", folder |-> "FOLDER"]

GetItemInfoKwargs == [item_id |-> Param(Plain("str"))]

ListRootItemsKwargs(s) ==
    IF s \in CitationImps THEN <<>> ELSE [page_cursor |-> ParamOr(Plain("str"), Str(<<>>))]

(* Mutant: an item type that has to be given. *)
ListChildItemsKwargsWithoutDefault(s) ==
    LET item_type == Param(EnumOf(ItemTypes(s)))
    IN  IF s \in CitationImps THEN [collection_id |-> Param(Plain("str")), filter_items |-> item_type]
        ELSE [item_id |-> Param(Plain("str")), item_type |-> item_type,
              page_cursor |-> ParamOr(Plain("str"), Str(<<>>))]

ListChildItemsKwargs(s) ==
    LET item_type == ParamOr(Optional(EnumOf(ItemTypes(s))), NoneValue)
    IN  IF s \in CitationImps THEN [collection_id |-> Param(Plain("str")), filter_items |-> item_type]
        ELSE [item_id |-> Param(Plain("str")), item_type |-> item_type,
              page_cursor |-> ParamOr(Plain("str"), Str(<<>>))]

(* can_be_root is not declared optional, but it is set when the item is made. *)
ItemResult(s) ==
    LET item_id == Param(Plain("str"))
        item_type == Param(EnumOf(ItemTypes(s)))
    IN  IF s = "link" THEN [item_id |-> item_id, item_type |-> item_type]
        ELSE [item_id |-> item_id, item_type |-> item_type, can_be_root |-> ParamOr(Plain("bool"), NoneValue)]

ItemSampleResult(s) == [items |-> Param(CollectionOf(Dataclass(ItemResult(s))))]

ItemValue(s, i) ==
    Object([n \in DOMAIN ItemResult(s) |->
              CASE n = "item_id" -> Str(i.id) [] n = "item_type" -> Enum(i.type) [] OTHER -> Bool(i.root)])

(* What reaches the picker: a whole listing, or nothing when an item of it has no JSON. *)
Answer(s, items) ==
    LET json == JsonForTypedValue(Dataclass(ItemSampleResult(s)),
                                  Object([items |-> List([i \in items |-> ItemValue(s, i)])]))
        item(j, of) == [id |-> j.item_id[2], type |-> Lower(j.item_type[2]), of |-> of,
                        root |-> "can_be_root" \in DOMAIN j /\ j.can_be_root[2]]
    IN  {{item(j[2].items[2][i][2], i.of) : i \in items} : j \in json}

(* The arguments a request has for an item and, perhaps, the type of the items in it. *)
OpenRequest(i) == [item_id |-> Str(i.id)]

ListRequest(s, i, type) ==
    LET id == IF s \in CitationImps THEN "collection_id" ELSE "item_id"
        of == IF s \in CitationImps THEN "filter_items" ELSE "item_type"
    IN  [n \in IF type = "any" THEN {id} ELSE {id, of} |->
            IF n = id THEN Str(i.id) ELSE Str(<<ItemTypes(s)[type]>>)]

(* An invocation: the arguments are checked with the schema and parsed. *)
Arguments(signature, json) ==
    IF MeetsSchema(signature, json) THEN KwargsFromJson(signature, json) ELSE {}

PerformList(s, c, kwargs) ==
    LET id == IF s \in CitationImps THEN kwargs.collection_id ELSE kwargs.item_id
        of == IF s \in CitationImps THEN "filter_items" ELSE "item_type"
    IN  ListChildItems(s, c, id[2], IF of \in DOMAIN kwargs THEN kwargs[of][2] ELSE "any")

(***************************************************************************)
(* The picker and the owner.                                               *)
(***************************************************************************)
Types(s) == {"any"} \cup DOMAIN ItemTypes(s)

Init ==
    /\ imp \in Imps
    /\ content = Content[imp]
    /\ held \in {{}} \cup {{i} : i \in StartingPoints(imp, content)}
    /\ fresh = held
    /\ changes = 0

Given(items) ==
    /\ held' = held \cup items
    /\ fresh' = fresh \cup items
    /\ UNCHANGED <<imp, content, changes>>

OpenRoot ==
    \E kwargs \in Arguments(ListRootItemsKwargs(imp), <<>>), items \in ListRootItems(imp, content) :
        \E answer \in Answer(imp, items) : Given(answer)

OpenFolder(i, type) ==
    /\ i.type \in {"folder", "collection"}
    /\ \E kwargs \in Arguments(ListChildItemsKwargs(imp), ListRequest(imp, i, type)) :
         \E items \in PerformList(imp, content, kwargs) :
             \E answer \in Answer(imp, items) : Given(answer)

OpenItem(i) ==
    \E kwargs \in Arguments(GetItemInfoKwargs, OpenRequest(i)) :
        \E item \in GetItemInfo(imp, content, kwargs.item_id[2]) :
            \E answer \in Answer(imp, {item}) : Given(answer)

Change(c) ==
    /\ changes < MaxChanges
    /\ changes' = changes + 1
    /\ content' = c
    /\ fresh' = {}
    /\ UNCHANGED <<imp, held>>

(* A name changes, and with it the path of everything below; nothing else has the new *)
(* name, nor a path that leads through it.                                            *)
Rename(o, name) ==
    LET path == Append(Front(o.path), name)
    IN  /\ \A x \in content : ~IsPrefix(path, x.path)
        /\ Change({IF IsPrefix(o.path, x.path)
                   THEN [x EXCEPT !.path[Len(o.path)] = name] ELSE x : x \in content})

Delete(o) == Change({x \in content : ~IsPrefix(o.path, x.path)})

Next ==
    \/ OpenRoot
    \/ \E i \in held : OpenItem(i) \/ \E type \in Types(imp) : OpenFolder(i, type)
    \/ \E o \in content \ Account(content) : Delete(o) \/ \E name \in NewNames : Rename(o, name)

Spec == Init /\ [][Next]_vars

(***************************************************************************)
(* Properties.                                                             *)
(***************************************************************************)

(* The picker holds results of items that the service had, with types of its interface. *)
TypeOK ==
    /\ imp \in Imps
    /\ Cardinality(content) <= Cardinality(Content[imp])
    /\ \A i \in held : /\ i.type \in {"file", "folder", "document", "collection", "resource"}
                       /\ i.of \in {o.oid : o \in Content[imp]}
    /\ fresh \subseteq held
    /\ changes \in 0..MaxChanges

(* Implementations whose ids are keys of the service: they outlive a change of name. *)
KeyedImps ==
    {"box", "dropbox", "googledrive", "onedrive", "figshare", "dataverse", "link", "zotero", "mendeley"}

(* A path that the migration wrote for a Dropbox folder is not a key. *)
Stable(i) == imp \in KeyedImps /\ ~(imp = "dropbox" /\ Len(i.id) > 1)

(* The items whose ids should still lead to them. *)
Trusted == fresh \cup {i \in held : Stable(i)}

Kind(oid) == (CHOOSE o \in Content[imp] : o.oid = oid).kind

Now(oid) == {o \in content : o.oid = oid}

(* A Zotero group whose number is part of the number of another group. *)
PartOfAnother(i) ==
    imp = "zotero" /\ \E o, p \in Content[imp] :
        /\ o.oid = i.of /\ o # p
        /\ o.kind = "library" /\ p.kind = "library" /\ Contained(o.key, p.key)

(* GitHub gives files no repository and misspells directories below the first level; *)
(* S3 answers for a file without its bucket and takes a folder with one file for the *)
(* file; Azure takes every folder for a file; Zotero may open the other group.       *)
OpensExactly(i) ==
    /\ imp \in {"github", "s3", "azure"} => Kind(i.of) \in {"account", "repository", "bucket"}
    /\ ~PartOfAnother(i)

(* get_item_info, given the id of an item that was listed, migrated or answered      *)
(* before, answers with this item and its type, as long as the service still has it; *)
(* what was deleted or drawn back is not confused with something else.               *)
ListedItemsOpen ==
    \A i \in Trusted : OpensExactly(i) =>
        LET info == GetItemInfo(imp, content, i.id)
        IN  /\ \A x \in info : x.of = i.of /\ x.type = i.type
            /\ Now(i.of) # {} => info # {}

(* What the service holds in an item, of one type: a Zotero or Mendeley root has all documents. *)
Expected(o, type) ==
    LET inside == IF imp \in CitationImps /\ (o.kind = "library" \/ o.path = <<>>)
                  THEN {x \in Below(content, o.path) : x.kind = "document"} \cup Under(content, o.path)
                  ELSE Under(content, o.path)
        typed == {x \in inside : type \in {"any", IF imp \in CitationImps
                                                   THEN (IF x.kind = "library" THEN "collection" ELSE x.kind)
                                                   ELSE FileOrFolder(x)}}
    IN  {x.oid : x \in {x \in typed : x.kind # "draft"}}

(* OneDrive and the link implementation do not look at the type that is asked for, *)
(* Dataverse does not for the root and Bitbucket not for a workspace.              *)
Asked(i, type) ==
    IF \/ imp \in {"onedrive", "link"}
       \/ imp = "dataverse" /\ i.id = <<>>
       \/ imp = "bitbucket" /\ Head(i.id) = "workspace"
    THEN "any" ELSE type

(* A folder of ownCloud that the OSF wrote with a leading slash lists itself. *)
ListsItself(i) == imp = "owncloud" /\ Len(i.id) > 3 /\ i.id[3] = "/"

(* GitHub puts no slash between the names of two directories: the id of one in another *)
(* leads to nothing, or to a directory with the name that both make together.          *)
Misspelled(i) ==
    imp = "github" /\ \E o \in Content[imp] : o.oid = i.of /\ o.kind = "folder" /\ Len(o.path) > 3

(* The link implementation refuses a listing with something that has no persistent id. *)
Refused(o) == imp = "link" /\ \E x \in Under(content, o.path) : x.kind # "draft" /\ x.alias = NoAlias

(* list_child_items, given the id of a folder that was listed, migrated or answered  *)
(* before, answers with what this folder holds, of the type asked for: all of it and *)
(* nothing else; it does answer, as long as the service still has the folder.        *)
ListingsAreComplete ==
    \A i \in Trusted, type \in Types(imp) :
        i.type \in {"folder", "collection"} /\ ~ListsItself(i) /\ ~Misspelled(i) =>
            LET listings == ListChildItems(imp, content, i.id, type)
            IN  \A o \in Now(i.of) :
                    /\ \A items \in listings : {x.of : x \in items} = Expected(o, Asked(i, type))
                    /\ ~Refused(o) => listings # {}

(* GitLab offers the folders of a project as roots and describes the project alone;  *)
(* it can not describe a project in a subgroup.  The root of the account is often    *)
(* said to be a possible root, but only Dropbox and ownCloud describe it.            *)
DescribesRoot(i) ==
    /\ imp = "gitlab" => \E o \in Now(i.of) : o.kind = "repository" /\ Len(o.path) = 2
    /\ i.id = <<>> => imp \in {"dropbox", "owncloud"}

(* An item that says it can be the root is the one WaterButler is sent to when it is *)
(* chosen; the url of a link target shows the target.                                *)
RootReachesWaterButler ==
    \A i \in Trusted :
        imp \notin CitationImps /\ DescribesRoot(i) /\ (i.root \/ imp = "link") =>
            BuildWbConfig(imp, content, i.id) = Now(i.of)

(* Whatever the picker was given can be sent back: the arguments it makes of an item *)
(* meet the schema of the operation and are parsed to the id and type that it means. *)
RequestsAreUnderstood ==
    \A i \in fresh :
        /\ Arguments(GetItemInfoKwargs, OpenRequest(i)) = {OpenRequest(i)}
        /\ \A type \in Types(imp) :
              LET kwargs == Arguments(ListChildItemsKwargs(imp), ListRequest(imp, i, type))
              IN  /\ kwargs # {}
                  /\ \A k \in kwargs :
                        PerformList(imp, content, k) = ListChildItems(imp, content, i.id, type)

=====================================================================================
