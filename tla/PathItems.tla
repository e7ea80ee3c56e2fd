--------------------------------- MODULE PathItems ----------------------------------
(***************************************************************************)
(* The implementations of services that name an item by its path: GitHub,  *)
(* GitLab, Bitbucket, Amazon S3, Azure and ownCloud.  The first one or two *)
(* names of a path are the repository, bucket or container.                *)
(***************************************************************************)
EXTENDS ItemIds

FirstNames(o, n) == SubSeq(o.path, 1, n)

(***************************************************************************)
(* GitHub: "owner/repo:path".                                              *)
(***************************************************************************)
FullName(o) == Join(FirstNames(o, 2), "/")

GithubRepo(o) == Item(FullName(o) \o <<":">>, "folder", o)

(* full_name + item_name: nothing is put between the two, so that a name runs into the *)
(* last name of the id, unless this ends in the ":" of a repository.                   *)
RunTogether(full_name, item_name) ==
    IF Last(full_name) = ":" THEN Append(full_name, item_name)
    ELSE Append(Front(full_name), Last(full_name) \o item_name)

(* Mutant: directories offered as roots. *)
GithubItemAsRoot(o, full_name) ==
    Item(IF o.kind = "file" THEN Inner(o, 2) ELSE RunTogether(full_name, Last(o.path)),
         FileOrFolder(o), o)

(* A directory's name is put behind the id that was listed; a file's id is its path alone. *)
GithubItem(o, full_name) ==
    NotRoot(Item(IF o.kind = "file" THEN Inner(o, 2) ELSE RunTogether(full_name, Last(o.path)),
                 FileOrFolder(o), o))

GithubParse(id) == {p \in SplitOnce(id, ":") : SplitOnce(p[1], "/") # {}}

GithubAt(c, id) ==
    {o \in c : Len(o.path) >= 2 /\ <<FullName(o), Inner(o, 2)>> \in GithubParse(id)}

(* Asked for a directory the service answers with its entries: the first of them is taken. *)
GithubInfo(c, id) ==
    IF id = <<>> THEN {Item(<<>>, "folder", o) : o \in Account(c)}
    ELSE UNION {CASE o.kind = "repository" -> {GithubRepo(o)}
                  [] o.kind = "file" -> {GithubItem(o, id)}
                  [] OTHER -> {GithubItem(x, id) : x \in Under(c, o.path)} : o \in GithubAt(c, id)}

GithubRoots(c) == {{GithubRepo(o) : o \in {o \in c : o.kind = "repository"}}}

GithubChildren(c, id, type) ==
    {OfType({GithubItem(x, id) : x \in Under(c, o.path)}, type) :
        o \in {o \in GithubAt(c, id) : o.kind # "file"}}

GithubWb(c, id) ==
    {o \in c : o.kind = "repository" /\ FullName(o) \in {p[1] : p \in GithubParse(id)}}

(***************************************************************************)
(* GitLab: "<quoted path of the project>:path".  A project may be in a     *)
(* subgroup: its path has more than two names.                             *)
(***************************************************************************)
GitlabProject(c, o) ==
    CHOOSE p \in c : p.kind = "repository" /\ IsPrefix(p.path, o.path)

GitlabRepoId(c, o) == Join(GitlabProject(c, o).path, "%2F")

GitlabItem(c, o) ==
    Item(GitlabRepoId(c, o) \o <<":">> \o Inner(o, Len(GitlabProject(c, o).path)),
         FileOrFolder(o), o)

GitlabInProject(c) ==
    {o \in c : \E p \in c : p.kind = "repository" /\ IsPrefix(p.path, o.path)}

GitlabParse(id) == SplitOnce(id, ":")

GitlabAt(c, id) ==
    {o \in GitlabInProject(c) :
        <<GitlabRepoId(c, o), Inner(o, Len(GitlabProject(c, o).path))>> \in GitlabParse(id)}

(* A file if the service has one there, otherwise a folder if its tree can be listed. *)
GitlabInfo(c, id) ==
    {[GitlabItem(c, o) EXCEPT !.id = id] : o \in GitlabAt(c, id)}

GitlabRoots(c) == {{GitlabItem(c, o) : o \in {o \in c : o.kind = "repository"}}}

GitlabChildren(c, id, type) ==
    {OfType({GitlabItem(c, x) : x \in Under(c, o.path)}, type) :
        o \in {o \in GitlabAt(c, id) : o.kind # "file"}}

(* The unquoted path of the project must be an owner and a name. *)
GitlabWb(c, id) ==
    {o \in c : /\ o.kind = "repository"
               /\ Len(o.path) = 2
               /\ Join(o.path, "%2F") \in {p[1] : p \in GitlabParse(id)}}

(***************************************************************************)
(* Bitbucket: "workspace:<name>" and "repository:<workspace>/<name>/path". *)
(***************************************************************************)
BitbucketItem(o) ==
    IF o.kind = "workspace" THEN NotRoot(Item(<<"workspace", ":">> \o o.path, "folder", o))
    ELSE LET item == Item(<<"repository", ":">> \o Join(o.path, "/"), FileOrFolder(o), o)
         IN  IF o.kind = "repository" THEN item ELSE NotRoot(item)

(* A repository's id has at least a workspace and a name. *)
BitbucketAt(c, id) ==
    UNION {CASE p[1] = <<"workspace">>  -> {o \in c : o.kind = "workspace" /\ o.path = p[2]}
             [] p[1] = <<"repository">> -> {o \in c : Len(o.path) >= 2 /\ Join(o.path, "/") = p[2]}
             [] OTHER -> {} : p \in SplitOnce(id, ":")}

BitbucketInfo(c, id) == {BitbucketItem(o) : o \in BitbucketAt(c, id)}

BitbucketRoots(c) == {{BitbucketItem(o) : o \in {o \in c : o.kind = "workspace"}}}

(* The item type is looked at inside of a repository; a workspace holds repositories only. *)
BitbucketChildren(c, id, type) ==
    {IF o.kind = "workspace" THEN {BitbucketItem(x) : x \in Under(c, o.path)}
     ELSE OfType({BitbucketItem(x) : x \in Under(c, o.path)}, type) :
        o \in {o \in BitbucketAt(c, id) : o.kind # "file"}}

BitbucketWb(c, id) == {o \in BitbucketAt(c, id) : o.kind = "repository"}

(***************************************************************************)
(* S3 and Azure: "<bucket>:/<key>", where the key of a folder ends in "/". *)
(* The separator ":/" is one token.                                        *)
(***************************************************************************)
BlobKey(o) ==
    IF Len(o.path) <= 1 THEN <<>>
    ELSE Inner(o, 1) \o (IF o.kind = "file" THEN <<>> ELSE <<"/">>)

BlobItem(o) == Item(FirstNames(o, 1) \o <<":/">> \o BlobKey(o), FileOrFolder(o), o)

BlobAt(c, id) ==
    {o \in c \ Account(c) : <<FirstNames(o, 1), BlobKey(o)>> \in SplitOnce(id, ":/")}

S3Roots(c) == {{BlobItem(o) : o \in Under(c, <<>>)}}

(* A folder that holds one file and nothing else is taken for that file. *)
S3Info(c, id) ==
    UNION {LET inside == Under(c, o.path)
               found  == IF o.kind = "file" THEN {o} ELSE inside
           IN  IF o.kind = "bucket" THEN {[BlobItem(o) EXCEPT !.id = id]}
               ELSE IF \E x \in found : found = {x} /\ x.kind = "file"
               THEN {Item(BlobKey(x), "file", x) : x \in found}
               ELSE {Item(id, "folder", o) : x \in {x \in found : x.kind = "file"}} :
             o \in BlobAt(c, id)}

(* Only a key that is empty or ends in "/" is listed. *)
S3Children(c, id, type) ==
    {OfType({BlobItem(x) : x \in Under(c, o.path)}, type) :
        o \in {o \in BlobAt(c, id) : o.kind # "file"}}

S3Wb(c, id) == BlobAt(c, id)

AzureRoots(c) == {{BlobItem(o) : o \in Under(c, <<>>)}}

(* The answer of the service is not looked at: whatever has a path is a file.  (The code *)
(* says so even of what was deleted, which the model does not answer.)                   *)
AzureInfo(c, id) ==
    {IF Len(o.path) = 1 THEN Item(id, "folder", o) ELSE Item(id, "file", o) : o \in BlobAt(c, id)}

AzureChildren(c, id, type) ==
    {OfType({BlobItem(x) : x \in Under(c, o.path)}, type) :
        o \in {o \in BlobAt(c, id) : o.kind # "file"}}

AzureWb(c, id) == BlobAt(c, id)

(***************************************************************************)
(* ownCloud: "<type>:<path>", the root is "folder:/".                      *)
(***************************************************************************)
OwncloudPath(o) == IF o.path = <<>> THEN <<"/">> ELSE Join(o.path, "/")

OwncloudItem(o, path) == Item(<<FileOrFolder(o), ":">> \o path, FileOrFolder(o), o)

OwncloudParse(id) ==
    IF id = <<>> THEN {<<<<"folder">>, <<"/">>>>}
    ELSE {p \in SplitOnce(id, ":") : p[1] \in {<<"file">>, <<"folder">>}}

StripLeft(path) == IF path # <<>> /\ Head(path) = "/" THEN Tail(path) ELSE path

(* The path of the request, without a leading slash. *)
OwncloudAt(c, path) == {o \in c : StripLeft(OwncloudPath(o)) = StripLeft(path)}

OwncloudInfo(c, id) ==
    UNION {{OwncloudItem(o, p[2]) : o \in OwncloudAt(c, p[2])} : p \in OwncloudParse(id)}

OwncloudRoots(c) == {{OwncloudItem(o, <<"/">>) : o \in Account(c)}}

(* The service answers with the folder and what it holds; the folder is left out *)
(* when its path is written as the id writes it.                                 *)
OwncloudChildren(c, id, type) ==
    UNION {{OfType({OwncloudItem(x, OwncloudPath(x)) :
                      x \in {x \in {o} \cup Under(c, o.path) : OwncloudPath(x) # p[2]}}, type) :
              o \in OwncloudAt(c, p[2])} : p \in OwncloudParse(id)}

OwncloudWb(c, id) == UNION {OwncloudAt(c, p[2]) : p \in OwncloudParse(id)}

=====================================================================================
