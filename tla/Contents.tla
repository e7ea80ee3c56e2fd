---------------------------------- MODULE Contents ----------------------------------
(***************************************************************************)
(* What an account at a service may hold: of which kinds, what is in what, *)
(* and which keys the service does not give twice.  The implementations    *)
(* take this for granted; nothing in them checks it.                       *)
(***************************************************************************)
EXTENDS ItemIds, FiniteSets

(* A name is not one of the tokens that ids are joined with. *)
Names == STRING \ {":", "/", ":/", "%2F"}

Things == [oid: Nat, path: Seq(Names), kind: STRING, key: STRING, alias: STRING]

IsIn(x, o) == Len(x.path) = Len(o.path) + 1 /\ IsPrefix(o.path, x.path)

Tree(c) ==
    /\ IsFiniteSet(c)
    /\ c \subseteq Things
    /\ \A o, p \in c : o.oid = p.oid \/ o.path = p.path => o = p

OfKinds(c, kinds) == \A o \in c : o.kind \in kinds

(* A kind of item that is at this level of the tree and nowhere else. *)
AtLevel(c, kind, n) == \A o \in c : o.kind = kind <=> Len(o.path) = n

Alike(o, p) == {o.key, o.alias} \cap {p.key, p.alias} # {}

KeysDiffer(c) == \A o, p \in c : Alike(o, p) => o = p

KeysOfKindDiffer(c) == \A o, p \in c : o.kind = p.kind /\ Alike(o, p) => o = p

(* Everything but the account is in something that may hold it. *)
Placed(c, holds) ==
    \A x \in c : x.path # <<>> => \E o \in c : IsIn(x, o) /\ <<o.kind, x.kind>> \in holds

(* Everything is in a library, in which a key is given to one collection or document. *)
InLibraries(c) ==
    /\ AtLevel(c, "library", 1)
    /\ \A o \in c : o.path # <<>> => \E l \in c : l.kind = "library" /\ IsPrefix(l.path, o.path)
    /\ \A k, l \in c : k.kind = "library" /\ l.kind = "library" /\ k.key = l.key => k = l
    /\ \A l \in c : l.kind = "library" => KeysOfKindDiffer({o \in c : IsPrefix(l.path, o.path)})
    /\ \A o \in c : o.kind = "collection" => o.key \notin {"ROOT", "None"}

HasRepositories(c) ==
    /\ OfKinds(c, {"account", "workspace", "repository", "folder", "file"})
    /\ AtLevel(c, "account", 0)
    /\ AtLevel(c, "workspace", 1)

HasBuckets(c) ==
    OfKinds(c, {"account", "bucket", "folder", "file"}) /\ AtLevel(c, "account", 0) /\ AtLevel(c, "bucket", 1)

(* Dataverses and data sets have a page each; the alias of a dataverse is no number. *)
PagesDiffer(c) ==
    /\ \A o, p \in c : o.kind = p.kind /\ o.alias = p.alias /\ o.alias # NoAlias => o = p
    /\ \A o, p \in c : o.kind = "dataverse" /\ p.kind = "dataverse" /\ o.key = p.alias => o = p

WellFormed(s, c) ==
    /\ Tree(c)
    /\ CASE s = "box"         -> /\ OfKinds(c, {"file", "folder"})
                                 /\ KeysOfKindDiffer(c)
                                 /\ \A o \in c : o.path = <<>> => o.kind = "folder" /\ "0" \in {o.key, o.alias}
         [] s = "dropbox"     -> /\ OfKinds(c, {"file", "folder"})
                                 /\ KeysDiffer(c \ Account(c))
                                 /\ \A o \in c : o.key # "/"
                                 /\ \A o \in c : o.path = <<>> => o.kind = "folder"
         [] s \in {"googledrive", "onedrive"} -> OfKinds(c, {"file", "folder"}) /\ KeysDiffer(c)
         [] s = "figshare"    -> /\ AtLevel(c, "account", 0)
                                 /\ Placed(c, {<<"account", "project">>, <<"account", "article">>,
                                               <<"project", "article">>, <<"article", "file">>})
                                 /\ KeysOfKindDiffer(c)
         [] s = "dataverse"   -> /\ AtLevel(c, "account", 0)
                                 /\ Placed(c, {<<"account", "dataverse">>, <<"dataverse", "dataverse">>,
                                               <<"dataverse", "dataset">>, <<"dataset", "file">>})
                                 /\ KeysOfKindDiffer(c)
         [] s = "link"        -> /\ AtLevel(c, "account", 0)
                                 /\ OfKinds(c, {"account", "dataverse", "dataset", "file", "draft"})
                                 /\ \A o \in c : Len(o.path) = 1 => o.kind \in {"dataverse", "draft"}
                                 /\ PagesDiffer(c)
         [] s = "zotero"      -> /\ AtLevel(c, "account", 0)
                                 /\ OfKinds(c, {"account", "library", "collection", "document"})
                                 /\ InLibraries(c)
         [] s = "mendeley"    -> /\ OfKinds(c, {"collection", "document"})
                                 /\ KeysOfKindDiffer(c)
                                 /\ \A o \in c : o.path = <<>> => o.kind = "collection"
                                 /\ \A o \in c : o.key # "ROOT"
         [] s = "github"      -> /\ HasRepositories(c)
                                 /\ AtLevel(c, "repository", 2)
                                 /\ \A o \in c : Len(o.path) # 1
         [] s = "gitlab"      -> /\ HasRepositories(c)
                                 /\ \A p, q \in {p \in c : p.kind = "repository"} :
                                       IsPrefix(p.path, q.path) => p = q
         [] s = "bitbucket"   -> HasRepositories(c)
         [] s \in {"s3", "azure"} -> HasBuckets(c)
         [] s = "owncloud"    -> OfKinds(c, {"file", "folder"}) /\ \A o \in c : o.path = <<>> => o.kind = "folder"

=====================================================================================
