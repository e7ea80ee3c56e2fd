---------------------------------- MODULE MCBrowse ----------------------------------
EXTENDS Browse

O(oid, path, kind, key) == [oid |-> oid, path |-> path, kind |-> kind, key |-> key, alias |-> key]
A(oid, path, kind, key, alias) == [O(oid, path, kind, key) EXCEPT !.alias = alias]

(* A drive: a folder in a folder, a file in each, and a file with the key of a folder. *)
Drive(root, alias) ==
    {A(0, <<>>, "folder", root, alias), O(1, <<"a">>, "folder", "k1"), O(2, <<"a", "b">>, "folder", "k2"),
     O(3, <<"a", "f">>, "file", "k3"), O(4, <<"g">>, "file", "k4")}

Repositories ==
    {O(0, <<>>, "account", ""), O(1, <<"w", "r">>, "repository", ""), O(2, <<"w", "r", "a">>, "folder", ""),
     O(3, <<"w", "r", "a", "b">>, "folder", ""), O(4, <<"w", "r", "a", "b", "f">>, "file", ""),
     O(5, <<"w", "r", "g">>, "file", "")}

Buckets ==
    {O(0, <<>>, "account", ""), O(1, <<"c">>, "bucket", ""), O(2, <<"c", "a">>, "folder", ""),
     O(3, <<"c", "a", "f">>, "file", ""), O(4, <<"c", "g">>, "file", ""), O(5, <<"d">>, "bucket", "")}

Accounts ==
    [s \in AllImps |->
      CASE s = "box" -> (Drive("0", "0") \ {O(4, <<"g">>, "file", "k4")}) \cup {O(4, <<"g">>, "file", "k1")}
        [] s = "dropbox" -> Drive("", "")
        [] s \in {"googledrive", "onedrive"} -> Drive("k0", "root")
        [] s = "owncloud" -> Drive("", "")
        [] s = "github" ->
             Repositories \cup {O(6, <<"w", "r", "ab">>, "folder", ""), O(7, <<"w", "r", "ab", "g">>, "file", "")}
        [] s = "gitlab" -> Repositories \cup {O(6, <<"w", "s", "r">>, "repository", "")}
        [] s = "bitbucket" -> Repositories \cup {O(6, <<"w">>, "workspace", "")}
        [] s \in {"s3", "azure"} -> Buckets
        [] s = "figshare" ->
             {O(0, <<>>, "account", ""), O(1, <<"p">>, "project", "1"), O(2, <<"p", "x">>, "article", "2"),
              O(3, <<"y">>, "article", "1"), O(4, <<"p", "x", "f">>, "file", "1"), O(5, <<"y", "g">>, "file", "2")}
        [] s = "dataverse" ->
             {O(0, <<>>, "account", ""), O(1, <<"v">>, "dataverse", "1"), O(2, <<"v", "w">>, "dataverse", "2"),
              O(3, <<"v", "d">>, "dataset", "3"), O(4, <<"v", "d", "f">>, "file", "4")}
        [] s = "link" ->
             {O(0, <<>>, "account", ""), A(1, <<"v">>, "dataverse", "1", "va"),
              A(2, <<"v", "d">>, "dataset", "3", "doi3"), A(3, <<"v", "d", "f">>, "file", "4", "doi4"),
              A(4, <<"v", "e">>, "draft", "5", "doi5"), A(5, <<"v", "h">>, "dataset", "6", "doi6"),
              A(6, <<"v", "h", "g">>, "file", "7", "")}
        [] s = "zotero" ->
             {O(0, <<>>, "account", ""), O(1, <<"l">>, "library", "personal"), O(2, <<"l", "c">>, "collection", "c1"),
              O(3, <<"l", "c", "x">>, "document", "d1"), O(4, <<"m">>, "library", "9"),
              O(5, <<"m", "c">>, "collection", "c1"), O(7, <<"l", "c", "e">>, "collection", "c2"), O(6, <<"m", "y">>, "document", "d1"),
              O(8, <<"o">>, "library", "19")}
        [] s = "mendeley" ->
             {O(0, <<>>, "collection", ""), O(1, <<"a">>, "collection", "1"), O(2, <<"a", "b">>, "collection", "2"),
              O(3, <<"a", "x">>, "document", "1"), O(4, <<"y">>, "document", "3")}]
=====================================================================================
