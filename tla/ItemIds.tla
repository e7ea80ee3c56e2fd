---------------------------------- MODULE ItemIds ----------------------------------
(***************************************************************************)
(* What the addon implementations share: the items of an external service, *)
(* the results that an implementation gives for them and the ids in those  *)
(* results.                                                                *)
(*                                                                         *)
(* An id is a sequence of tokens: names, keys and separators, so that      *)
(* joining and splitting ids is what the code does to strings.  An item of *)
(* the service is a record: "oid" tells it from every other item (no code  *)
(* sees it), "path" are the names that lead to it from the root of the     *)
(* account, "kind" is what the service calls it, "key" is the id the       *)
(* service gives it and "alias" another name the service knows it by.      *)
(*                                                                         *)
(* An operation is the set of the answers that it may give: empty where    *)
(* the code raises or answers nothing, with several members where it takes *)
(* the first of a list that the service orders.                            *)
(***************************************************************************)
EXTENDS Naturals, Sequences, SequencesExt

Item(id, type, o) ==
    [id |-> id, type |-> type, root |-> type \in {"folder", "collection"}, of |-> o.oid]

NotRoot(item) == [item EXCEPT !.root = FALSE]

OfType(items, type) == {i \in items : type \in {"any", i.type}}

(* What Python's split(t, maxsplit=1) makes of an id that has the token t. *)
SplitOnce(id, t) ==
    {<<SubSeq(id, 1, i - 1), SubSeq(id, i + 1, Len(id))>> :
        i \in {k \in DOMAIN id : id[k] = t /\ \A j \in 1..(k - 1) : id[j] # t}}

(* The names, and the separator between any two of them. *)
Join(names, sep) ==
    [k \in 1..(2 * Len(names) - 1) |-> IF k % 2 = 1 THEN names[(k + 1) \div 2] ELSE sep]

(* The names of an item below the first n of its path, as part of a url. *)
Inner(o, n) == Join(SubSeq(o.path, n + 1, Len(o.path)), "/")

At(c, path) == {o \in c : o.path = path}

Under(c, path) == {o \in c : Len(o.path) = Len(path) + 1 /\ IsPrefix(path, o.path)}

Below(c, path) == {o \in c : IsStrictPrefix(path, o.path)}

Account(c) == At(c, <<>>)

(* The service's lookup by key: the items of one of these kinds. *)
Keyed(c, kinds, key) == {o \in c : o.kind \in kinds /\ key \in {<<o.key>>, <<o.alias>>}}

(* An alias that the service did not give. *)
NoAlias == ""

FileOrFolder(o) == IF o.kind = "file" THEN "file" ELSE "folder"

=====================================================================================
