------------------------------- MODULE Catalog --------------------------------
(***************************************************************************)
(* product-service: the tree of categories, the products (SPUs) that name  *)
(* them, the attributes bound to them, and the product groups.             *)
(*                                                                         *)
(* A request is one transaction at READ COMMITTED.  Only group items and   *)
(* attribute bindings have foreign keys; that a product's category or a    *)
(* category's parent exists is looked up, where it is, in a SELECT before  *)
(* the write.  Names, prices, brands and the SKUs, which refer to a product*)
(* nothing checks, are left out.                                           *)
(***************************************************************************)
EXTENDS Sequences, Integers

CONSTANTS
    Req,   \* handler slots
    Cat,   \* ids of product_category
    Spu,   \* ids of product_spu
    Group, \* ids of product_group
    Root,  \* parent_id 0
    MAX_CATEGORY_LEVEL,
    None

CatalogAssumption ==
    /\ Root \notin Cat /\ None \notin Cat \cup {Root} /\ MAX_CATEGORY_LEVEL \in Nat \ {0}
    /\ None \notin [category_id : Cat, status : {"DRAFT", "ONLINE", "OFFLINE"}]

VARIABLES
    cat,   \* product_category: a row, None before and after it
    used,  \* history: the ids that were given to a category
    spu,   \* product_spu: a row, or None
    group, \* product_group
    item,  \* product_group_item
    bound, \* the categories that product_category_attribute names
    req    \* where each handler stands

vars == <<cat, used, spu, group, item, bound, req>>

Categories == {c \in Cat : cat[c] # None}

Products == {s \in Spu : spu[s] # None}

Category == [parent_id : Cat \cup {Root}, level : 1..MAX_CATEGORY_LEVEL, path : Seq(Cat)]

GroupItem == Group \X Products

Product == [category_id : Cat, status : {"DRAFT", "ONLINE", "OFFLINE"}]

Handler ==
    [pc : {"idle", "insert", "count", "delete", "move", "item", "bind", "drop"},
     cat : Cat \cup {None},     \* the category it is about
     row : Category \cup {None},
     spu : Spu \cup {None}, group : Group \cup {None},
     items : SUBSET Spu,        \* of the group, as they were read
     overlap : BOOLEAN]         \* a product came to the category after the count

Idle == [pc |-> "idle", cat |-> None, row |-> None, spu |-> None, group |-> None, items |-> {}, overlap |-> FALSE]

TypeOK ==
    /\ cat \in [Cat -> Category \cup {None}] /\ Categories \subseteq used /\ used \subseteq Cat
    /\ spu \in [Spu -> Product \cup {None}]
    /\ group \subseteq Group /\ item \subseteq GroupItem /\ \A l \in item : l[1] \in group
    /\ bound \subseteq Categories
    /\ req \in [Req -> Handler]

Init ==
    /\ cat = [c \in Cat |-> None] /\ used = {}
    /\ spu = [s \in Spu |-> None]
    /\ group = {} /\ item = {} /\ bound = {}
    /\ req = [q \in Req |-> Idle]

Goto(q, h) == req' = [req EXCEPT ![q] = h]

Read(q, h) == req[q].pc = "idle" /\ Goto(q, h) /\ UNCHANGED <<cat, used, spu, group, item, bound>>

----------------------------------------------------------------------------
(* Categories.                                                             *)

RootRow == [parent_id |-> Root, level |-> 1, path |-> <<>>]

\* Mutant of LevelExceeded: one level more.
LevelExceeded_Late(p) == cat[p].level > MAX_CATEGORY_LEVEL

LevelExceeded(p) == cat[p].level >= MAX_CATEGORY_LEVEL

\* Level and path are the parent's as it is read, one step further.
ChildRow(p) == [parent_id |-> p, level |-> cat[p].level + 1, path |-> Append(cat[p].path, p)]

\* create_category: the parent is read, if there is one.
BeginCategory(q, c) ==
    /\ c \notin used /\ \A r \in Req : req[r].pc = "insert" => req[r].cat # c
    /\ \/ Read(q, [Idle EXCEPT !.pc = "insert", !.cat = c, !.row = RootRow])
       \/ \E p \in Categories : ~LevelExceeded(p) /\ Read(q, [Idle EXCEPT !.pc = "insert", !.cat = c, !.row = ChildRow(p)])

InsertCategory(q) ==
    /\ req[q].pc = "insert"
    /\ cat' = [cat EXCEPT ![req[q].cat] = req[q].row] /\ used' = used \cup {req[q].cat}
    /\ Goto(q, Idle)
    /\ UNCHANGED <<spu, group, item, bound>>

\* delete_category: the row, then the products that name it; its children are not looked at.
BeginDelete(q, c) == c \in Categories /\ Read(q, [Idle EXCEPT !.pc = "count", !.cat = c])

\* Mutant of InUse: only products on sale count.
InUse_Online(c) == \E s \in Products : spu[s].category_id = c /\ spu[s].status = "ONLINE"

InUse(c) == \E s \in Products : spu[s].category_id = c

CountProducts(q) ==
    /\ req[q].pc = "count" /\ ~InUse(req[q].cat)
    /\ Goto(q, [req[q] EXCEPT !.pc = "delete"])
    /\ UNCHANGED <<cat, used, spu, group, item, bound>>

\* The foreign key of the bindings refuses a category with attributes.
DeleteCategory(q) ==
    LET c == req[q].cat IN
    /\ req[q].pc = "delete" /\ c \in Categories /\ c \notin bound
    /\ cat' = [cat EXCEPT ![c] = None]
    /\ Goto(q, Idle)
    /\ UNCHANGED <<used, spu, group, item, bound>>

\* bind_category_attribute: category and binding are read; a second binding is the first.
BeginBind(q, c) == c \in Categories \ bound /\ Read(q, [Idle EXCEPT !.pc = "bind", !.cat = c])

Bind(q) ==
    /\ req[q].pc = "bind" /\ req[q].cat \in Categories \ bound
    /\ bound' = bound \cup {req[q].cat}
    /\ Goto(q, Idle)
    /\ UNCHANGED <<cat, used, spu, group, item>>

----------------------------------------------------------------------------
(* Products.                                                               *)

\* Product s comes to category c: the deletions that have counted are too early.
Placed(s, row, done) ==
    /\ spu' = [spu EXCEPT ![s] = row]
    /\ req' = [r \in Req |-> IF r \in done THEN Idle
                             ELSE IF req[r].pc = "delete" /\ req[r].cat = row.category_id
                             THEN [req[r] EXCEPT !.overlap = TRUE] ELSE req[r]]
    /\ UNCHANGED <<cat, used, group, item, bound>>

\* create_spu: the category is not looked up, the status is the caller's.
CreateSpu(s, c, status) == spu[s] = None /\ Placed(s, [category_id |-> c, status |-> status], {})

\* update_spu, of the category
BeginMove(q, s, c) == s \in Products /\ Read(q, [Idle EXCEPT !.pc = "move", !.spu = s, !.cat = c])

MoveSpu(q) ==
    /\ req[q].pc = "move"
    /\ Placed(req[q].spu, [spu[req[q].spu] EXCEPT !.category_id = req[q].cat], {q})

\* publish_spu and unpublish_spu, whatever the status was
SetStatus(s, status) ==
    /\ s \in Products
    /\ spu' = [spu EXCEPT ![s].status = status]
    /\ UNCHANGED <<cat, used, group, item, bound, req>>

----------------------------------------------------------------------------
(* Groups.                                                                 *)

CreateGroup(g) ==
    /\ g \notin group /\ group' = group \cup {g}
    /\ UNCHANGED <<cat, used, spu, item, bound, req>>

\* add_group_product: group, product and item are looked up.
BeginItem(q, g, s) ==
    g \in group /\ s \in Products /\ <<g, s>> \notin item /\ Read(q, [Idle EXCEPT !.pc = "item", !.group = g, !.spu = s])

\* The keys of product_group_item refuse a second row, or one of a group that is gone.
InsertItem(q) ==
    LET h == req[q] IN
    /\ h.pc = "item" /\ h.group \in group /\ <<h.group, h.spu>> \notin item
    /\ item' = item \cup {<<h.group, h.spu>>}
    /\ Goto(q, Idle)
    /\ UNCHANGED <<cat, used, spu, group, bound>>

RemoveItem(g, s) ==
    /\ <<g, s>> \in item /\ item' = item \ {<<g, s>>}
    /\ UNCHANGED <<cat, used, spu, group, bound, req>>

\* delete_group: the group and its items as they are read
BeginDrop(q, g) ==
    g \in group /\ Read(q, [Idle EXCEPT !.pc = "drop", !.group = g, !.items = {s \in Spu : <<g, s>> \in item}])

\* An item that was added meanwhile keeps the group; one that was removed is an error.
DeleteGroup(q) ==
    LET h == req[q] IN
    /\ h.pc = "drop" /\ h.group \in group /\ {s \in Spu : <<h.group, s>> \in item} = h.items
    /\ item' = item \ ({h.group} \X h.items) /\ group' = group \ {h.group}
    /\ Goto(q, Idle)
    /\ UNCHANGED <<cat, used, spu, bound>>

\* A refusal, a conflict or an error, and a ROLLBACK.
Fail(q) == req[q].pc # "idle" /\ Goto(q, Idle) /\ UNCHANGED <<cat, used, spu, group, item, bound>>

Next ==
    \/ \E q \in Req :
         \/ \E c \in Cat : BeginCategory(q, c) \/ BeginDelete(q, c) \/ BeginBind(q, c)
         \/ InsertCategory(q) \/ CountProducts(q) \/ DeleteCategory(q) \/ Bind(q)
         \/ \E s \in Spu, c \in Cat : BeginMove(q, s, c)
         \/ MoveSpu(q)
         \/ \E g \in Group : BeginDrop(q, g) \/ \E s \in Spu : BeginItem(q, g, s)
         \/ InsertItem(q) \/ DeleteGroup(q) \/ Fail(q)
    \/ \E s \in Spu : \/ \E c \in Cat, status \in {"DRAFT", "ONLINE", "OFFLINE"} : CreateSpu(s, c, status)
                      \/ SetStatus(s, "ONLINE") \/ SetStatus(s, "OFFLINE")
    \/ \E g \in Group : CreateGroup(g) \/ \E s \in Spu : RemoveItem(g, s)

Spec == Init /\ [][Next]_vars

----------------------------------------------------------------------------
(* Properties.                                                             *)

\* create_category: a category's path is its parents, root first, as far as they
\* still exist, none of them itself; so the tree has no cycle and three levels,
\* although parents are read before the insert and may be deleted meanwhile.
TreeSound ==
    \A c \in Categories :
        LET row == cat[c] IN
        /\ Len(row.path) = row.level - 1 /\ row.level <= MAX_CATEGORY_LEVEL
        /\ \A i \in DOMAIN row.path : row.path[i] # c
        /\ row.parent_id = IF row.path = <<>> THEN Root ELSE row.path[Len(row.path)]
        /\ \A i \in DOMAIN row.path : row.path[i] \in Categories => cat[row.path[i]].path = SubSeq(row.path, 1, i - 1)

\* delete_category removes a category with products only if one came to it between
\* the count and the DELETE.
LeavesNoProduct ==
    \A c \in Cat : cat[c] # None /\ cat'[c] = None /\ InUse(c) => \E q \in Req : req[q].cat = c /\ req[q].overlap

NoProductLeft == [][LeavesNoProduct]_vars
=============================================================================
