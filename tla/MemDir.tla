-------------------------------- MODULE MemDir ------------------------------
(***************************************************************************)
(* The directory tree of the memory filesystem (src/fsmem.c): nodes linked  *)
(* in lists, the open nodes (struct fs_node) that programs hold on them,    *)
(* and listing a directory while others create and remove its entries.      *)
(*                                                                          *)
(* Removed nodes are never freed, so a node is never reused; the fs_node    *)
(* that close frees may be the next one calloc returns.                     *)
(***************************************************************************)
EXTENDS Integers, Sequences, FiniteSets

CONSTANTS
  MaxNode,   (* bound: memfs_nodes ever allocated                           *)
  MaxTaken,  (* bound: nodes renamed to names that are taken                *)
  Names,     (* names of entries                                            *)
  Paths,     (* the absolute paths programs use: sequences of components    *)
  Handles    (* bound: the fs_nodes open at a time                          *)

ASSUME MemDirAssumption ==
  /\ MaxNode \in Nat \ {0} /\ MaxTaken \in Nat
  /\ \A p \in Paths : p \in Seq(Names \cup {".", ".."})

NULL == 0
Root == 1
Nodes == 1 .. MaxNode
NotOpen == [node |-> NULL, cur |-> NULL]

VARIABLES
  type,      (* of each node: FSNODE_FILE or FSNODE_DIR, "unused" before    *)
             (* alloc_node                                                  *)
  name, parent, next, clist, ctail,
  taken,     (* history: the entries rename gave a name that an entry of    *)
             (* their directory had                                         *)
  open_,     (* the fs_nodes: the node they are on and odir's cur           *)
  fsnode,    (* each node's pointer to the fs_node opened on it first       *)
  owed       (* history: the entries that were in the directory when the    *)
             (* listing began, still are, and have not been given           *)

tree == << type, name, taken, parent, next, clist, ctail >>
treeVars == << tree, open_, fsnode, owed >>

-----------------------------------------------------------------------------
(* The list of a directory's entries, from a node on *)
ListFrom(n) ==
  LET at[k \in 1 .. MaxNode] ==
        IF k = 1 THEN n ELSE IF at[k - 1] = NULL THEN NULL ELSE next[at[k - 1]]
      len == Cardinality({ k \in 1 .. MaxNode : at[k] # NULL })
  IN  [k \in 1 .. len |-> at[k]]
Children(d) == ListFrom(clist[d])
Members(list) == { list[k] : k \in DOMAIN list }

find_entry(d, nm) ==
  LET list == Children(d)
      hits == { k \in DOMAIN list : name[list[k]] = nm }
  IN  CASE nm = "."  -> d
        [] nm = ".." -> parent[d]
        [] OTHER     -> IF hits = {} THEN NULL
                        ELSE list[CHOOSE k \in hits : \A j \in hits : k <= j]

(* open follows the path's first k components; NULL when one is missing or  *)
(* is not a directory.                                                      *)
Lookup(path, k) ==
  LET at[j \in 0 .. k] ==
        IF j = 0 THEN Root
        ELSE IF at[j - 1] = NULL THEN NULL
        ELSE IF type[at[j - 1]] # "dir" THEN NULL
        ELSE find_entry(at[j - 1], path[j])
  IN  at[k]

Unallocated == { n \in Nodes : type[n] = "unused" }
NewNode == CHOOSE n \in Unallocated : \A m \in Unallocated : n <= m

(* An fs_node on node n: its listing begins now *)
create_fsnode(h, n, first) ==
  /\ open_' = [open_ EXCEPT ![h] = [node |-> n, cur |-> first]]
  /\ fsnode' = IF fsnode[n] = NULL THEN [fsnode EXCEPT ![n] = h] ELSE fsnode
  /\ owed' = [owed EXCEPT ![h] = IF type[n] = "dir" THEN Members(Children(n)) ELSE {}]

(* add_child, for a new node *)
BugForgetTail(d, n) ==
  IF clist[d] # NULL
  THEN /\ next' = [next EXCEPT ![ctail[d]] = n]
       /\ UNCHANGED << clist, ctail >>
  ELSE /\ clist' = [clist EXCEPT ![d] = n] /\ ctail' = [ctail EXCEPT ![d] = n]
       /\ UNCHANGED next
add_child(d, n) ==
  IF clist[d] # NULL
  THEN /\ next' = [next EXCEPT ![ctail[d]] = n]
       /\ ctail' = [ctail EXCEPT ![d] = n]
       /\ UNCHANGED clist
  ELSE /\ clist' = [clist EXCEPT ![d] = n] /\ ctail' = [ctail EXCEPT ![d] = n]
       /\ UNCHANGED next

-----------------------------------------------------------------------------
TreeInit ==
  /\ type = [n \in Nodes |-> IF n = Root THEN "dir" ELSE "unused"]
  /\ name = [n \in Nodes |-> ""] /\ taken = {}
  /\ parent = [n \in Nodes |-> NULL] /\ next = [n \in Nodes |-> NULL]
  /\ clist = [n \in Nodes |-> NULL] /\ ctail = [n \in Nodes |-> NULL]
  /\ open_ = [h \in Handles |-> NotOpen]
  /\ fsnode = [n \in Nodes |-> NULL]
  /\ owed = [h \in Handles |-> {}]

(* open, of what is there *)
open(h, path) ==
  /\ open_[h] = NotOpen
  /\ LET n == Lookup(path, Len(path)) IN
       /\ n # NULL
       /\ create_fsnode(h, n, clist[n])
       /\ UNCHANGED tree

(* open with FSO_CREATE, and FSO_DIR for mkdir, of what is not there *)
create(h, path, ty) ==
  /\ open_[h] = NotOpen
  /\ path # << >> /\ Unallocated # {}
  /\ LET d == Lookup(path, Len(path) - 1)
         n == NewNode
     IN  /\ d # NULL /\ type[d] = "dir"
         /\ find_entry(d, path[Len(path)]) = NULL
         /\ type' = [type EXCEPT ![n] = ty]
         /\ name' = [name EXCEPT ![n] = path[Len(path)]]
         /\ parent' = [parent EXCEPT ![n] = d]
         /\ add_child(d, n)
         /\ create_fsnode(h, n, NULL)
  /\ UNCHANGED taken

(* close frees the fs_node and leaves the node's pointer to it *)
close(h) ==
  /\ open_[h] # NotOpen
  /\ open_' = [open_ EXCEPT ![h] = NotOpen]
  /\ owed' = [owed EXCEPT ![h] = {}]
  /\ UNCHANGED << tree, fsnode >>

rewinddir(h) ==
  /\ open_[h] # NotOpen
  /\ LET d == open_[h].node IN
       /\ type[d] = "dir"
       /\ open_' = [open_ EXCEPT ![h].cur = clist[d]]
       /\ owed' = [owed EXCEPT ![h] = Members(Children(d))]
  /\ UNCHANGED << tree, fsnode >>

readdir(h) ==
  /\ open_[h] # NotOpen /\ open_[h].cur # NULL
  /\ type[open_[h].node] = "dir"
  /\ open_' = [open_ EXCEPT ![h].cur = next[@]]
  /\ owed' = [owed EXCEPT ![h] = @ \ {open_[h].cur}]
  /\ UNCHANGED << tree, fsnode >>

(* the entries before n in its directory's list, and the last of them       *)
Before(list, n) == { k \in DOMAIN list : k + 1 \in DOMAIN list /\ list[k + 1] = n }
PrevOf(list, n) == IF Before(list, n) = {} THEN NULL ELSE list[CHOOSE k \in Before(list, n) : TRUE]

BugFreeNode(h) ==
  LET n == open_[h].node
      d == parent[n]
      prev == PrevOf(Children(d), n)
  IN  /\ open_[h] # NotOpen
      /\ d # NULL /\ n \in Members(Children(d))
      /\ type[n] = "dir" => clist[n] = NULL
      /\ clist' = IF prev = NULL THEN [clist EXCEPT ![d] = next[n]] ELSE clist
      /\ next' = IF prev # NULL THEN [next EXCEPT ![prev] = next[n], ![n] = NULL]
                 ELSE [next EXCEPT ![n] = NULL]
      /\ ctail' = IF ctail[d] = n /\ prev # NULL THEN [ctail EXCEPT ![d] = prev] ELSE ctail
      /\ owed' = [g \in Handles |-> owed[g] \ {n}] /\ taken' = taken \ {n}
      /\ UNCHANGED << type, name, parent, open_, fsnode >>
(* remove of a directory with entries, of the root, or of what has been     *)
(* removed before fails.  When the list becomes empty the code makes ctail  *)
(* point to a local variable, which add_child does not read then.           *)
remove_(h) ==
  LET n == open_[h].node
      d == parent[n]
      prev == PrevOf(Children(d), n)
  IN  /\ open_[h] # NotOpen
      /\ d # NULL /\ n \in Members(Children(d))
      /\ type[n] = "dir" => clist[n] = NULL
      /\ clist' = IF prev = NULL THEN [clist EXCEPT ![d] = next[n]] ELSE clist
      /\ next' = IF prev # NULL THEN [next EXCEPT ![prev] = next[n]] ELSE next
      /\ ctail' = IF ctail[d] = n /\ prev # NULL THEN [ctail EXCEPT ![d] = prev] ELSE ctail
      /\ owed' = [g \in Handles |-> owed[g] \ {n}] /\ taken' = taken \ {n}
      /\ UNCHANGED << type, name, parent, open_, fsnode >>

(* rename does not look whether the name is taken.  (The root's name, which *)
(* it writes as well, nothing reads.)                                       *)
rename(h, nm) ==
  LET n == open_[h].node
  IN  /\ open_[h] # NotOpen
      /\ name' = IF n = Root THEN name ELSE [name EXCEPT ![n] = nm]
      /\ taken' = IF n # Root /\ n \in Members(Children(parent[n])) /\ find_entry(parent[n], nm) # NULL
                  THEN taken \cup {n} ELSE taken \ {n}
      /\ Cardinality(taken') <= MaxTaken
      /\ UNCHANGED << type, parent, next, clist, ctail, open_, fsnode, owed >>

TreeNext ==
  \E h \in Handles :
    \/ \E p \in Paths : open(h, p) \/ create(h, p, "dir") \/ create(h, p, "file")
    \/ close(h) \/ rewinddir(h) \/ readdir(h) \/ remove_(h)
    \/ \E nm \in Names : rename(h, nm)

TreeSpec == TreeInit /\ [][TreeNext]_treeVars

-----------------------------------------------------------------------------
Allocated == Nodes \ Unallocated

TreeTypeOK ==
  /\ type \in [Nodes -> {"unused", "dir", "file"}]
  /\ name \in [Nodes -> Names \cup {"", ".."}]
  /\ \A f \in {parent, next, clist, ctail} : f \in [Nodes -> Nodes \cup {NULL}]
  /\ \A n \in Unallocated : parent[n] = NULL /\ next[n] = NULL
  /\ \A h \in Handles :
       /\ open_[h].node \in Allocated \cup {NULL}
       /\ open_[h].cur # NULL => parent[open_[h].cur] = open_[h].node
  /\ fsnode \in [Nodes -> Handles \cup {NULL}]

Same(n, m) == n # m /\ name[n] = name[m]

(* The lists make a tree, after any creations, renames and removals: an     *)
(* entry is in the list of its parent only, no list runs in a circle, and   *)
(* ctail is the last entry, where add_child appends.  Two entries of one    *)
(* directory have the same name only where rename gave it to one of them    *)
(* when it was taken, or where ".." was created in the root.                *)
TreeOK ==
  /\ TreeTypeOK
  /\ \A d \in Allocated :
       LET list == Children(d) IN
         /\ \A i, j \in DOMAIN list : list[i] = list[j] => i = j
         /\ \A n, m \in Members(list) :
              Same(n, m) => n \in taken \/ m \in taken \/ (d = Root /\ name[n] = "..")
         /\ \A n \in Members(list) : parent[n] = d /\ type[n] # "unused"
         /\ list # << >> => type[d] = "dir" /\ ctail[d] = list[Len(list)]

(* "." and ".." apart, an entry of a directory is found by its name *)
NamesFind ==
  \A d \in Allocated : \A n \in Members(Children(d)) :
    name[n] # ".." => find_entry(d, name[n]) = n

(* Listing a directory gives every entry that stays in it all the while,    *)
(* whatever is created and removed meanwhile, the entry the listing stands  *)
(* at included.                                                             *)
ListingComplete ==
  \A h \in Handles :
    owed[h] \subseteq Members(ListFrom(open_[h].cur))

(* A node's fsnode, which "we need for crossing mounts in fs_open"          *)
(* (fsmem.c:67), is an open fs_node of that node.                           *)
FsnodeIsOpen ==
  \A n \in Allocated : fsnode[n] # NULL => open_[fsnode[n]].node = n
=============================================================================
