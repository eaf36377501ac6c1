--------------------------------- MODULE Vfs ---------------------------------
(***************************************************************************)
(* The virtual file system (src/fs/vfs.c) with the path name cache         *)
(* (src/fs/pathncache.c), path handling (src/std/pathn.c) and the ramfs    *)
(* (src/fs/ramfs.c).                                                       *)
(*                                                                         *)
(* A vnode belongs to exactly one cache entry, so an entry's record holds  *)
(* the vnode's fields; the tree of an entry maps a key to the first of the *)
(* chain of entries with that key (RbTree justifies this).  A path is the  *)
(* sequence of its sections (split_path).  A handle is a cache entry; its  *)
(* fs is always the vnode's.  Allocation of memory does not fail.          *)
(***************************************************************************)
EXTENDS Naturals, Sequences

CONSTANTS
    Hash(_),        \* pathn_hash, of path sections
    Key,            \* the values of Hash
    Content,        \* what can be written to a file
    MaxEntry,       \* bound: cache entries and files
    MaxFs,          \* bound: file systems
    FreeNames,      \* the sections callers use after start-up
    TypeOf(_),      \* ... and the type they create them with
    FreeFiles       \* bound: files after start-up

Entry == 1 .. MaxEntry
NULL == 0
NoEntry == [name |-> NULL]      \* memory that is not an entry

VARIABLES
    pnc,        \* struct pnc_entry with its vnode, by address
    file,       \* struct ramdisk_file, a sequence
    fs,         \* struct vfs_fs, a sequence; fs[1] is root_fs
    step, hnd,  \* vfs_init: its position and its handles
    tree        \* history: what absolute paths denote
vars == <<pnc, file, fs, step, hnd, tree>>

-----------------------------------------------------------------------------
(* The path name cache, on a map P of entries. *)

FreeEntry(P) == CHOOSE e \in Entry : P[e] = NoEntry /\ \A x \in 1 .. e - 1 : P[x] # NoEntry

\* new_pnc_entry with the vnode v.
NewEntry(v, parent, name) ==
    [name |-> name, parent |-> parent, next |-> NULL, prev |-> NULL,
     tree |-> [k \in Key |-> NULL], type |-> v.type, fs |-> v.fs, file |-> v.file,
     root |-> v.root, mounted |-> NULL]

RECURSIVE ChainFind(_, _, _)
ChainFind(P, e, name) ==
    IF e = NULL \/ P[e].name = name THEN e ELSE ChainFind(P, P[e].next, name)

\* Mutant: names with the same hash are taken for equal.
LookupSection_KeyOnly(P, dir, name) == P[dir].tree[Hash(name)]

\* pnc_lookup_section
LookupSection(P, dir, name) == ChainFind(P, P[dir].tree[Hash(name)], name)

\* Mutant: the second entry of a chain is not linked back to the new one.
AddSection_OneWay(P, v, dir, name) ==
    LET exists == LookupSection(P, dir, name)
        new    == FreeEntry(P)
        dup    == P[dir].tree[Hash(name)]
        P1     == [P EXCEPT ![new] = NewEntry(v, dir, name)]
    IN  IF exists # NULL THEN [P |-> P, e |-> exists]
        ELSE IF dup = NULL THEN [e |-> new, P |-> [P1 EXCEPT ![dir].tree[Hash(name)] = new]]
        ELSE [e |-> new, P |-> [P1 EXCEPT ![new].prev = dup, ![new].next = P[dup].next,
                                          ![dup].next = new]]

\* pnc_add_section: an equal name returns its entry; an equal key puts the
\* new entry behind the first of the chain.
AddSection(P, v, dir, name) ==
    LET exists == LookupSection(P, dir, name)
        new    == FreeEntry(P)
        dup    == P[dir].tree[Hash(name)]
        P1     == [P EXCEPT ![new] = NewEntry(v, dir, name)]
        second == P[dup].next
        P2     == [P1 EXCEPT ![new].prev = dup, ![new].next = second, ![dup].next = new]
    IN  IF exists # NULL THEN [P |-> P, e |-> exists]
        ELSE IF dup = NULL THEN [e |-> new, P |-> [P1 EXCEPT ![dir].tree[Hash(name)] = new]]
        ELSE [e |-> new, P |-> IF second = NULL THEN P2 ELSE [P2 EXCEPT ![second].prev = new]]

\* pnc_evict_section, with tree_set_data_at for the first of a chain.
EvictSection(P, e) ==
    LET dir  == P[e].parent
        key  == Hash(P[e].name)
        next == P[e].next
        prev == P[e].prev
        P1   == IF prev = NULL THEN [P EXCEPT ![dir].tree[key] = next]
                               ELSE [P EXCEPT ![prev].next = next]
        P2   == IF next = NULL THEN P1 ELSE [P1 EXCEPT ![next].prev = prev]
    IN  [P2 EXCEPT ![e] = NoEntry]

-----------------------------------------------------------------------------
(* ramfs *)

NewFile(type, name) == [type |-> type, name |-> name, sub |-> <<>>, data |-> "empty"]

\* ramfs_vn_lookup: the first file of that name in the directory's list.
VnLookup(F, dir, name) ==
    IF F[dir].type # "RAMD_DIR" \/ \A j \in DOMAIN F[dir].sub : F[F[dir].sub[j]].name # name
    THEN NULL
    ELSE F[dir].sub[CHOOSE j \in DOMAIN F[dir].sub :
             /\ F[F[dir].sub[j]].name = name
             /\ \A m \in 1 .. j - 1 : F[F[dir].sub[m]].name # name]

\* The cast of enum ramdisk_file_type to enum vfs_vnode_type: 0 and 1.
CastType(t) == IF t = "RAMD_DIR" THEN "VFS_VN_NON" ELSE "VFS_VN_REG"

Vnode(type, f, fil, root) == [type |-> type, fs |-> f, file |-> fil, root |-> root]

\* rd_new_ramdisk, ramfs_new_fs and ramfs_root: the root directory of a new
\* disk, the file system on it and its root vnode.
NewDisk == NewFile("RAMD_DIR", "/")
NewFs(root_pnc, covered) == [root_pnc |-> root_pnc, covered |-> covered]
RootVnode(f, fil) == Vnode("VFS_VN_DIR", f, fil, TRUE)

-----------------------------------------------------------------------------
(* vfs.c *)

\* Follow v_vfs_mounted_here.
RECURSIVE Cross(_, _, _)
Cross(P, S, e) == IF P[e].mounted = NULL THEN e ELSE Cross(P, S, S[P[e].mounted].root_pnc)

\* One section of a path: the cached entry, else what the file system
\* finds, which is cached at once.
Section(F, S, st, name) ==
    LET last  == Cross(st.P, S, st.e)
        found == LookupSection(st.P, last, name)
        f     == VnLookup(F, st.P[last].file, name)
    IN  IF found # NULL THEN [st EXCEPT !.e = found]
        ELSE IF f = NULL THEN [st EXCEPT !.e = NULL]
        ELSE AddSection(st.P, Vnode(CastType(F[f].type), st.P[last].fs, f, FALSE), last, name)

RECURSIVE Walk(_, _, _, _)
Walk(F, S, st, path) ==
    IF st.e = NULL \/ path = <<>> THEN st
    ELSE Walk(F, S, Section(F, S, st, Head(path)), Tail(path))

\* vfs_lookup: the cache it leaves and the entry, NULL on failure.  A path
\* that ends in a slash must be a directory, and else sets no result.
VfsLookup(P, F, S, start, path, slash) ==
    LET r == Walk(F, S, [P |-> P, e |-> Cross(P, S, start)], path)
    IN  [P |-> r.P,
         e |-> IF r.e # NULL /\ slash /\ r.P[r.e].type # "VFS_VN_DIR" THEN NULL ELSE r.e,
         sets |-> r.e = NULL \/ (slash => r.P[r.e].type = "VFS_VN_DIR")]

Root == fs[1].root_pnc

\* vfs_rdwr and ramfs_vn_rdwr: what a read returns.
VfsRead(P, F, e) == F[P[e].file].data

\* What an absolute path denotes.
Denotes(P, F, S, p) ==
    LET r == VfsLookup(P, F, S, S[1].root_pnc, p, FALSE) IN
    IF r.e = NULL THEN "none"
    ELSE IF F[r.P[r.e].file].type = "RAMD_DIR" THEN "dir" ELSE VfsRead(r.P, F, r.e)

Paths == UNION {[1 .. n -> FreeNames] : n \in 0 .. 2}

\* The state after a call.
Becomes(P, F, S) ==
    /\ pnc' = P /\ file' = F /\ fs' = S
    /\ tree' = [p \in Paths |-> Denotes(P, F, S, p)]

\* vfs_mount_root with a new ramdisk, the first act of vfs_init.
Init ==
    /\ file = <<NewDisk>>
    /\ fs = <<NewFs(1, NULL)>>
    /\ pnc = [e \in Entry |-> IF e = 1 THEN NewEntry(RootVnode(1, 1), NULL, "/")
                                        ELSE NoEntry]
    /\ tree = [p \in Paths |-> Denotes(pnc, file, fs, p)]
    /\ hnd = [v \in {"dest", "out", "hnd", "mountpoint"} |-> 1]
    /\ step \in {0, 1}         \* 0: the calls of others, without the self-test

\* Mutant: the vnode of a new file gets its type as in ramfs_vn_lookup.
VfsCreate_CastType(P, F, dir, name, type) ==
    LET new == Len(F) + 1
        F1  == Append([F EXCEPT ![P[dir].file].sub = <<new>> \o @],
                      NewFile(IF type = "VFS_VN_DIR" THEN "RAMD_DIR" ELSE "RAMD_FILE", name))
        r   == AddSection(P, Vnode(CastType(F1[new].type), P[dir].fs, new, FALSE), dir, name)
    IN  [P |-> r.P, F |-> F1, e |-> r.e]

\* vfs_create with ramfs_vn_create and rd_create_file: the new file is put at
\* the front of the directory's list.
VfsCreate(P, F, dir, name, type) ==
    LET new == Len(F) + 1
        F1  == Append([F EXCEPT ![P[dir].file].sub = <<new>> \o @],
                      NewFile(IF type = "VFS_VN_DIR" THEN "RAMD_DIR" ELSE "RAMD_FILE", name))
        r   == AddSection(P, Vnode(type, P[dir].fs, new, FALSE), dir, name)
    IN  [P |-> r.P, F |-> F1, e |-> r.e]

\* Mutant: the mount is recorded at the entry's own file system root.
VfsMount_AtRoot(P, F, S, at) ==
    LET new == FreeEntry(P) IN
    [F |-> Append(F, NewDisk),
     S |-> Append(S, NewFs(new, S[P[at].fs].root_pnc)),
     P |-> [P EXCEPT ![new] = NewEntry(RootVnode(Len(S) + 1, Len(F) + 1), NULL, P[at].name),
                     ![at].mounted = Len(S) + 1]]

\* vfs_mount of a new ramfs on a new ramdisk at the entry at, with ramfs_root.
VfsMount(P, F, S, at) ==
    LET new == FreeEntry(P) IN
    [F |-> Append(F, NewDisk),
     S |-> Append(S, NewFs(new, at)),
     P |-> [P EXCEPT ![new] = NewEntry(RootVnode(Len(S) + 1, Len(F) + 1), NULL, P[at].name),
                     ![at].mounted = Len(S) + 1]]

\* vfs_rdwr and ramfs_vn_rdwr of a write; a directory is refused.
VfsWrite(P, F, e, v) ==
    IF P[e].type = "VFS_VN_DIR" THEN F ELSE [F EXCEPT ![P[e].file].data = v]

-----------------------------------------------------------------------------
(* Callers.  They use handles of live entries, create names that do not     *)
(* exist yet, and evict entries that nothing is below of or mounted on.     *)

Handle == {e \in Entry : pnc[e] # NoEntry}
Create(dir, name, type) ==
    /\ step = 0 /\ Len(file) <= FreeFiles
    /\ pnc[dir].type = "VFS_VN_DIR" /\ VnLookup(file, pnc[dir].file, name) = NULL
    /\ LET r == VfsCreate(pnc, file, dir, name, type) IN Becomes(r.P, r.F, fs)
    /\ UNCHANGED <<step, hnd>>

Lookup(start, path) ==
    /\ step = 0
    /\ Becomes(VfsLookup(pnc, file, fs, start, path, FALSE).P, file, fs)
    /\ UNCHANGED <<step, hnd>>

Write(e, v) ==
    /\ step = 0
    /\ Becomes(pnc, VfsWrite(pnc, file, e, v), fs)
    /\ UNCHANGED <<step, hnd>>

Mount(at) ==
    /\ step = 0 /\ Len(fs) < MaxFs
    /\ LET r == VfsMount(pnc, file, fs, at) IN Becomes(r.P, r.F, r.S)
    /\ UNCHANGED <<step, hnd>>

Evict(e) ==
    /\ step = 0
    /\ ~ pnc[e].root /\ pnc[e].mounted = NULL
    /\ \A k \in Key : pnc[e].tree[k] = NULL
    /\ Becomes(EvictSection(pnc, e), file, fs)
    /\ UNCHANGED <<step, hnd>>

-----------------------------------------------------------------------------
(* The self-test of vfs_init: its sequence of calls, on the handles it      *)
(* keeps in variables; a call with kassert must succeed.                    *)

L(path, slash, to, k) ==
    [op |-> "lookup", path |-> path, slash |-> slash, to |-> to, kassert |-> k]
C(in, name, type, to, k) ==
    [op |-> "create", in |-> in, name |-> name, type |-> type, to |-> to, kassert |-> k]
W(in, data) == [op |-> "write", in |-> in, data |-> data, kassert |-> TRUE]
R(in, data) == [op |-> "read", in |-> in, data |-> data, kassert |-> TRUE]
M(in) == [op |-> "mount", in |-> in, kassert |-> FALSE]
Script == <<
    L(<<>>, TRUE, "dest", TRUE),
    C("dest", "testfile", "VFS_VN_REG", "out", TRUE),
    W("out", "Hello World"),
    R("out", "Hello World"),
    C("dest", "testdir", "VFS_VN_DIR", "out", TRUE),
    L(<<"testdir">>, FALSE, "dest", TRUE),
    C("dest", "fileinsidedir", "VFS_VN_REG", "out", TRUE),
    L(<<"testdir", "fileinsidedir">>, FALSE, "dest", TRUE),
    W("dest", "Hello World2"),
    R("dest", "Hello World2"),
    L(<<"testdir">>, FALSE, "hnd", FALSE),
    C("hnd", "hohoho", "VFS_VN_DIR", "hnd", FALSE),
    C("hnd", "file.c", "VFS_VN_REG", "hnd", FALSE),
    L(<<"testdir", "hohoho", "file.c">>, TRUE, "hnd", FALSE),
    L(<<>>, TRUE, "mountpoint", TRUE),
    M("mountpoint"),
    L(<<>>, TRUE, "mountpoint", FALSE),
    C("mountpoint", "testdir2", "VFS_VN_REG", "out", FALSE),
    L(<<"testdir2">>, FALSE, "mountpoint", FALSE),
    L(<<"testfile">>, FALSE, "mountpoint", FALSE),
    L(<<>>, TRUE, "mountpoint", TRUE),
    M("mountpoint"),
    L(<<>>, TRUE, "mountpoint", FALSE),
    C("mountpoint", "testdir12", "VFS_VN_REG", "out", FALSE),
    L(<<"testdir12">>, FALSE, "mountpoint", FALSE),
    L(<<"testdir1">>, FALSE, "mountpoint", FALSE)>>

ScriptCall(c) ==
    CASE c.op = "lookup" ->
            LET r == VfsLookup(pnc, file, fs, Root, c.path, c.slash) IN
            /\ Becomes(r.P, file, fs)
            /\ hnd' = IF r.sets THEN [hnd EXCEPT ![c.to] = r.e] ELSE hnd
      [] c.op = "create" ->
            LET r == VfsCreate(pnc, file, hnd[c.in], c.name, c.type) IN
            IF pnc[hnd[c.in]].type = "VFS_VN_DIR"
            THEN Becomes(r.P, r.F, fs) /\ hnd' = [hnd EXCEPT ![c.to] = r.e]
            ELSE UNCHANGED <<pnc, file, fs, tree, hnd>>
      [] c.op = "write" ->
            Becomes(pnc, VfsWrite(pnc, file, hnd[c.in], c.data), fs) /\ UNCHANGED hnd
      [] c.op = "read" -> UNCHANGED <<pnc, file, fs, tree, hnd>>
      [] c.op = "mount" ->
            LET r == VfsMount(pnc, file, fs, hnd[c.in]) IN
            Becomes(r.P, r.F, r.S) /\ UNCHANGED hnd

SelfTest ==
    /\ step \in DOMAIN Script
    /\ ScriptCall(Script[step])
    /\ step' = step + 1

\* kmain goes on.
SelfTestDone == step = Len(Script) + 1 /\ UNCHANGED vars

Next ==
    \/ \E e \in Handle :
        \/ \E n \in FreeNames : Create(e, n, TypeOf(n))
        \/ \E n \in FreeNames : Lookup(e, <<n>>)
        \/ \E v \in Content : Write(e, v)
        \/ Mount(e)
        \/ Evict(e)
    \/ \E p \in Paths : Lookup(Root, p)
    \/ SelfTest \/ SelfTestDone
Spec == Init /\ [][Next]_vars

-----------------------------------------------------------------------------
\* The chains of an entry hold exactly its children, each once and under the
\* key of its name, linked both ways, no name twice; and each child is a file
\* the ramfs has in that directory.  Insertion behind and eviction from any
\* place of a chain of equal hashes (pnc_add_section, pnc_evict_section) keep it so.
CacheExact ==
    /\ \A e \in Handle, k \in Key :
        LET first == pnc[e].tree[k] IN
        first # NULL => first \in Handle /\ pnc[first].parent = e
    /\ \A e \in Handle : ~ pnc[e].root =>
        LET p == pnc[e].parent
            n == pnc[e]
        IN  /\ p \in Handle
            /\ LookupSection(pnc, p, n.name) = e
            /\ n.prev = NULL <=> pnc[p].tree[Hash(n.name)] = e
            /\ n.prev # NULL => n.prev \in Handle /\ pnc[n.prev].next = e
            /\ n.next # NULL => n.next \in Handle /\ pnc[n.next].prev = e
            /\ n.fs = pnc[p].fs
            /\ VnLookup(file, pnc[p].file, n.name) = n.file

\* _pathn_bt_print: the sections from the root to an entry.  At the root of
\* a mounted file system the walk goes on at the entry it covers.
RECURSIVE Uncover(_)
Uncover(e) == IF pnc[e].root /\ e # Root THEN Uncover(fs[pnc[e].fs].covered) ELSE e
RECURSIVE Backtrace(_)
Backtrace(e) ==
    LET u == Uncover(e) IN
    IF u = Root THEN <<>> ELSE Append(Backtrace(pnc[u].parent), pnc[u].name)

\* An entry is in sight if no file system is mounted over it or above it.
RECURSIVE InSight(_)
InSight(e) ==
    IF e = Root THEN TRUE
    ELSE IF pnc[e].root THEN \E c \in Handle : pnc[c].mounted = pnc[e].fs /\ InSight(c)
    ELSE LET d == pnc[e].parent IN pnc[d].mounted = NULL /\ InSight(d)

\* The path that pathn_bt_print prints for a handle leads back to it: the walk over
\* parents and covered entries ends at the root, and vfs_lookup of what it
\* collects gives the same entry, or the entry its file system covers, unless
\* another file system has been mounted over the way.
BacktraceLeadsBack ==
    \A e \in Handle : InSight(e) =>
        VfsLookup(pnc, file, fs, Root, Backtrace(e), FALSE).e =
            IF Uncover(e) = Root THEN Cross(pnc, fs, Root) ELSE Uncover(e)

\* Every call of vfs_init's self-test that is followed by a kassert succeeds: its
\* lookups find an entry, it creates in directories only and writes and reads
\* files only; and it reads no file that has no contents, which would copy from NULL.
SelfTestPasses ==
    step \in DOMAIN Script =>
        LET c == Script[step] IN
        /\ c.kassert /\ c.op = "lookup" =>
              VfsLookup(pnc, file, fs, Root, c.path, c.slash).e # NULL
        /\ c.kassert /\ c.op = "create" => pnc[hnd[c.in]].type = "VFS_VN_DIR"
        /\ c.op \in {"write", "read"} => pnc[hnd[c.in]].type # "VFS_VN_DIR"
        /\ c.op = "read" => VfsRead(pnc, file, hnd[c.in]) = c.data

\* Caching is invisible: looking paths up, evicting entries, colliding hashes and
\* handles of any age never change what a path denotes; a call of vfs_create,
\* vfs_rdwr or vfs_mount changes it as in FileTree or, through a handle out of
\* sight, not at all.
FT == INSTANCE FileTree WITH Path <- Paths
ImplementsFileTree == FT!Spec
=============================================================================
