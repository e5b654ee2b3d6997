------------------------------ MODULE LociSdimg ------------------------------
(***************************************************************************)
(* The FAT volume behind the LOCI's file operations (loci_sdimg.c, with    *)
(* the op_*_sdimg of loci_fs.c): the allocation table, the directories,    *)
(* the data and the open handles.                                          *)
(*                                                                         *)
(* The unit of data is a sector; a sector written at position p of a file  *)
(* holds p, so that the order in which a chain holds a file can be told.   *)
(* The path names a directory (the root or one made by mkdir) and a name.  *)
(***************************************************************************)
EXTENDS Integers, Sequences, FiniteSetsExt

CONSTANTS
    Clusters,   \* count_of_clusters
    PerCluster, \* sectors_per_cluster
    Name,       \* names of files
    SubDir,     \* names of directories
    RootMax,    \* root_entries
    DirMax,     \* entries in a cluster of a directory, "." and ".." apart
    Slot,       \* SDIMG_MAX_FILES handles, numbered from 0
    Count,      \* the sizes of transfers, in sectors
    Seek,       \* the positions a program seeks to
    MaxSize,    \* bound: sectors of a file
    Careful,    \* the program stays clear of what the code does not check: it neither
                \* removes, moves nor truncates a file that is open, renames onto no
                \* name in use, makes no directory in a full one
    Edge        \* a transfer may start where the one before it filled a cluster

ASSUME SdimgAssumption ==
    /\ {Clusters, PerCluster, RootMax, DirMax, MaxSize} \subseteq Nat \ {0}
    /\ Count \subseteq Nat \ {0} /\ {Careful, Edge} \subseteq BOOLEAN /\ Name \cap SubDir = {}

VARIABLES fat, data, ents, files
sdVars == <<fat, data, ents, files>>

Cluster == 2 .. Clusters + 1
Eoc == -1
Root == 0
Cell == Cluster \X (0 .. PerCluster - 1)
NoEntry == [name |-> "", first |-> 0, size |-> 0, dir |-> FALSE]
Closed == [used |-> FALSE]

SdimgInit ==
    /\ fat = [c \in Cluster |-> 0]
    /\ data = [x \in Cell |-> -1]
    /\ ents = [d \in {Root} \cup Cluster |-> <<>>]
    /\ files = [s \in Slot |-> Closed]

-----------------------------------------------------------------------------
(* The allocation table.                                                   *)

\* The clusters reached from first: read_fat_entry until the end of the chain.
Chain(f, first) ==
    LET go[n \in 0 .. Clusters] ==
            IF n = 0 THEN IF first >= 2 THEN <<first>> ELSE <<>>
            ELSE LET s == go[n - 1]
                 IN IF s = <<>> \/ f[s[Len(s)]] < 2 THEN s ELSE Append(s, f[s[Len(s)]])
    IN go[Clusters]

\* From the hint to the end, then from the start; 0 when the volume is full.
alloc_free_cluster(f, hint) ==
    LET free == {c \in Cluster : f[c] = 0}
        up == {c \in free : c >= hint}
    IN IF up # {} THEN Min(up) ELSE IF free # {} THEN Min(free) ELSE 0

Members(s) == {s[i] : i \in DOMAIN s}
MutFree(f, first) == IF first < 2 THEN f ELSE [f EXCEPT ![first] = 0]
free_cluster_chain(f, first) ==
    [c \in Cluster |-> IF c \in Members(Chain(f, first)) THEN 0 ELSE f[c]]

\* What a freed cluster holds no longer matters: it is blanked, to tell it from data.
Blank(first) ==
    [x \in Cell |-> IF x[1] \in Members(Chain(fat, first)) THEN -1 ELSE data[x]]

\* A new last cluster, chained to the one before it.
extend_chain(f, last, new) == [f EXCEPT ![new] = Eoc, ![last] = new]

-----------------------------------------------------------------------------
(* Directories.                                                            *)

\* The directory a path names: the root, or the cluster of a subdirectory.
EntryOf(d, n) == {i \in DOMAIN ents[d] : ents[d][i].name = n}
DirAt(p) == IF p = "" THEN Root
            ELSE IF EntryOf(Root, p) = {} THEN -1 ELSE ents[Root][Min(EntryOf(Root, p))].first
find_dir_entry(d, n) == IF EntryOf(d, n) = {} THEN 0 ELSE Min(EntryOf(d, n))

\* A deleted entry, or the one after the last; a subdirectory that is full takes
\* another cluster.  0 when there is no room.
Capacity(f, d) == IF d = Root THEN RootMax ELSE DirMax * Len(Chain(f, d))
alloc_dir_entry(f, d) ==
    LET gone == {i \in DOMAIN ents[d] : ents[d][i] = NoEntry}
        last == Len(ents[d]) + 1
        new == alloc_free_cluster(f, Chain(f, d)[Len(Chain(f, d))] + 1)
    IN IF gone # {} THEN [at |-> Min(gone), fat |-> f]
       ELSE IF last <= Capacity(f, d) THEN [at |-> last, fat |-> f]
       ELSE IF d = Root \/ new = 0 THEN [at |-> 0, fat |-> f]
       ELSE [at |-> last, fat |-> extend_chain(f, Chain(f, d)[Len(Chain(f, d))], new)]

PutEntry(es, d, i, e) ==
    [es EXCEPT ![d] = IF i > Len(@) THEN Append(@, e) ELSE [@ EXCEPT ![i] = e]]
update_dir_entry(es, h, first, size) ==
    [es EXCEPT ![h.dir][h.ent].first = first, ![h.dir][h.ent].size = size]

-----------------------------------------------------------------------------
(* Files.                                                                  *)

Opened(d, i, e, w) ==
    [used |-> TRUE, writable |-> w, first |-> e.first, size |-> e.size, cur |-> e.first,
     off |-> 0, cursor |-> 0, dir |-> d, ent |-> i]
FreeSlot == {s \in Slot : ~files[s].used}
IsOpen(d, i) == \E s \in Slot : files[s].used /\ files[s].dir = d /\ files[s].ent = i

Truncate(f, d, i) ==
    LET e == [ents[d][i] EXCEPT !.first = 0, !.size = 0]
    IN /\ fat' = free_cluster_chain(f, ents[d][i].first)
       /\ data' = Blank(ents[d][i].first)
       /\ ents' = PutEntry(ents, d, i, e)
       /\ files' = [files EXCEPT ![Min(FreeSlot)] = Opened(d, i, e, TRUE)]

\* Create: the entry is written before a handle is looked for.
Create(d, n) ==
    LET a == alloc_dir_entry(fat, d)
        e == [name |-> n, first |-> 0, size |-> 0, dir |-> FALSE]
    IN IF a.at = 0 THEN UNCHANGED sdVars
       ELSE /\ fat' = a.fat
            /\ ents' = PutEntry(ents, d, a.at, e)
            /\ files' = IF FreeSlot = {} THEN files
                        ELSE [files EXCEPT ![Min(FreeSlot)] = Opened(d, a.at, e, TRUE)]
            /\ UNCHANGED data

\* loci_sdimg_fopen_ex: to read an existing file; to write, truncate or create.
loci_sdimg_fopen_ex(p, n, write) ==
    LET d == DirAt(p)
        i == find_dir_entry(d, n)
    IN /\ d # -1
       /\ IF i # 0
          THEN /\ ~ents[d][i].dir /\ FreeSlot # {}
               /\ IF write
                  THEN (Careful => ~IsOpen(d, i)) /\ Truncate(fat, d, i)
                  ELSE /\ files' = [files EXCEPT ![Min(FreeSlot)] = Opened(d, i, ents[d][i], FALSE)]
                       /\ UNCHANGED <<fat, data, ents>>
          ELSE write /\ Create(d, n)

loci_sdimg_fclose(s) ==
    /\ files[s].used /\ files' = [files EXCEPT ![s] = Closed]
    /\ UNCHANGED <<fat, data, ents>>

\* The sector under the cursor.  The cluster is left only inside a transfer: at its end
\* the offset stays at the size of the cluster, one past the last sector.
AtEdge(h) == h.off >= PerCluster
SectorOf(h) == <<h.cur + (h.off \div PerCluster), h.off % PerCluster>>
Moved(h) == [h EXCEPT !.off = @ + 1, !.cursor = @ + 1, !.size = IF h.cursor + 1 > @ THEN h.cursor + 1 ELSE @]
Entered(h, c) == [h EXCEPT !.cur = c, !.off = 0]

\* loci_sdimg_fread: the handle after n sectors; ok when each was the file's own.
loci_sdimg_fread(h0, count) ==
    LET want == Min({count, h0.size - h0.cursor})
        go[n \in 0 .. want] ==
            IF n = 0 THEN [h |-> h0, ok |-> TRUE]
            ELSE LET g == go[n - 1]
                     h == IF n > 1 /\ AtEdge(g.h) THEN Entered(g.h, fat[g.h.cur]) ELSE g.h
                 IN [h |-> Moved(h),
                     ok |-> g.ok /\ SectorOf(h) \in Cell /\ data[SectorOf(h)] = h.cursor]
    IN go[want]

\* loci_sdimg_fwrite: the first cluster, then sector after sector; a cluster that is
\* full when more is to come is followed by the next of the chain, or by a new one.
NextCluster(g, n) ==
    IF ~(n > 1 /\ AtEdge(g.h)) THEN g
    ELSE IF g.fat[g.h.cur] # Eoc THEN [g EXCEPT !.h = Entered(@, g.fat[g.h.cur])]
    ELSE LET new == alloc_free_cluster(g.fat, g.h.cur + 1)
         IN IF new = 0 THEN [g EXCEPT !.full = TRUE]
            ELSE [g EXCEPT !.fat = extend_chain(@, g.h.cur, new), !.h = Entered(@, new)]
FirstCluster(h) ==
    LET c == alloc_free_cluster(fat, 2)
        g == [h |-> h, fat |-> fat, data |-> data, full |-> FALSE]
    IN IF h.first >= 2 THEN g
       ELSE IF c = 0 THEN [g EXCEPT !.full = TRUE]
       ELSE [g EXCEPT !.fat[c] = Eoc, !.h = [h EXCEPT !.first = c, !.cur = c, !.off = 0]]
loci_sdimg_fwrite(h0, count) ==
    LET go[n \in 0 .. count] ==
            IF n = 0 THEN FirstCluster(h0)
            ELSE LET g == NextCluster(go[n - 1], n)
                 IN IF g.full \/ SectorOf(g.h) \notin Cell THEN [g EXCEPT !.full = TRUE]
                    ELSE [g EXCEPT !.data[SectorOf(g.h)] = g.h.cursor, !.h = Moved(@)]
    IN go[count]

\* seek_to_offset walks the chain; past its last cluster the call fails.
loci_sdimg_lseek(h, target) ==
    LET s == Chain(fat, h.first)
        k == target \div PerCluster
    IN IF target = 0 THEN [h EXCEPT !.cur = h.first, !.off = 0, !.cursor = 0]
       ELSE IF k >= Len(s) THEN h
       ELSE [h EXCEPT !.cur = s[k + 1], !.off = target % PerCluster, !.cursor = target]

SdRead(s, n) ==
    /\ files[s].used /\ files[s].cursor < files[s].size
    /\ Edge \/ ~AtEdge(files[s])
    /\ files' = [files EXCEPT ![s] = loci_sdimg_fread(@, n).h]
    /\ UNCHANGED <<fat, data, ents>>
SdWrite(s, n) ==
    /\ files[s].used /\ files[s].writable /\ files[s].cursor + n <= MaxSize
    /\ Edge \/ ~AtEdge(files[s])
    /\ \E g \in {loci_sdimg_fwrite(files[s], n)} :
        /\ fat' = g.fat /\ data' = g.data
        /\ files' = [files EXCEPT ![s] = g.h]
        /\ ents' = update_dir_entry(ents, g.h, g.h.first, g.h.size)
SdLseek(s, t) ==
    /\ files[s].used /\ t <= files[s].size /\ t # files[s].cursor
    /\ files' = [files EXCEPT ![s] = loci_sdimg_lseek(@, t)]
    /\ UNCHANGED <<fat, data, ents>>

loci_sdimg_unlink(p, n) ==
    LET d == DirAt(p)
        i == find_dir_entry(d, n)
    IN /\ d # -1 /\ i # 0 /\ ~ents[d][i].dir
       /\ Careful => ~IsOpen(d, i)
       /\ fat' = free_cluster_chain(fat, ents[d][i].first)
       /\ data' = Blank(ents[d][i].first)
       /\ ents' = PutEntry(ents, d, i, NoEntry)
       /\ UNCHANGED files

\* In one directory the name is rewritten in place, whatever carries it already; to
\* another one the entry is made there and deleted here.
loci_sdimg_rename(p, n, q, m) ==
    LET d == DirAt(p)  i == find_dir_entry(d, n)
        t == DirAt(q)  a == alloc_dir_entry(fat, t)
    IN /\ d # -1 /\ i # 0
       /\ Careful => ~IsOpen(d, i) /\ ~ents[d][i].dir /\ (t # -1 => find_dir_entry(t, m) = 0)
       /\ IF p = q THEN ents' = [ents EXCEPT ![d][i].name = m] /\ UNCHANGED fat
          ELSE /\ t # -1 /\ find_dir_entry(t, m) = 0 /\ a.at # 0
               /\ fat' = a.fat
               /\ ents' = PutEntry(PutEntry(ents, t, a.at, [ents[d][i] EXCEPT !.name = m]), d, i, NoEntry)
       /\ UNCHANGED <<data, files>>

\* The cluster of the directory is taken before its entry is looked for.
loci_sdimg_mkdir(n) ==
    LET new == alloc_free_cluster(fat, 2)
        f == [fat EXCEPT ![new] = Eoc]
        a == alloc_dir_entry(f, Root)
    IN /\ find_dir_entry(Root, n) = 0 /\ new # 0
       /\ Careful => a.at # 0
       /\ fat' = f
       /\ ents' = IF a.at = 0 THEN ents
                  ELSE PutEntry([ents EXCEPT ![new] = <<>>], Root, a.at,
                                [name |-> n, first |-> new, size |-> 0, dir |-> TRUE])
       /\ UNCHANGED <<data, files>>

Place == {""} \cup SubDir
SdimgNext ==
    \/ \E p \in Place, n \in Name, w \in BOOLEAN : loci_sdimg_fopen_ex(p, n, w)
    \/ \E s \in Slot : loci_sdimg_fclose(s)
    \/ \E s \in Slot, n \in Count : SdRead(s, n) \/ SdWrite(s, n)
    \/ \E s \in Slot, t \in Seek : SdLseek(s, t)
    \/ \E p \in Place, n \in Name : loci_sdimg_unlink(p, n)
    \/ \E p, q \in Place, n, m \in Name : loci_sdimg_rename(p, n, q, m)
    \/ \E n \in SubDir : loci_sdimg_mkdir(n)

-----------------------------------------------------------------------------
Live == {x \in ({Root} \cup Cluster) \X (1 .. RootMax + DirMax * Clusters) :
            x[2] \in DOMAIN ents[x[1]] /\ ents[x[1]][x[2]] # NoEntry}
Ent(x) == ents[x[1]][x[2]]
ChainOf(x) == Chain(fat, Ent(x).first)

\* loci_sdimg.h: a write extends the file "allocating clusters as needed", so the chain
\* of an entry is long enough for the size it gives.
ChainCoversSize == \A x \in Live : Ent(x).size <= PerCluster * Len(ChainOf(x))

\* The table stays that of a FAT volume: each chain ends and covers the size of its
\* entry, no cluster is in two chains and none is allocated outside of them.
FatIsConsistent ==
    \E ch \in {[x \in Live |-> ChainOf(x)]} :
        /\ \A x \in Live : /\ Ent(x).size <= PerCluster * Len(ch[x])
                           /\ ch[x] # <<>> => fat[ch[x][Len(ch[x])]] = Eoc
        /\ \A c \in Cluster :
            Cardinality({x \in Live : c \in Members(ch[x])}) = IF fat[c] = 0 THEN 0 ELSE 1

\* A file holds what was written to it, in order, whatever was created, truncated,
\* moved or removed beside it; a handle sees the file its entry describes and reads
\* its own sectors.
ContentIsKept ==
    /\ \A x \in Live : Ent(x).size > 0 => \E s \in {ChainOf(x)} : \A p \in 0 .. Ent(x).size - 1 :
        /\ p \div PerCluster < Len(s)
        /\ data[<<s[p \div PerCluster + 1], p % PerCluster>>] = p
    /\ \A s \in Slot : files[s].used =>
        LET h == files[s] IN
        /\ h.cursor < h.size /\ (Edge \/ ~AtEdge(h)) => \A n \in Count : loci_sdimg_fread(h, n).ok
        /\ h.writable => h.size = ents[h.dir][h.ent].size /\ h.first = ents[h.dir][h.ent].first
=============================================================================
