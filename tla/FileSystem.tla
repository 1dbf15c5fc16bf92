----------------------------- MODULE FileSystem -----------------------------
(***************************************************************************)
(* The file system of fs/fs.c: the file allocation table, the root directory, *)
(* directories and files, the two cached buffers, and the disk.              *)
(*                                                                         *)
(* The unit of size is a directory entry.  A sector, which is also a cluster,  *)
(* holds EntriesPerSector of them; a file holds units of data.  A call of the  *)
(* code is an operator from the state of the file system to the state it      *)
(* leaves and the disk writes it makes.  The writes reach the disk one by one, *)
(* and the machine may be switched off between any two of them.              *)
(***************************************************************************)
EXTENDS Naturals, Sequences, FiniteSets, SequencesExt

CONSTANTS
  ClusterCount,      \* clusters for data
  EntriesPerSector,  \* SECTOR_SIZE / DIR_ENTRY_SIZE
  RootEntries,       \* ROOT_ENTRIES
  FilenameSize, ExtensionSize,  \* FILENAME_SIZE, EXTENTION_SIZE
  Files, Directories,  \* names with and without an extension
  Paths,             \* sequences of names of directories
  Contents,          \* what programs write: sequences of units of data
  Shell, ShellImage, \* "sabaka.run", and its contents
  Junk,              \* a unit of memory that was never written
  MaxCalls           \* the bound on the calls after a start

Clusters == 1..ClusterCount
EOC == ClusterCount + 1
FAT_SIGNATURE == ClusterCount + 2
FatSector == 0
RootSector == ClusterCount + 3

\* The table has fewer entries than SYSTEM_SECTORS, the number of the clusters: the
\* last of them, EOC among them, would be marked in the memory behind fat_buffer.
BehindTable == {EOC, ClusterCount + 4}
SYSTEM_SECTORS == ClusterCount + 5

\* A name that is longer than its fields would be copied over what follows them.
Names ==
  {name \in [base : Seq(STRING), ext : Seq(STRING)] :
     Len(name.base) <= FilenameSize /\ Len(name.ext) <= ExtensionSize}
NoName == [base |-> <<>>, ext |-> <<>>]
HasExtension(name) == name.ext # <<>>

ASSUME SizesAssumption ==
  /\ ClusterCount \in Nat \ {0} /\ EntriesPerSector \in Nat \ {0}
  /\ RootEntries \in Nat \ {0} /\ RootEntries % EntriesPerSector = 0
  /\ FilenameSize \in Nat /\ ExtensionSize \in Nat
ASSUME NamesAssumption ==
  /\ Files \cup Directories \subseteq Names /\ Paths \subseteq Seq(Directories)
  /\ \A name \in Files : HasExtension(name)
  /\ \A name \in Directories : ~HasExtension(name) /\ name # NoName
  /\ Shell \in Files
ASSUME ContentsAssumption == \A units \in Contents \cup {ShellImage} : units \in Seq(ToSet(units))

VARIABLES
  fs,    \* what the kernel has in memory; view is the disk as it will be, writes
         \* what is still to be written to it, written what each file should hold
  disk   \* the table, the root directory and the clusters

vars == <<fs, disk>>

Blank == [name |-> NoName, attributes |-> "file", cluster |-> 0, size |-> 0]

Padded(units, n) == [k \in 1..n |-> IF k <= Len(units) THEN units[k] ELSE Blank]
WithEntry(units, i, e) == [k \in DOMAIN units |-> IF k = i THEN e ELSE units[k]]
Overwrite(old, units) ==
  [k \in DOMAIN old |-> IF k <= Len(units) THEN units[k] ELSE old[k]]

NewDisk ==
  [fat |-> [c \in 0..ClusterCount |-> 0],
   root |-> Padded(<<>>, RootEntries),
   data |-> [c \in Clusters |-> Padded(<<>>, EntriesPerSector)]]

\* The memory of a machine that has just been switched on.
PoweredOn(d) ==
  [fat |-> NewDisk.fat, was_fat_read |-> FALSE,
   root |-> NewDisk.root, was_root_read |-> FALSE, root_entries |-> 0,
   view |-> d, writes |-> <<>>, written |-> [c \in Clusters |-> <<>>], status |-> "off",
   calls |-> 0]

Stop(s, status) == IF s.status = "running" THEN [s EXCEPT !.status = status] ELSE s

-----------------------------------------------------------------------------
(* The disk and the buffers *)

\* A cluster beyond the last one is a sector nobody reads.
Written(d, w) ==
  CASE w.to = FatSector -> [d EXCEPT !.fat = w.units]
    [] w.to = RootSector -> [d EXCEPT !.root = Overwrite(@, w.units)]
    [] w.to \in Clusters -> [d EXCEPT !.data[w.to] = w.units]
    [] OTHER -> d

AtaWrite(s, to, units) ==
  LET w == [to |-> to, units |-> units]
  IN IF s.status # "running" THEN s
     ELSE [s EXCEPT !.view = Written(@, w), !.writes = Append(@, w)]

FatWrite(s) == [AtaWrite(s, FatSector, s.fat) EXCEPT !.was_fat_read = FALSE]

FatRead(s) ==
  IF s.was_fat_read THEN s
  ELSE [s EXCEPT !.was_fat_read = TRUE, !.fat = s.view.fat]

\* Mutant: rounds up.
EntriesToSectorsCeiling(n) == (n + EntriesPerSector - 1) \div EntriesPerSector

EntriesToSectors(n) ==
  IF n > 0 /\ n < EntriesPerSector THEN 1 ELSE n \div EntriesPerSector

SizeToSectors(n) == (n + EntriesPerSector - 1) \div EntriesPerSector

\* The entries in the sectors of the root directory that are read and written.
InSectors(s) == EntriesPerSector * EntriesToSectors(s.root_entries)

\* Mutant: the cached copy stays the valid one.
RootWriteKeepsCache(s, units) ==
  IF InSectors(s) > RootEntries THEN Stop(s, "undefined")
  ELSE AtaWrite(s, RootSector, Padded(units, InSectors(s)))

\* What lies after the root directory on the disk is the kernel.
RootWrite(s, units) ==
  IF InSectors(s) > RootEntries THEN Stop(s, "undefined")
  ELSE [AtaWrite(s, RootSector, Padded(units, InSectors(s))) EXCEPT !.was_root_read = FALSE]

RootRead(s) ==
  IF s.was_root_read \/ InSectors(s) = 0 THEN s
  ELSE [s EXCEPT !.was_root_read = TRUE,
                 !.root = Overwrite(@, SubSeq(s.view.root, 1, InSectors(s)))]

-----------------------------------------------------------------------------
(* Names *)

\* make_full_filename: a name of the full length has no terminator, and its
\* extension is read as a part of it.
FullName(e) ==
  IF Len(e.name.base) = FilenameSize /\ e.name.ext # <<>>
    THEN [e.name EXCEPT !.base = @ \o e.name.ext]
    ELSE e.name

\* A path is a sequence of names.
LastName(path) == Last(path)
ParentPath(path) == Front(path)

\* The names of directories a path begins with, as get_first_file_from_path and
\* eat_path take them off one by one.
DirectoryNames(path) ==
  SubSeq(path, 1, Min({Len(path)} \cup {k - 1 : k \in {n \in DOMAIN path : HasExtension(path[n])}}))

\* fat_create_filename copies the new name over the old one and clears nothing.
CreateFilename(e, name) ==
  LET Over(new, old) == new \o SubSeq(old, Len(new) + 1, Len(old))
  IN [e EXCEPT !.name = [base |-> Over(name.base, @.base), ext |-> Over(name.ext, @.ext)]]

-----------------------------------------------------------------------------
(* Files *)

\* The clusters of a file, in order.
Chain(fat, first) ==
  LET chain[c \in 0..FAT_SIGNATURE] ==
        IF c \in Clusters THEN <<c>> \o chain[fat[c]] ELSE <<>>
  IN chain[first]

\* A place in memory that holds the entry of a directory: the i-th of buf.  The
\* root directory has no entry: i = 0 is a NULL pointer.
Size(s, dir) == IF dir.i = 0 THEN s.root_entries ELSE dir.buf[dir.i].size

\* read_file reads the chain, whatever the size, into a buffer of the size.
ReadFile(s, e) ==
  LET read == FatRead(s)
      chain == Chain(read.fat, e.cluster)
      Unit(n, k) == IF n <= Len(chain) THEN read.view.data[chain[n]][k] ELSE Junk
      length == EntriesPerSector * SizeToSectors(e.size)
  IN IF length = 0 THEN [s |-> s, units |-> <<>>]
     ELSE [s |-> read,
           units |-> [k \in 1..length |-> Unit(((k - 1) \div EntriesPerSector) + 1,
                                               ((k - 1) % EntriesPerSector) + 1)]]

\* What lies after the buffer of the root directory is not the file system's.
KreadFile(s, dir) ==
  IF dir.i # 0 THEN ReadFile(s, dir.buf[dir.i])
  ELSE [s |-> RootRead(s),
        units |-> [k \in 1..s.root_entries |->
                     IF k <= RootEntries THEN RootRead(s).root[k] ELSE Junk]]

\* fat_resize_file.  It sets the size before it compares the old one with the new,
\* so that neither of its two branches is taken: it only writes the table again.
ResizeFile(s, e, size) ==
  IF SizeToSectors(size) = SizeToSectors(e.size) THEN s ELSE FatWrite(FatRead(s))

\* write_file_data: whole clusters while the chain lasts, then the rest in the
\* cluster after them.
WriteClusters(s, first, units) ==
  LET chain == Chain(s.fat, first)
      whole == Min({Len(units) \div EntriesPerSector, Len(chain)})
      rest == Len(units) % EntriesPerSector
      From(k, n) == SubSeq(units, EntriesPerSector * k + 1, EntriesPerSector * k + n)
      put[k \in 0..whole] ==
        IF k = 0 THEN s ELSE AtaWrite(put[k - 1], chain[k], From(k - 1, EntriesPerSector))
      next == IF whole < Len(chain) THEN chain[whole + 1] ELSE EOC
  IN IF rest = 0 THEN put[whole]
     ELSE AtaWrite(put[whole], next, Padded(From(whole, rest), EntriesPerSector))

\* Mutant: the last unit is taken for a terminator and not counted.
WriteFileDataShort(s, e, units) ==
  [s |-> WriteClusters(FatRead(ResizeFile(s, e, Len(units))), e.cluster, units),
   entry |-> [e EXCEPT !.size = Len(units) - 1]]

WriteFileData(s, e, units) ==
  LET fits == IF Len(units) \div EntriesPerSector > SYSTEM_SECTORS THEN Stop(s, "panic") ELSE s
  IN [s |-> WriteClusters(FatRead(ResizeFile(fits, e, Len(units))), e.cluster, units),
      entry |-> [e EXCEPT !.size = Len(units)]]

\* edit_file, for a directory that keeps its size.
EditFile(s, dir, units) ==
  IF dir.i = 0 THEN RootWrite(s, SubSeq(units, 1, s.root_entries))
  ELSE WriteFileData(s, dir.buf[dir.i], SubSeq(units, 1, dir.buf[dir.i].size)).s

-----------------------------------------------------------------------------
(* Directories *)

\* find_file in the contents of dir, as they were read.  What it makes of memory that
\* was never written, the model leaves open.
EntryIn(dir, read, name) ==
  LET hits == {k \in 1..Size(read.s, dir) :
                 read.units[k] = Junk \/ FullName(read.units[k]) = name}
      found == hits # {} /\ read.units[Min(hits)] # Junk
      fate == IF hits = {} THEN "panic" ELSE "undefined"
  IN [s |-> IF found THEN read.s ELSE Stop(read.s, fate),
      buf |-> read.units, i |-> IF found THEN Min(hits) ELSE 0]

\* panic does not return: a kernel that has stopped looks no further.
FindFile(dir, name) ==
  IF dir.s.status = "running" THEN EntryIn(dir, KreadFile(dir.s, dir), name) ELSE dir

\* navigate_dir: as far as the names are those of directories.  With no entry in
\* the root directory every path leads to it.
NavigateDir(s, path) ==
  LET names == DirectoryNames(path)
      root == [s |-> RootRead(s), buf |-> <<>>, i |-> 0]
      at[n \in 0..Len(names)] == IF n = 0 THEN root ELSE FindFile(at[n - 1], names[n])
  IN IF s.root_entries = 0 THEN root ELSE at[Len(names)]

\* navigate_file, of a file: a path that ends in a directory gives the directory that
\* navigate_dir finds, or panics, and is left out.
NavigateFile(s, path) == FindFile(NavigateDir(s, path), LastName(path))

\* The directory at the end of the path has changed its size: its parent is
\* written.  The entry of a first-level directory lies in the root buffer.
EditParent(parent, units) == EditFile(parent.s, parent, units)

UpdateParent(dir, path) ==
  LET s == IF Len(path) = 1 THEN [dir.s EXCEPT !.root = Overwrite(@, dir.buf)] ELSE dir.s
  IN IF dir.i = 0 THEN dir.s ELSE EditParent(NavigateDir(s, ParentPath(path)), dir.buf)

\* dir with other contents, once they are written.
Rewritten(dir, grown) ==
  [dir EXCEPT !.s = grown.s, !.buf = WithEntry(@, dir.i, grown.entry)]

\* cat_file appends an entry to what was read of a directory, and writes it.
CatFile(dir, read, e) ==
  LET units == Append(SubSeq(read.units, 1, Size(read.s, dir)), e)
  IN IF dir.i = 0
       THEN [dir EXCEPT !.s = RootWrite([read.s EXCEPT !.root_entries = @ + 1], units)]
       ELSE Rewritten(dir, WriteFileData(read.s, dir.buf[dir.i], units))

EnterFile(dir, e) ==
  IF dir.s.status = "running" THEN CatFile(dir, KreadFile(dir.s, dir), e) ELSE dir

FreeClusters(s) == {c \in Clusters : s.fat[c] = 0}

\* fat_find_free_cluster, or 0.  behind is the first place behind the table where the
\* search meets a word that is 0, or 0 where there is none.
FreeCluster(s, behind) ==
  IF FreeClusters(s) = {} THEN behind ELSE Min(FreeClusters(s))

\* A cluster of BehindTable is marked in memory that is not the table's.
Mark(s, c) ==
  IF c \in Clusters THEN [FatRead(s) EXCEPT !.fat[c] = EOC, !.written[c] = <<>>]
  ELSE FatRead(s)

\* Mutant: the cluster is marked in memory only.
InitFirstClusterUnmarked(s, c) == [Mark(s, c) EXCEPT !.was_fat_read = FALSE]

InitFirstCluster(s, c) == FatWrite(Mark(s, c))

InitFile(name, attributes, c) ==
  [CreateFilename(Blank, name) EXCEPT !.attributes = attributes, !.cluster = c]

\* Mutant: the entry is written before the cluster is marked.
CreateFileLinksFirst(s, name, path, attributes, behind) ==
  LET c == FreeCluster(FatRead(s), behind)
      e == InitFile(name, attributes, c)
  IN IF c = 0 THEN Stop(s, "panic")
     ELSE InitFirstCluster(UpdateParent(EnterFile(NavigateDir(s, path), e), path), c)

\* create_file.  What becomes of a heap that init_first_cluster has written to, nobody
\* knows: the model follows the call to its end and goes no further.
CreateFile(s, name, path, attributes, behind) ==
  LET c == FreeCluster(FatRead(s), behind)
      e == InitFile(name, attributes, c)
      dir == NavigateDir(InitFirstCluster(s, c), path)
      done == UpdateParent(EnterFile(dir, e), path)
  IN IF c = 0 THEN Stop(s, "panic")
     ELSE IF c \notin Clusters THEN Stop(done, "undefined") ELSE done

\* Mutant: the directory is not written again.
WriteEntryOnly(dir, file, units) ==
  LET done == WriteFileData(file.s, file.buf[file.i], units)
  IN IF file.i = 0 THEN file.s
     ELSE [done.s EXCEPT !.written[done.entry.cluster] = units]

\* write_file, given the file: its data, then the directory with its new size.
WriteEntry(dir, file, units) ==
  LET done == WriteFileData(file.s, file.buf[file.i], units)
      known == [done.s EXCEPT !.written[done.entry.cluster] = units]
  IN IF file.i = 0 THEN file.s
     ELSE EditFile(known, dir, WithEntry(file.buf, file.i, done.entry))

WriteFile(s, path, units) ==
  LET WriteIn(dir) == WriteEntry(dir, FindFile(dir, LastName(path)), units)
  IN WriteIn(NavigateDir(s, path))

\* copy_file: the copy, once it is created, is written with what the old file holds.
Fill(created, e, path) ==
  LET WriteWhole(read) == WriteFile(read.s, path, SubSeq(read.units, 1, e.size))
  IN IF created.status # "running" THEN created ELSE WriteWhole(ReadFile(created, e))

CopyEntry(file, newPath, behind) ==
  LET e == file.buf[file.i]
  IN IF file.i = 0 THEN file.s
     ELSE Fill(CreateFile(file.s, FullName(e), newPath, e.attributes, behind), e,
               Append(newPath, FullName(e)))

CopyFile(s, path, newPath, behind) == CopyEntry(NavigateFile(s, path), newPath, behind)

RenameEntry(dir, file, new) ==
  IF file.i = 0 THEN file.s
  ELSE EditFile(file.s, dir, WithEntry(file.buf, file.i, CreateFilename(file.buf[file.i], new)))

RenameFile(s, path, new) ==
  LET Renamed(dir) == RenameEntry(dir, FindFile(dir, LastName(path)), new)
  IN Renamed(NavigateDir(s, ParentPath(path)))

\* fat_delete_file.  It also clears the word with the number EOC, behind the table.
FatDeleteFile(s, first) ==
  LET read == FatRead(s)
      chain == ToSet(Chain(read.fat, first))
  IN FatWrite([read EXCEPT !.fat = [c \in DOMAIN @ |-> IF c \in chain THEN 0 ELSE @[c]]])

\* remove_dir_entry.  Each entry of another name is copied to the first place of
\* the new directory, and the entry after it is skipped; the other places of the
\* new directory are never written.  So the outcome is known only for a directory
\* of one entry and for some of two; for the root directory with one, the NULL
\* result of kmalloc(0) is written to the disk.
Remaining(units, size, name) ==
  LET Look(at, u) ==
        IF u # Junk /\ FullName(u) = name THEN [at EXCEPT !.j = @ + 1]
        ELSE [j |-> at.j + 2, first |-> u]
      Unit(j) == IF j <= Len(units) THEN units[j] ELSE Junk
      at[k \in 0..size] ==
        IF k = 0 THEN [j |-> 1, first |-> Junk] ELSE Look(at[k - 1], Unit(at[k - 1].j))
  IN [k \in 1..(size - 1) |-> IF k = 1 THEN at[size].first ELSE Junk]

Replace(dir, read, size, units, path) ==
  IF Junk \in ToSet(units) THEN Stop(read.s, "undefined")
  ELSE IF dir.i # 0
    THEN UpdateParent(Rewritten(dir, WriteFileData(read.s, dir.buf[dir.i], units)), path)
  ELSE IF size = 1 THEN Stop(read.s, "fault")
  ELSE [RootWrite(read.s, units) EXCEPT !.root_entries = @ - 1]

RemoveDirEntry(s, path, name) ==
  LET Without(dir, read) ==
        Replace(dir, read, Size(read.s, dir),
                Remaining(read.units, Size(read.s, dir), name), path)
      WithoutName(dir) ==
        IF dir.s.status = "running" THEN Without(dir, KreadFile(dir.s, dir)) ELSE dir.s
  IN WithoutName(NavigateDir(s, path))

DeleteEntry(file, path) ==
  IF file.i = 0 THEN file.s
  ELSE RemoveDirEntry(FatDeleteFile(file.s, file.buf[file.i].cluster),
                      ParentPath(path), LastName(path))

DeleteFile(s, path) ==
  IF s.status # "running" THEN s
  ELSE DeleteEntry(FindFile(NavigateDir(s, ParentPath(path)), LastName(path)), path)

MoveFile(s, path, newPath, behind) == DeleteFile(CopyFile(s, path, newPath, behind), path)

-----------------------------------------------------------------------------
(* Start, and the steps *)

\* The table of a disk that is not formatted has room.
LoadShell(s) == WriteFile(CreateFile(s, Shell, <<>>, "file", 0), <<Shell>>, ShellImage)

FatSetupTable(s) == FatWrite([s EXCEPT !.fat[0] = FAT_SIGNATURE])

InitFs(d) ==
  LET s == FatRead([PoweredOn(d) EXCEPT !.status = "running"])
  IN IF s.fat[0] # FAT_SIGNATURE THEN LoadShell(FatSetupTable(s)) ELSE s

Init == disk = NewDisk /\ fs = PoweredOn(NewDisk)

\* A stopped kernel keeps nothing but the writes it had made.
Settled(s) ==
  IF s.status = "running" THEN s
  ELSE [PoweredOn(s.view) EXCEPT !.writes = s.writes, !.status = s.status]

\* kmain: init_fs, then create_user_process, which looks for the shell.
Boot ==
  /\ fs.status = "off"
  /\ fs' = LET s == InitFs(disk) IN Settled(NavigateFile(s, <<Shell>>).s)
  /\ UNCHANGED disk

DiskWrite ==
  /\ fs.writes # <<>>
  /\ disk' = Written(disk, Head(fs.writes))
  /\ fs' = [fs EXCEPT !.writes = Tail(@)]

Crash ==
  /\ fs.status # "off"
  /\ fs' = PoweredOn(disk)
  /\ UNCHANGED disk

\* A call is made when the writes of the one before are on the disk.
Call(s) ==
  /\ fs.status = "running" /\ fs.writes = <<>> /\ fs.calls < MaxCalls
  /\ fs' = Settled([s EXCEPT !.calls = @ + 1])
  /\ UNCHANGED disk

FilePaths == {Append(path, name) : path \in Paths, name \in Files}
DirectoryPaths == {Append(path, name) : path \in Paths, name \in Directories}

\* What a search behind the table may find.
Behind == {0} \cup BehindTable

Create ==
  \E path \in Paths, name \in Files, behind \in Behind :
    Call(CreateFile(fs, name, path, "file", behind))
CreateDirectory ==
  \E path \in Paths, name \in Directories, behind \in Behind :
    Call(CreateFile(fs, name, path, "directory", behind))
Write == \E path \in FilePaths, units \in Contents : Call(WriteFile(fs, path, units))
Rename ==
  \/ \E path \in FilePaths, new \in Files : Call(RenameFile(fs, path, new))
  \/ \E path \in DirectoryPaths, new \in Directories : Call(RenameFile(fs, path, new))
Copy ==
  \E path \in FilePaths, newPath \in Paths, behind \in Behind :
    Call(CopyFile(fs, path, newPath, behind))
Move ==
  \E path \in FilePaths, newPath \in Paths, behind \in Behind :
    Call(MoveFile(fs, path, newPath, behind))
Delete == \E path \in FilePaths \cup DirectoryPaths : Call(DeleteFile(fs, path))

Next ==
  \/ Boot \/ DiskWrite \/ Crash
  \/ Create \/ CreateDirectory \/ Write \/ Rename \/ Copy \/ Move \/ Delete

Spec == Init /\ [][Next]_vars

-----------------------------------------------------------------------------
(* Properties *)

\* The fields of the memory have the types the code declares.
FsTypeOK ==
  /\ fs.fat \in [0..ClusterCount -> 0..FAT_SIGNATURE]
  /\ disk.fat \in [0..ClusterCount -> 0..FAT_SIGNATURE]
  /\ fs.was_fat_read \in BOOLEAN /\ fs.was_root_read \in BOOLEAN
  /\ fs.root_entries \in 0..(RootEntries + EntriesPerSector - 1)
  /\ fs.status \in {"off", "running", "panic", "fault", "undefined"}
  /\ \A k \in 1..RootEntries :
       /\ fs.root[k].cluster \in 0..(SYSTEM_SECTORS - 1) /\ fs.root[k].size \in Nat
       /\ fs.root[k].name \in Names

\* The entries that a walk from the root directory of d can reach.
Listed(d) ==
  LET In(e) ==
        IF e.attributes # "directory" \/ e.cluster \notin Clusters THEN {}
        ELSE {d.data[e.cluster][k] : k \in 1..Min({e.size, EntriesPerSector})}
      InRoot == ToSet(d.root) \ {Blank}
      Below(S) == (UNION {In(e) : e \in S}) \ {Blank}
  IN InRoot \cup Below(InRoot) \cup Below(Below(InRoot))

Quiet == fs.status = "running" /\ fs.writes = <<>>

\* Whenever no call is under way, what the buffers hold and call valid is what is
\* on the disk: the flags was_fat_read and was_root_read never lie, whichever call
\* read, changed or wrote a buffer last.
CachesCoherent ==
  Quiet =>
    /\ fs.was_fat_read => fs.fat = disk.fat
    /\ fs.was_root_read =>
         \A k \in 1..InSectors(fs) : fs.root[k] = disk.root[k]

\* No two entries share a cluster, and the cluster of an entry is marked and is a
\* chain of its own: no sequence of calls gives a cluster to two files.  It is the
\* claim of a kernel that has not searched for a cluster behind a full table.
OneClusterEach ==
  Quiet =>
    /\ \A e \in Listed(disk) : e.cluster \in Clusters /\ disk.fat[e.cluster] = EOC
    /\ \A e, f \in Listed(disk) : e.cluster = f.cluster => e = f

\* A file of at most one cluster reads as what was last written to it, whatever
\* was created, copied, moved, renamed or deleted since.
SmallFilesReadBack ==
  Quiet =>
    \A e \in Listed(disk) :
      e.attributes = "file" /\ e.size <= EntriesPerSector =>
        SubSeq(disk.data[e.cluster], 1, e.size) = fs.written[e.cluster]

\* What becomes of the root directory, whose size in sectors is rounded down: the
\* entries of the first sector and those that complete a sector are on the disk,
\* and every other entry is lost when it is created.
RootKeepsWholeSectors ==
  Quiet =>
    \A k \in 1..Min({fs.root_entries, RootEntries}) :
      disk.root[k] = Blank <=> (k > EntriesPerSector /\ k % EntriesPerSector # 0)

\* At every moment, also between the writes of one call, an entry reaches the disk
\* only when its cluster is marked there: a crash never leaves a new entry whose
\* cluster would be given away again.  Only when every entry of the table on the disk
\* is taken, an entry reaches it whose cluster has no place in the table.
MarkedBeforeListed ==
  [][\A e \in Listed(disk') \ Listed(disk) :
       IF e.cluster \in Clusters THEN disk'.fat[e.cluster] # 0
       ELSE \A c \in Clusters : disk'.fat[c] # 0]_vars

\* "Initialize fat table and root directory if they weren't initialised yet" (fs.c:52),
\* and "When the OS first initializes we want to load our shell application"
\* (fs.c:81): on a disk that is formatted and has the shell, a start finds it.
ShellFoundAgain ==
  [][/\ fs.status = "off"
     /\ disk.fat[0] = FAT_SIGNATURE /\ \E e \in ToSet(disk.root) : FullName(e) = Shell
     => fs'.status = "running"]_vars

=============================================================================
