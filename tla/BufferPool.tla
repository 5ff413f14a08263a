----------------------------- MODULE BufferPool -----------------------------
(***************************************************************************)
(* The disk buffer pool: DiskBufferPool (disk_buffer_pool.cpp) over the    *)
(* frames of a BPManager (bp_manager.cpp), with the paged files on disk.   *)
(*                                                                         *)
(* Every function of DiskBufferPool is taken as a whole: the code has no   *)
(* lock, and callers are serialised here.  A page is its number and a      *)
(* body: the sub-header on page 0, an abstract value on any other page.    *)
(* Reads and writes of files may fail, at most MaxIOErrors times.  Callers *)
(* keep to the usual contract: a page is written through an open handle    *)
(* and marked dirty, a file is closed when no handle is on it, and page 0  *)
(* belongs to the pool.                                                    *)
(***************************************************************************)
EXTENDS Integers, FiniteSets

CONSTANTS
  NFrames,      \* BPManager::size
  Files,        \* the paged files
  NFileIds,     \* MAX_OPEN_FILE, and the number of file descriptors
  Handles,      \* the callers' BPPageHandles
  Values,       \* bodies of data pages
  Zero,         \* the body memset leaves in a page
  MaxPages,     \* bound on the pages of a file
  UINT_MAX,     \* the largest pin count
  MaxIOErrors,  \* bound on the reads and writes that fail
  None          \* a null pointer, or no entry

ASSUME SizesAssumption ==
  /\ NFrames \in Nat \ {0} /\ NFileIds \in Nat \ {0} /\ MaxPages \in Nat \ {0}
  /\ UINT_MAX \in Nat \ {0} /\ MaxIOErrors \in Nat
  /\ Zero \in Values

VARIABLES
  frames,       \* BPManager::frames, each with its page
  lru_pos,      \* the place of each frame in BPManager::frame_list, 1 the head
  list_map,     \* BPManager::list_map, from descriptor and page number
  open_list,    \* DiskBufferPool::open_list_
  fd_file,      \* the file behind each descriptor
  disk,         \* the pages of the files
  handles,      \* the callers' handles, with the page they asked for
  io_errors     \* reads and writes that have failed

vars == <<frames, lru_pos, list_map, open_list, fd_file, disk, handles, io_errors>>

Frames == 0 .. NFrames - 1
FileIds == 0 .. NFileIds - 1
Fds == 0 .. NFileIds - 1
PageNums == 0 .. MaxPages - 1
DataPages == PageNums \ {0}
Headers == [page_count : 1 .. MaxPages, allocated_pages : 0 .. MaxPages,
            bitmap : SUBSET PageNums]
Frame == [allocated : BOOLEAN, dirty : BOOLEAN, pin_count : 0 .. UINT_MAX,
          file_desc : Fds, page_num : PageNums, body : Values \cup Headers]
FileHandle == [file : Files, file_desc : Fds, hdr_frame : Frames]
PageHandle == [frame : Frames, file : Files, page : DataPages]

-----------------------------------------------------------------------------
(* BPManager.                                                              *)

\* The sub-headers a file can have, and a file on disk with one.
GoodHeaders ==
  {hdr \in Headers : /\ hdr.bitmap \subseteq 0 .. hdr.page_count - 1
                     /\ 0 \in hdr.bitmap
                     /\ hdr.allocated_pages = Cardinality(hdr.bitmap)}

FileWith(hdr) ==
  [p \in PageNums |-> IF p = 0 THEN hdr ELSE IF p < hdr.page_count THEN Zero ELSE None]

NoFile == [p \in PageNums |-> None]

\* BPManager::BPManager over the files that earlier runs left: page 0 holds
\* the sub-header, and every page it counts is in the file.
Init ==
  /\ frames = [f \in Frames |-> [allocated |-> FALSE, dirty |-> FALSE, pin_count |-> 0,
                                 file_desc |-> 0, page_num |-> 0, body |-> Zero]]
  /\ lru_pos = [f \in Frames |-> f + 1]
  /\ list_map = [k \in Fds \X PageNums |-> None]
  /\ open_list = [i \in FileIds |-> None]
  /\ fd_file = [fd \in Fds |-> None]
  /\ disk \in [Files -> {NoFile} \cup {FileWith(hdr) : hdr \in GoodHeaders}]
  /\ handles = [h \in Handles |-> None]
  /\ io_errors = 0

\* find_unallocated: the first free frame of the array.
find_unallocated(f) ==
  /\ ~frames[f].allocated
  /\ \A g \in Frames : ~frames[g].allocated => f <= g

\* Mutant of evict: the pin count is not looked at.
MutEvictPinned(f) ==
  /\ \A g \in Frames : frames[g].allocated
  /\ \A g \in Frames : lru_pos[g] <= lru_pos[f]

\* evict: with every frame in use, the unpinned frame nearest the tail.
evict(f) ==
  /\ \A g \in Frames : frames[g].allocated
  /\ frames[f].pin_count = 0
  /\ \A g \in Frames : frames[g].pin_count = 0 => lru_pos[g] <= lru_pos[f]

\* The frame that alloc hands out, if flushing it succeeds.
Victim(f) == find_unallocated(f) \/ evict(f)

\* Mutant of lru_update: the places behind the frame are moved too.
MutLruShift(f) == [g \in Frames |-> IF g = f THEN 1 ELSE lru_pos[g] + 1]


\* lru_update: delete the frame from the list and add it at the head.
lru_update(f) ==
  [g \in Frames |-> IF g = f THEN 1
                    ELSE IF lru_pos[g] < lru_pos[f] THEN lru_pos[g] + 1 ELSE lru_pos[g]]

\* evict erases the entry of the page that was in the frame.
Erased(f) ==
  IF frames[f].allocated
  THEN [list_map EXCEPT ![<<frames[f].file_desc, frames[f].page_num>>] = None]
  ELSE list_map

NeedsFlush(f) == frames[f].allocated /\ frames[f].dirty

\* flush_block of a frame whose page is body.
flush_block(d, f, body) ==
  [d EXCEPT ![fd_file[frames[f].file_desc]][frames[f].page_num] = body]

\* Mutant of WrittenBack: a dirty page is evicted without a flush.
MutNotWrittenBack(f) == disk

\* The files once alloc has evicted frame f.
WrittenBack(f) == IF NeedsFlush(f) THEN flush_block(disk, f, frames[f].body) ELSE disk

IOError == io_errors < MaxIOErrors /\ io_errors' = io_errors + 1

\* alloc(fd, p) hands out frame f, which its caller then turns into new.
\* base is the frames as the caller left them.
alloc(base, fd, p, f, new) ==
  /\ Victim(f)
  /\ frames' = [base EXCEPT ![f] = new]
  /\ list_map' = [Erased(f) EXCEPT ![<<fd, p>>] = f]
  /\ lru_pos' = lru_update(f)

\* alloc finds the write of the page it evicts failing: the entry is gone,
\* the frame keeps its page.
AllocFails(base, f) ==
  /\ Victim(f)
  /\ NeedsFlush(f)
  /\ IOError
  /\ frames' = base
  /\ list_map' = Erased(f)
  /\ UNCHANGED <<lru_pos, disk>>

\* A frame holding a page that was just brought in and pinned.
Loaded(fd, p, body) ==
  [allocated |-> TRUE, dirty |-> FALSE, pin_count |-> 1,
   file_desc |-> fd, page_num |-> p, body |-> body]

\* A frame after a load that failed: unpinned, and dispose_block has freed it.
Unloaded(base, fd, f) ==
  [base[f] EXCEPT !.allocated = FALSE, !.dirty = FALSE, !.pin_count = 0, !.file_desc = fd]

\* load_page reads past the end of the file.
PastEnd(d, file, p) == \A q \in PageNums : q >= p => d[file][q] = None

\* load_page: a page never written, before the end, reads as zeros.
load_page(d, file, fd, p) ==
  IF d[file][p] = None THEN Loaded(fd, 0, Zero) ELSE Loaded(fd, p, d[file][p])

-----------------------------------------------------------------------------
(* DiskBufferPool.                                                         *)

OpenIds == {i \in FileIds : open_list[i] # None}

hdr_frame(i) == frames[open_list[i].hdr_frame]
file_sub_header(i) == hdr_frame(i).body

\* The handle of the file still leads to its header.  Where it does not, the
\* code computes with the bytes of another page: the model stops there.
HeaderIntact(i) ==
  /\ hdr_frame(i).file_desc = open_list[i].file_desc
  /\ hdr_frame(i).page_num = 0
  /\ file_sub_header(i) \in Headers

\* The first free slot of open_list_ and the lowest free descriptor.
FreeSlot(i) == open_list[i] = None /\ \A j \in FileIds : open_list[j] = None => i <= j
FreeFd(fd) == fd_file[fd] = None /\ \A g \in Fds : fd_file[g] = None => fd <= g

\* create_file: the header alone, with page 0 in use.
create_file(file) ==
  /\ disk[file] = NoFile
  /\ disk' = [disk EXCEPT ![file] =
                FileWith([page_count |-> 1, allocated_pages |-> 1, bitmap |-> {0}])]
  /\ UNCHANGED <<frames, lru_pos, list_map, open_list, fd_file, handles, io_errors>>

CanOpen(file, i, fd) ==
  /\ disk[file] # NoFile
  /\ \A j \in OpenIds : open_list[j].file # file
  /\ FreeSlot(i)
  /\ FreeFd(fd)

\* open_file, the file not being open already: the header is brought in
\* through alloc, without a look at list_map, and stays pinned.
open_file(file) ==
  \E i \in FileIds, fd \in Fds, f \in Frames :
    /\ CanOpen(file, i, fd)
    /\ alloc(frames, fd, 0, f, load_page(WrittenBack(f), file, fd, 0))
    /\ disk' = WrittenBack(f)
    /\ open_list' = [open_list EXCEPT
                       ![i] = [file |-> file, file_desc |-> fd, hdr_frame |-> f]]
    /\ fd_file' = [fd_file EXCEPT ![fd] = file]
    /\ UNCHANGED <<handles, io_errors>>

OpenFails(file) ==
  \E i \in FileIds, fd \in Fds, f \in Frames :
    /\ CanOpen(file, i, fd)
    /\ \/ AllocFails(frames, f)
       \/ /\ alloc(frames, fd, 0, f, Unloaded(frames, fd, f))
          /\ disk' = WrittenBack(f)
          /\ IOError
    /\ UNCHANGED <<open_list, fd_file, handles>>

\* check_page_num.
check_page_num(i, p) ==
  /\ p < file_sub_header(i).page_count
  /\ p \in file_sub_header(i).bitmap

Holding(f, file, p) == [frame |-> f, file |-> file, page |-> p]

\* Mutant of GetCached: the page is handed out without a pin.
MutGetUnpinned(base, i, p, h) ==
  LET f == list_map[<<open_list[i].file_desc, p>>]
  IN  /\ f # None
      /\ frames' = base
      /\ lru_pos' = lru_update(f)
      /\ handles' = [handles EXCEPT ![h] = Holding(f, open_list[i].file, p)]
      /\ UNCHANGED <<list_map, disk>>

\* get_this_page past its checks, the page being in the map.
GetCached(base, i, p, h) ==
  LET f == list_map[<<open_list[i].file_desc, p>>]
  IN  /\ f # None
      /\ base[f].pin_count < UINT_MAX
      /\ frames' = [base EXCEPT ![f].pin_count = @ + 1]
      /\ lru_pos' = lru_update(f)
      /\ handles' = [handles EXCEPT ![h] = Holding(f, open_list[i].file, p)]
      /\ UNCHANGED <<list_map, disk>>

\* Mutant of GetLoaded: the page is read without a look at the map.
MutGetReloaded(base, i, p, h) ==
  LET fd == open_list[i].file_desc
      file == open_list[i].file
  IN  \E f \in Frames :
        /\ ~PastEnd(WrittenBack(f), file, p)
        /\ alloc(base, fd, p, f, load_page(WrittenBack(f), file, fd, p))
        /\ disk' = WrittenBack(f)
        /\ handles' = [handles EXCEPT ![h] = Holding(f, file, p)]

\* get_this_page past its checks, the page being read from the file.
GetLoaded(base, i, p, h) ==
  LET fd == open_list[i].file_desc
      file == open_list[i].file
  IN  /\ list_map[<<fd, p>>] = None
      /\ \E f \in Frames :
           /\ ~PastEnd(WrittenBack(f), file, p)
           /\ alloc(base, fd, p, f, load_page(WrittenBack(f), file, fd, p))
           /\ disk' = WrittenBack(f)
           /\ handles' = [handles EXCEPT ![h] = Holding(f, file, p)]

GetPage(base, i, p, h) ==
  /\ handles[h] = None
  /\ GetCached(base, i, p, h) \/ GetLoaded(base, i, p, h)
  /\ UNCHANGED <<open_list, fd_file, io_errors>>

\* Every frame is allocated and pinned: alloc returns null.
NoVictim == \A f \in Frames : frames[f].allocated /\ frames[f].pin_count # 0

\* get_this_page reports an error for want of a frame.
GetFindsNoFrame(base, i, p) ==
  /\ list_map[<<open_list[i].file_desc, p>>] = None
  /\ NoVictim
  /\ frames' = base
  /\ UNCHANGED <<lru_pos, list_map, disk, open_list, fd_file, handles, io_errors>>

\* get_this_page reports an error because a file could not be read or written.
GetFails(base, i, p) ==
  LET fd == open_list[i].file_desc
  IN  /\ list_map[<<fd, p>>] = None
      /\ \E f \in Frames :
           \/ AllocFails(base, f)
           \/ /\ alloc(base, fd, p, f, Unloaded(base, fd, f))
              /\ disk' = WrittenBack(f)
              /\ IF PastEnd(WrittenBack(f), open_list[i].file, p)
                 THEN UNCHANGED io_errors ELSE IOError
      /\ UNCHANGED <<open_list, fd_file, handles>>

get_this_page(i, p, h) ==
  /\ HeaderIntact(i)
  /\ check_page_num(i, p)
  /\ GetPage(frames, i, p, h)

GetThisPageFails(i, p) ==
  /\ HeaderIntact(i)
  /\ check_page_num(i, p)
  /\ GetFails(frames, i, p)

\* The lowest page that the bitmap says is free.
FreePage(i, p) ==
  LET hdr == file_sub_header(i)
      free == (0 .. hdr.page_count - 1) \ hdr.bitmap
  IN  /\ hdr.allocated_pages < hdr.page_count
      /\ p \in free
      /\ \A q \in free : p <= q

\* allocate_page sets the bit of a free page, without marking the header.
Reusing(i, p) ==
  [frames EXCEPT ![open_list[i].hdr_frame].body.allocated_pages = @ + 1,
                 ![open_list[i].hdr_frame].body.bitmap = @ \cup {p}]

\* allocate_page where the file has a free page.
ReusePage(i, h) ==
  \E p \in DataPages :
    /\ FreePage(i, p)
    /\ GetPage(Reusing(i, p), i, p, h)

\* allocate_page where the free page cannot be brought in: its bit stays set.
ReuseFindsNoFrame(i) ==
  \E p \in DataPages : FreePage(i, p) /\ GetFindsNoFrame(Reusing(i, p), i, p)

ReuseFails(i) ==
  \E p \in DataPages : FreePage(i, p) /\ GetFails(Reusing(i, p), i, p)

\* Mutant of Extending: the page is not counted as allocated.
MutExtendUncounted(i, p) ==
  [frames EXCEPT ![open_list[i].hdr_frame].dirty = TRUE,
                 ![open_list[i].hdr_frame].body.page_count = @ + 1,
                 ![open_list[i].hdr_frame].body.bitmap = @ \cup {p}]

\* allocate_page counts one more page in the header and marks it.
Extending(i, p) ==
  [frames EXCEPT ![open_list[i].hdr_frame].dirty = TRUE,
                 ![open_list[i].hdr_frame].body.page_count = @ + 1,
                 ![open_list[i].hdr_frame].body.allocated_pages = @ + 1,
                 ![open_list[i].hdr_frame].body.bitmap = @ \cup {p}]

\* The file must grow, into a frame that is not the one of its header.
NeedsExtension(i, p, f) ==
  /\ \A q \in DataPages : ~FreePage(i, q)
  /\ p = file_sub_header(i).page_count
  /\ p < MaxPages
  /\ f # open_list[i].hdr_frame

\* allocate_page where the file grows: the new page is flushed at once.
ExtendFile(i, h) ==
  LET fd == open_list[i].file_desc
      file == open_list[i].file
  IN  \E f \in Frames, p \in DataPages :
        /\ handles[h] = None
        /\ NeedsExtension(i, p, f)
        /\ alloc(Extending(i, p), fd, p, f, Loaded(fd, p, Zero))
        /\ disk' = [WrittenBack(f) EXCEPT ![file][p] = Zero]
        /\ handles' = [handles EXCEPT ![h] = Holding(f, file, p)]
        /\ UNCHANGED <<open_list, fd_file, io_errors>>

\* allocate_page where a write fails: of the page evicted, before anything has
\* changed, or of the new page, which then stays counted and pinned.
ExtendFails(i) ==
  LET fd == open_list[i].file_desc
  IN  \E f \in Frames, p \in DataPages :
        /\ NeedsExtension(i, p, f)
        /\ \/ AllocFails(frames, f)
           \/ /\ alloc(Extending(i, p), fd, p, f, Loaded(fd, p, Zero))
              /\ disk' = WrittenBack(f)
              /\ IOError
        /\ UNCHANGED <<open_list, fd_file, handles>>

allocate_page(i, h) ==
  /\ HeaderIntact(i)
  /\ ReusePage(i, h) \/ ExtendFile(i, h)

AllocatePageFindsNoFrame(i) == HeaderIntact(i) /\ ReuseFindsNoFrame(i)

AllocatePageFails(i) ==
  /\ HeaderIntact(i)
  /\ ReuseFails(i) \/ ExtendFails(i)

\* Mutant of mark_dirty: the flag is not set.
MutNotMarked(h, v) ==
  /\ handles[h] # None
  /\ frames' = [frames EXCEPT ![handles[h].frame].body = v]
  /\ UNCHANGED <<lru_pos, list_map, open_list, fd_file, disk, handles, io_errors>>

\* A caller writes through get_data and calls mark_dirty.
mark_dirty(h, v) ==
  /\ handles[h] # None
  /\ frames' = [frames EXCEPT ![handles[h].frame].body = v,
                              ![handles[h].frame].dirty = TRUE]
  /\ UNCHANGED <<lru_pos, list_map, open_list, fd_file, disk, handles, io_errors>>

\* pin_count is unsigned.
Unpinned(n) == IF n = 0 THEN UINT_MAX ELSE n - 1

unpin_page(h) ==
  /\ handles[h] # None
  /\ frames' = [frames EXCEPT ![handles[h].frame].pin_count = Unpinned(@)]
  /\ handles' = [handles EXCEPT ![h] = None]
  /\ UNCHANGED <<lru_pos, list_map, open_list, fd_file, disk, io_errors>>

\* dispose_page: refused for a pinned page; the frame of an unpinned one is
\* freed, with its entry still in the map.
dispose_page(i, p) ==
  LET f == list_map[<<open_list[i].file_desc, p>>]
      hdr == open_list[i].hdr_frame
      freed == IF f = None THEN frames ELSE [frames EXCEPT ![f].allocated = FALSE]
  IN  /\ HeaderIntact(i)
      /\ check_page_num(i, p)
      /\ f # None => frames[f].pin_count = 0
      /\ frames' = [freed EXCEPT ![hdr].dirty = TRUE,
                                 ![hdr].body.allocated_pages = @ - 1,
                                 ![hdr].body.bitmap = @ \ {p}]
      /\ UNCHANGED <<lru_pos, list_map, open_list, fd_file, disk, handles, io_errors>>

\* The frames that force_all_pages(fd) visits, up to frame n.
Forced(fd, n) == {f \in Frames : f < n /\ frames[f].allocated /\ frames[f].file_desc = fd}

\* force_all_pages: each frame of the file is flushed if dirty and freed.
ForcedFrames(S) ==
  [f \in Frames |-> IF f \in S THEN [frames[f] EXCEPT !.allocated = FALSE, !.dirty = FALSE]
                               ELSE frames[f]]

ForcedDisk(fd, S) ==
  [disk EXCEPT ![fd_file[fd]] = [p \in PageNums |->
     LET dirty == {f \in S : frames[f].dirty /\ frames[f].page_num = p}
     IN  IF dirty = {} THEN @[p] ELSE frames[CHOOSE f \in dirty : \A g \in dirty : g <= f].body]]

force_all_pages(fd) ==
  /\ frames' = ForcedFrames(Forced(fd, NFrames))
  /\ disk' = ForcedDisk(fd, Forced(fd, NFrames))

\* force_all_pages stops at the first page it cannot write.
ForceFails(fd) ==
  \E n \in Frames :
    /\ n \in Forced(fd, NFrames) /\ frames[n].dirty
    /\ frames' = ForcedFrames(Forced(fd, n))
    /\ disk' = ForcedDisk(fd, Forced(fd, n))
    /\ IOError

flush_all_pages(i) ==
  /\ \/ force_all_pages(open_list[i].file_desc) /\ UNCHANGED io_errors
     \/ ForceFails(open_list[i].file_desc)
  /\ UNCHANGED <<lru_pos, list_map, open_list, fd_file, handles>>

\* close_file, by a caller that holds no page of the file.
close_file(i) ==
  LET fd == open_list[i].file_desc
      hdr == open_list[i].hdr_frame
  IN  /\ HeaderIntact(i)
      /\ \A h \in Handles : handles[h] # None => handles[h].file # open_list[i].file
      /\ \/ /\ frames' = [ForcedFrames(Forced(fd, NFrames)) EXCEPT
                            ![hdr].pin_count = Unpinned(@)]
            /\ disk' = ForcedDisk(fd, Forced(fd, NFrames))
            /\ open_list' = [open_list EXCEPT ![i] = None]
            /\ fd_file' = [fd_file EXCEPT ![fd] = None]
            /\ UNCHANGED io_errors
         \/ ForceFails(fd) /\ UNCHANGED <<open_list, fd_file>>
      /\ UNCHANGED <<lru_pos, list_map, handles>>

-----------------------------------------------------------------------------
(* Specifications.                                                         *)

\* A server that opens files, and reads, adds and changes pages.
SteadyNext ==
  \/ \E file \in Files : create_file(file)
  \/ \E file \in Files : open_file(file)
  \/ \E i \in OpenIds, p \in DataPages, h \in Handles : get_this_page(i, p, h)
  \/ \E i \in OpenIds, h \in Handles : allocate_page(i, h)
  \/ \E i \in OpenIds : AllocatePageFindsNoFrame(i)
  \/ \E h \in Handles, v \in Values : mark_dirty(h, v)
  \/ \E h \in Handles : unpin_page(h)

SteadySpec == Init /\ [][SteadyNext]_vars

\* The same with pages given back, and with SYNC.
DisposeSpec == Init /\ [][SteadyNext \/ \E i \in OpenIds, p \in DataPages : dispose_page(i, p)]_vars
SyncSpec == Init /\ [][SteadyNext \/ \E i \in OpenIds : flush_all_pages(i)]_vars

\* Every function of the pool, and files that cannot be read or written.
Next ==
  \/ SteadyNext
  \/ \E file \in Files : OpenFails(file)
  \/ \E i \in OpenIds, p \in DataPages : GetThisPageFails(i, p)
  \/ \E i \in OpenIds : AllocatePageFails(i)
  \/ \E i \in OpenIds, p \in DataPages : dispose_page(i, p)
  \/ \E i \in OpenIds : flush_all_pages(i)
  \/ \E i \in OpenIds : close_file(i)

Spec == Init /\ [][Next]_vars

-----------------------------------------------------------------------------
(* Properties.                                                             *)

\* The state has its type.
TypeOK ==
  /\ frames \in [Frames -> Frame]
  /\ lru_pos \in [Frames -> 1 .. NFrames]
  /\ list_map \in [Fds \X PageNums -> Frames \cup {None}]
  /\ open_list \in [FileIds -> FileHandle \cup {None}]
  /\ fd_file \in [Fds -> Files \cup {None}]
  /\ disk \in [Files -> [PageNums -> Values \cup Headers \cup {None}]]
  /\ handles \in [Handles -> PageHandle \cup {None}]
  /\ io_errors \in 0 .. MaxIOErrors

\* The header of a file as callers see it through the pool.
Header(file) ==
  IF \E i \in OpenIds : open_list[i].file = file
  THEN file_sub_header(CHOOSE i \in OpenIds : open_list[i].file = file)
  ELSE disk[file][0]

UsedPages ==
  [file \in Files |-> IF disk[file] = NoFile THEN {} ELSE Header(file).bitmap \ {0}]

\* The frame list_map names for a page of an open file.
CachedIn(file, p) ==
  IF \E fd \in Fds : fd_file[fd] = file
  THEN list_map[<<CHOOSE fd \in Fds : fd_file[fd] = file, p>>]
  ELSE None

\* What reading a page through the pool yields now.
CurrentBody(file, p) ==
  IF CachedIn(file, p) # None THEN frames[CachedIn(file, p)].body ELSE disk[file][p]

CurrentStore ==
  [file \in Files |-> [p \in DataPages |->
     IF p \in UsedPages[file] THEN CurrentBody(file, p) ELSE None]]

HeldPages ==
  [h \in Handles |-> IF handles[h] = None THEN None
                     ELSE [file |-> handles[h].file, page |-> handles[h].page]]

Store == INSTANCE PageStore WITH used <- UsedPages, store <- CurrentStore, held <- HeldPages

\* The pool is a page store: bringing pages in, evicting and writing them back
\* changes nothing that a caller can see, get_this_page gives out pages in
\* use, allocate_page pages that were free, and a write through a handle
\* changes that page alone.
ImplementsStore == Store!Spec

\* The frame of an open handle holds the page that get_this_page or
\* allocate_page was asked for, until unpin_page, as the comment of that
\* function promises.
HeldPagesStay ==
  \A h \in Handles : handles[h] # None =>
    LET f == frames[handles[h].frame]
    IN  /\ fd_file[f.file_desc] = handles[h].file
        /\ f.page_num = handles[h].page

\* No page of a file is in two frames, where writes would miss each other, and
\* list_map leads to every page that is in a frame.
CachedOnce ==
  \A f \in Frames : frames[f].allocated =>
    list_map[<<frames[f].file_desc, frames[f].page_num>>] = f

\* A page in a frame that is not marked dirty is the same on disk: evicting
\* it loses nothing.
CleanPagesOnDisk ==
  \A f \in Frames :
    frames[f].allocated /\ ~frames[f].dirty /\ frames[f].page_num # 0 =>
      frames[f].body = disk[fd_file[frames[f].file_desc]][frames[f].page_num]

\* As above for the sub-headers, which the pool itself changes.
CleanHeadersOnDisk ==
  \A i \in OpenIds : hdr_frame(i).dirty \/ file_sub_header(i) = disk[open_list[i].file][0]

\* The pin count of a frame is the number of handles on it, and one for the
\* header of an open file: an unpin can not expose a page another handle uses.
PinsCountHolders ==
  \A f \in Frames : frames[f].allocated =>
    frames[f].pin_count = Cardinality({h \in Handles : handles[h] # None /\ handles[h].frame = f})
                          + Cardinality({i \in OpenIds : open_list[i].hdr_frame = f})

\* The handle of an open file leads to its sub-header.
HeadersStay == \A i \in OpenIds : HeaderIntact(i)



\* The page counts of a sub-header agree with its bitmap, so allocate_page
\* finds a free page exactly if there is one.
HeaderCounts ==
  \A i \in OpenIds : HeaderIntact(i) =>
    /\ file_sub_header(i).allocated_pages = Cardinality(file_sub_header(i).bitmap)
    /\ file_sub_header(i).bitmap \subseteq 0 .. file_sub_header(i).page_count - 1
=============================================================================
