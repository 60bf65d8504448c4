------------------------------ MODULE OldSpace -------------------------------
(***************************************************************************)
(* The data pages of an isolate's old space: PageSpace of runtime/vm/pages.cc, *)
(* Heap::AllocateOld() of heap.cc and the SweeperTask of gc_sweeper.cc, which  *)
(* sweeps on a thread of the pool while the isolate allocates.                 *)
(*                                                                         *)
(* An object fills one slot of a page.  tasks_lock is held for whole actions;  *)
(* pages_lock_ and the lock of the free list are held within an action only.   *)
(***************************************************************************)
EXTENDS Integers, FiniteSets

CONSTANTS
  Pages,         \* the addresses that HeapPage::Allocate() may return
  NULL,
  SlotsPerPage,
  MaxPages       \* bound: max_capacity_in_words_, in pages

ASSUME OldSpaceAssumption ==
  /\ NULL \notin Pages
  /\ SlotsPerPage \in Nat \ {0}
  /\ MaxPages \in Nat

VARIABLES
  mapped,      \* the pages that are allocated
  pages_, pages_tail_, next,  \* the list of pages and HeapPage::next()
  capacity,    \* usage_.capacity_in_words, in pages
  freelist,    \* the slots of the elements of freelist_[kData]
  live,        \* the slots of the objects that the program can reach
  marked,      \* the slots of the objects with a mark bit
  tasks,       \* tasks_
  sweeper,     \* the SweeperTask
  mutator,     \* where the isolate's thread is
  waiting      \* that thread is in ml.Wait() on tasks_lock

heapVars == <<mapped, pages_, pages_tail_, next, capacity>>
vars == <<mapped, pages_, pages_tail_, next, capacity, freelist, live, marked, tasks,
          sweeper, mutator, waiting>>

Slots == 1 .. SlotsPerPage
SlotsOf(page) == {page} \X Slots

NoSweeper == [at |-> "none", page |-> NULL, prev_page |-> NULL, next_page |-> NULL,
              last_ |-> NULL, current |-> 1, in_use |-> FALSE]

\* Where the isolate's thread is; then: where it goes on after a collection; missed: the
\* attempt to allocate found the free list empty.
Place(at, then) == [at |-> at, then |-> then, missed |-> FALSE]

Init ==
  /\ mapped = {} /\ pages_ = NULL /\ pages_tail_ = NULL
  /\ next = [p \in Pages |-> NULL] /\ capacity = 0
  /\ freelist = {} /\ live = {} /\ marked = {}
  /\ tasks = 0 /\ sweeper = NoSweeper
  /\ mutator = Place("run", "run") /\ waiting = FALSE

-----------------------------------------------------------------------------
(* PageSpace                                                                *)

\* AllocatePage(): the page goes to the end of the list.
AllocatePage(page) ==
  /\ capacity < MaxPages /\ page \notin mapped
  /\ mapped' = mapped \union {page}
  /\ pages_' = IF pages_ = NULL THEN page ELSE pages_
  /\ next' = [p \in Pages |-> IF p = pages_tail_ /\ pages_ # NULL THEN page
                              ELSE IF p = page THEN NULL ELSE next[p]]
  /\ pages_tail_' = page
  /\ capacity' = capacity + 1

\* Mutant: the tail is left on the page that is gone.
FreePageKeepsTail(page, previous_page) ==
  /\ capacity' = capacity - 1
  /\ next' = [p \in Pages |-> IF p = page THEN NULL
                              ELSE IF p = previous_page THEN next[page] ELSE next[p]]
  /\ pages_' = IF previous_page # NULL THEN pages_ ELSE next[page]
  /\ mapped' = mapped \ {page}
  /\ UNCHANGED pages_tail_

\* FreePage()
FreePage(page, previous_page) ==
  /\ capacity' = capacity - 1
  /\ next' = [p \in Pages |-> IF p = page THEN NULL
                              ELSE IF p = previous_page THEN next[page] ELSE next[p]]
  /\ pages_' = IF previous_page # NULL THEN pages_ ELSE next[page]
  /\ pages_tail_' = IF page = pages_tail_ THEN previous_page ELSE pages_tail_
  /\ mapped' = mapped \ {page}

\* TryAllocate() with an element of the free list, and with a fresh page, whose remainder
\* goes to the free list.
TryAllocateInFreeList ==
  \E slot \in freelist :
    /\ freelist' = freelist \ {slot} /\ live' = live \union {slot}
    /\ UNCHANGED heapVars

TryAllocateInFreshPage ==
  \E page \in Pages :
    /\ AllocatePage(page)
    /\ live' = live \union {<<page, 1>>}
    /\ freelist' = freelist \union (SlotsOf(page) \ {<<page, 1>>})

\* A fresh page is refused: by the growth policy, whose answer without kForceGrowth is
\* open, at the maximum capacity, or because HeapPage::Allocate() gets no memory.
Refused ==
  UNCHANGED <<mapped, pages_, pages_tail_, next, capacity, freelist, live>>

Go(at) == mutator' = [mutator EXCEPT !.at = at]

\* Where the program enters AllocateOld(), a collection of garbage, the constructor of a
\* ForwardList and the destructor of the PageSpace.
Entries == {"try1", "scavenge", "forward", "destroy"}
At(at) == ~waiting /\ ~mutator.missed /\ (mutator.at = at \/ (mutator.at = "run" /\ at \in Entries))
Notify == waiting' = FALSE

-----------------------------------------------------------------------------
(* The isolate's thread                                                     *)

\* The program drops its last reference to an object.
Drop ==
  /\ At("run")
  /\ \E slot \in live : live' = live \ {slot}
  /\ UNCHANGED <<mapped, pages_, pages_tail_, next, capacity, freelist, marked, tasks,
                 sweeper, mutator, waiting>>

\* Where AllocateOld() goes on when an attempt fails and no task is under way.
AfterFailure(at) ==
  CASE at = "try1"   -> Place("lock1", "run")
    [] at = "lock1"  -> Place("scavenge", "try2")
    [] at = "try2"   -> Place("lock2", "run")
    [] at = "lock2"  -> Place("force", "run")
    [] at = "force"  -> Place("scavenge", "finish")
    [] at = "finish" -> Place("run", "run")

\* The attempts of AllocateOld(): first the free list; the sweeper may add to it before
\* the capacity is looked at.
AllocateOld(at) ==
  /\ At(at) /\ (at = "finish" => tasks = 0)
  /\ \/ TryAllocateInFreeList /\ Go("run")
     \/ /\ freelist = {} /\ mutator' = [mutator EXCEPT !.at = at, !.missed = TRUE]
        /\ UNCHANGED <<mapped, pages_, pages_tail_, next, capacity, freelist, live>>
  /\ UNCHANGED <<marked, tasks, sweeper, waiting>>

\* Then a fresh page.  The attempts at lock1 and lock2 hold tasks_lock, and wait for
\* the sweeper to free something before they fail.
AllocateOldFresh ==
  /\ mutator.missed
  /\ \/ TryAllocateInFreshPage /\ mutator' = Place("run", "run") /\ UNCHANGED waiting
     \/ /\ Refused
        /\ IF mutator.at \in {"lock1", "lock2"} /\ tasks > 0
           THEN waiting' = TRUE /\ mutator' = [mutator EXCEPT !.missed = FALSE]
           ELSE mutator' = AfterFailure(mutator.at) /\ UNCHANGED waiting
  /\ UNCHANGED <<marked, tasks, sweeper>>

\* tasks_lock is held between the two steps of such an attempt.
TasksLockFree == ~(mutator.missed /\ mutator.at \in {"lock1", "lock2"})

\* The wait for tasks() == 0 of MarkSweep(), AllocateOld(), ForwardList() and ~PageSpace().
WaitForTasks ==
  /\ \E at \in {"collect", "finish", "forward", "destroy"} : At(at) /\ Go(at)
  /\ tasks > 0 /\ waiting' = TRUE
  /\ UNCHANGED <<mapped, pages_, pages_tail_, next, capacity, freelist, live, marked,
                 tasks, sweeper>>

\* The scavenge before a collection may promote an object; it holds the lock of the free list.
Scavenge ==
  /\ At("scavenge") /\ Go("collect")
  /\ \/ TryAllocateInFreeList
     \/ freelist = {} /\ TryAllocateInFreshPage
     \/ UNCHANGED <<mapped, pages_, pages_tail_, next, capacity, freelist, live>>
  /\ UNCHANGED <<marked, tasks, sweeper, waiting>>

\* MarkSweep(): the driver task is accounted for.
MarkSweepBegins ==
  /\ At("collect") /\ tasks = 0 /\ tasks' = 1 /\ Go("mark")
  /\ UNCHANGED <<mapped, pages_, pages_tail_, next, capacity, freelist, live, marked,
                 sweeper, waiting>>

\* Mutant: the task is not counted when it is created.
StartSweepUncounted ==
  /\ sweeper' = [NoSweeper EXCEPT !.at = "next", !.page = pages_, !.last_ = pages_tail_]
  /\ UNCHANGED <<tasks, waiting>>

\* SweepConcurrent() and the constructor of the SweeperTask.
StartSweep ==
  /\ sweeper' = [NoSweeper EXCEPT !.at = "next", !.page = pages_, !.last_ = pages_tail_]
  /\ tasks' = tasks + 1 /\ Notify

\* MarkObjects(), the Reset() of the free list and the start of the sweeper.
Mark ==
  /\ At("mark") /\ Go("done")
  /\ marked' = live /\ freelist' = {}
  /\ StartSweep
  /\ UNCHANGED <<mapped, pages_, pages_tail_, next, capacity, live>>

MarkSweepEnds ==
  /\ At("done") /\ mutator' = Place(mutator.then, "run")
  /\ tasks' = tasks - 1 /\ Notify
  /\ UNCHANGED <<mapped, pages_, pages_tail_, next, capacity, freelist, live, marked, sweeper>>

\* ForwardList() keeps the tasks away while it uses the headers of objects.
ForwardList ==
  /\ At("forward") /\ tasks = 0 /\ tasks' = 1 /\ Go("forwarding")
  /\ UNCHANGED <<mapped, pages_, pages_tail_, next, capacity, freelist, live, marked,
                 sweeper, waiting>>

\* ~ForwardList()
ForwardListEnds ==
  /\ At("forwarding") /\ tasks' = 0 /\ Notify /\ Go("run")
  /\ UNCHANGED <<mapped, pages_, pages_tail_, next, capacity, freelist, live, marked, sweeper>>

\* ~PageSpace(): FreePages().
Destroy ==
  /\ At("destroy") /\ tasks = 0 /\ Go("gone")
  /\ mapped' = {} /\ next' = [p \in Pages |-> NULL] /\ live' = {} /\ freelist' = {}
  /\ UNCHANGED <<pages_, pages_tail_, capacity, marked, tasks, sweeper, waiting>>

-----------------------------------------------------------------------------
(* SweeperTask::Run()                                                       *)

\* The head of the loop.
SweepNextPage ==
  /\ sweeper.at = "next"
  /\ sweeper' = IF sweeper.page = NULL THEN [sweeper EXCEPT !.at = "end"]
                ELSE [sweeper EXCEPT !.at = "sweep", !.next_page = next[sweeper.page]]
  /\ UNCHANGED <<mapped, pages_, pages_tail_, next, capacity, freelist, live, marked,
                 tasks, mutator, waiting>>

\* free_end of the block of unmarked objects at current.
FreeEnd ==
  CHOOSE i \in sweeper.current .. SlotsPerPage + 1 :
    /\ i > SlotsPerPage \/ <<sweeper.page, i>> \in marked
    /\ \A j \in sweeper.current .. i - 1 : <<sweeper.page, j>> \notin marked

\* Mutant: a block that covers the whole page is put on the free list, too.
FreeBlockAlways ==
  freelist' = freelist \union ({sweeper.page} \X (sweeper.current .. FreeEnd - 1))

\* The block goes to the free list, unless it is the whole page.
FreeBlock ==
  freelist' = IF sweeper.current = 1 /\ FreeEnd > SlotsPerPage THEN freelist
              ELSE freelist \union ({sweeper.page} \X (sweeper.current .. FreeEnd - 1))

\* SweepPage(), object by object or block by block.
SweepPage ==
  /\ sweeper.at = "sweep" /\ sweeper.current <= SlotsPerPage
  /\ \/ /\ <<sweeper.page, sweeper.current>> \in marked
        /\ marked' = marked \ {<<sweeper.page, sweeper.current>>}
        /\ sweeper' = [sweeper EXCEPT !.current = @ + 1, !.in_use = TRUE]
        /\ UNCHANGED freelist
     \/ /\ <<sweeper.page, sweeper.current>> \notin marked
        /\ FreeBlock
        /\ sweeper' = [sweeper EXCEPT !.current = FreeEnd]
        /\ UNCHANGED marked
  /\ UNCHANGED <<mapped, pages_, pages_tail_, next, capacity, live, tasks, mutator, waiting>>

\* A page without a marked object is freed.
SweepPageEnds ==
  /\ sweeper.at = "sweep" /\ sweeper.current > SlotsPerPage
  /\ IF sweeper.in_use THEN UNCHANGED <<mapped, pages_, pages_tail_, next, capacity>>
     ELSE FreePage(sweeper.page, sweeper.prev_page)
  /\ sweeper' = [sweeper EXCEPT !.at = "notify", !.current = 1, !.in_use = FALSE,
                                !.prev_page = IF sweeper.in_use THEN sweeper.page ELSE @]
  /\ UNCHANGED <<freelist, live, marked, tasks, mutator, waiting>>

\* The mutator is told, and the loop ends at the page that was the last one.
SweepNotifies ==
  /\ sweeper.at = "notify" /\ TasksLockFree /\ Notify
  /\ sweeper' = IF sweeper.page = sweeper.last_ THEN [sweeper EXCEPT !.at = "end"]
                ELSE [sweeper EXCEPT !.at = "next", !.page = sweeper.next_page,
                                     !.next_page = NULL]
  /\ UNCHANGED <<mapped, pages_, pages_tail_, next, capacity, freelist, live, marked,
                 tasks, mutator>>

\* Mutant: the mutator is not told that the task is done.
SweepEndsSilently ==
  /\ sweeper.at = "end" /\ TasksLockFree /\ sweeper' = NoSweeper
  /\ tasks' = tasks - 1
  /\ UNCHANGED <<mapped, pages_, pages_tail_, next, capacity, freelist, live, marked,
                 mutator, waiting>>

SweepEnds ==
  /\ sweeper.at = "end" /\ TasksLockFree /\ sweeper' = NoSweeper
  /\ tasks' = tasks - 1 /\ Notify
  /\ UNCHANGED <<mapped, pages_, pages_tail_, next, capacity, freelist, live, marked, mutator>>

-----------------------------------------------------------------------------

\* A step of an operation on the isolate's thread.
MutatorStep ==
  \/ \E at \in {"try1", "lock1", "try2", "lock2", "force", "finish"} : AllocateOld(at)
  \/ AllocateOldFresh
  \/ WaitForTasks
  \/ Scavenge \/ MarkSweepBegins \/ Mark \/ MarkSweepEnds
  \/ ForwardList \/ ForwardListEnds
  \/ Destroy

SweeperStep ==
  SweepNextPage \/ SweepPage \/ SweepPageEnds \/ SweepNotifies \/ SweepEnds

Next == Drop \/ MutatorStep \/ SweeperStep

\* Operations that were entered go on, and the pool runs the task it has accepted.
Spec ==
  /\ Init /\ [][Next]_vars
  /\ WF_vars(mutator.at # "run" /\ MutatorStep) /\ WF_vars(SweeperStep)

-----------------------------------------------------------------------------
(* Properties                                                               *)

\* Memory is never taken from an object that the program can still reach, nor given out
\* on a page that is gone: objects that were allocated while the sweeper ran are in
\* pages it has passed or that were added behind last_ (SweepPage(), FreePage(), and
\* TryAllocate() beside them).
LiveObjectsSurvive ==
  /\ live \intersect freelist = {}
  /\ \A slot \in live \union freelist : slot[1] \in mapped

\* The pages that the list reaches in n steps.
PagesWithin[n \in Nat] ==
  IF n = 0 THEN {pages_} \ {NULL}
  ELSE PagesWithin[n - 1] \union ({next[p] : p \in PagesWithin[n - 1]} \ {NULL})

\* While pages are appended and freed beside each other the list holds the allocated
\* pages, pages_tail_ is its end, and the capacity is their number (AllocatePage() and
\* FreePage() with a previous_page that was read without the lock).
PageListIsWhole ==
  mutator.at # "gone" =>
    /\ PagesWithin[MaxPages] = mapped
    /\ capacity = Cardinality(mapped)
    /\ IF mapped = {} THEN pages_tail_ = NULL
       ELSE pages_tail_ \in mapped /\ next[pages_tail_] = NULL

\* tasks_ counts the collector, the sweeper and a ForwardList, so that none of them meets
\* another and the destructor meets none; and no mark bit is left when it is 0, as
\* Verify(kForbidMarked) of Isolate::Shutdown() wants it.
TasksCoverWork ==
  /\ tasks = (IF sweeper.at # "none" THEN 1 ELSE 0)
             + (IF mutator.at \in {"mark", "done", "forwarding"} THEN 1 ELSE 0)
  /\ mutator.at \in {"mark", "forwarding", "gone"} => sweeper.at = "none"
  /\ tasks = 0 => marked = {}

\* Every allocation, collection and destruction ends: whoever waits on tasks_lock is
\* notified after what it waits for (SweeperTask::Run(), MarkSweep(), ~PageSpace()).
OperationsEnd == (mutator.at # "run") ~> (mutator.at \in {"run", "gone"})
=============================================================================
