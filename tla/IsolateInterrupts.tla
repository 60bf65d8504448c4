-------------------------- MODULE IsolateInterrupts --------------------------
(***************************************************************************)
(* Interrupting an isolate through its stack limit (runtime/vm/isolate.cc). *)
(* Generated code compares the stack pointer with stack_limit_; another     *)
(* thread that wants its attention puts a huge value there whose low bits   *)
(* say why, while saved_stack_limit_ keeps the real limit.  "No interrupt   *)
(* is pending" is coded as stack_limit_ == saved_stack_limit_.              *)
(*                                                                         *)
(* A uword is a pair: the bits under kInterruptsMask, and the rest, of      *)
(* which only matters whether all bits are set (Top).                       *)
(***************************************************************************)
CONSTANTS
  Mask,       \* the bits of kInterruptsMask
  Sources,    \* the bits that are scheduled: by the embedder and the service
              \* (api), for an out-of-band message, for a full store buffer
  OwnSources, \* those that only the isolate schedules itself (store buffer)
  Limits,     \* high parts of real stack limits
  Top         \* the high part of ~0

\* What the constants are, for the theorems.
InterruptConstants ==
  /\ Mask # {} /\ Sources \subseteq Mask /\ OwnSources \subseteq Sources
  /\ Top \notin Limits

VARIABLES
  stack_limit_, saved_stack_limit_,
  entered,    \* does a thread run Dart code of the isolate?
  asked       \* history: interrupts that were scheduled and not yet taken

interruptVars == <<stack_limit_, saved_stack_limit_, entered, asked>>

Word(high, low) == [high |-> high, low |-> low]
AllOnes == Word(Top, Mask)   \* ~static_cast<uword>(0)

\* Isolate::Init() has set the limit for the thread that creates the isolate.
InterruptInit ==
  /\ stack_limit_ \in {Word(l, low) : l \in Limits, low \in SUBSET Mask}
  /\ saved_stack_limit_ = stack_limit_
  /\ entered = TRUE /\ asked = {}

\* "No interrupt pending, set stack_limit_ too", says the code of its test.
SetStackLimit(limit) ==
  /\ stack_limit_' = IF stack_limit_ = saved_stack_limit_ THEN limit ELSE stack_limit_
  /\ saved_stack_limit_' = limit

\* Any thread, under Isolate::mutex_.
ScheduleInterrupts(bits) ==
  /\ bits \intersect OwnSources # {} => entered
  /\ stack_limit_' =
       IF stack_limit_ = saved_stack_limit_ THEN Word(Top, bits)
       ELSE Word(stack_limit_.high, stack_limit_.low \union bits)
  /\ asked' = asked \union bits
  /\ UNCHANGED <<saved_stack_limit_, entered>>

\* StartIsolateScope and ScopedIsolateStackLimits; the latter also when Dart
\* code is entered again further down the stack.  A limit may have any low bits.

Enter ==
  /\ \E l \in Limits, low \in SUBSET Mask : SetStackLimit(Word(l, low))
  /\ entered' = TRUE
  /\ UNCHANGED asked

\* ClearStackLimit() at the end of either scope, or a SwitchIsolateScope.
Leave ==
  /\ SetStackLimit(AllOnes)
  /\ entered' = FALSE
  /\ UNCHANGED asked

\* A stack check that goes to the runtime: GetAndClearInterrupts().
GetAndClearInterrupts ==
  /\ entered
  /\ stack_limit_' = saved_stack_limit_
  /\ asked' = IF stack_limit_ = saved_stack_limit_ THEN asked ELSE asked \ stack_limit_.low
  /\ UNCHANGED <<saved_stack_limit_, entered>>

InterruptNext ==
  \/ \E b \in Sources : ScheduleInterrupts({b})
  \/ Enter
  \/ Leave
  \/ GetAndClearInterrupts

InterruptSpec == InterruptInit /\ [][InterruptNext]_interruptVars

-----------------------------------------------------------------------------

\* Types.
InterruptTypeOK ==
  /\ stack_limit_ \in [high : Limits \union {Top}, low : SUBSET Mask]
  /\ saved_stack_limit_ \in [high : Limits \union {Top}, low : SUBSET Mask]
  /\ entered \in BOOLEAN
  /\ asked \in SUBSET Sources

\* A scheduled interrupt is kept until a stack check takes it, however often
\* scopes move the stack limit in between: while one is outstanding, the limit
\* makes every stack check fail, and its low bits say exactly what was asked.
\* The code breaks this: an isolate that nobody runs has the limit ~0, and
\* once all bits of the mask are asked for, the word of the pending interrupts
\* is ~0 too; the next SetStackLimit() takes it for "no interrupt pending".
RequestsAreKept ==
  asked # {} => stack_limit_.high = Top /\ stack_limit_.low = asked

\* While Dart code runs undisturbed, the real stack limit is in force.
LimitIsInForce ==
  entered /\ asked = {} => stack_limit_ = saved_stack_limit_ /\ stack_limit_.high # Top

\* All interrupts are asked for while nobody runs the isolate.
AllAskedOutside == asked = Mask /\ ~entered

=============================================================================
