-------------------------------- MODULE Heap --------------------------------
(***************************************************************************)
(* The heap of the HAL (alt_sbrk.c): memory from the end of the program's  *)
(* data to a limit, of which a call takes a block or gives the last bytes  *)
(* back.  The interrupts are off inside the call.  A call may ask for any  *)
(* increment: the only test is the one against the limit.                  *)
(***************************************************************************)
EXTENDS Integers

CONSTANTS
    HEAP_START, HEAP_LIMIT,   \* __alt_heap_start, __alt_heap_limit
    ADDRESSES,                \* how many addresses a pointer has
    Increments                \* bound: the increments the program asks for

\* An increment is an int, and the heap is in the lower half of the addresses.
ASSUME HeapAssumption ==
    /\ {HEAP_START, HEAP_LIMIT, ADDRESSES} \subseteq Nat
    /\ HEAP_START <= HEAP_LIMIT /\ 2 * (HEAP_LIMIT + 4) <= ADDRESSES
    /\ Increments \subseteq Int
    /\ \A i \in Increments : -ADDRESSES <= 2 * i /\ 2 * i < ADDRESSES

VARIABLES
    heap_end,   \* the next free address
    blocks,     \* history: what the program was given and has, from first to before end
    taken       \* history: the bytes taken and not given back; -1 once more came back

heapVars == <<heap_end, blocks, taken>>

HeapInit == heap_end = HEAP_START /\ blocks = {} /\ taken = 0

\* data on a word boundary
Aligned(a) == ((a + 3) \div 4) * 4

\* The end after the call: an address below the first one is one of the last.
NewEnd(incr) ==
    LET end == Aligned(heap_end) + incr IN IF end < 0 THEN end + ADDRESSES ELSE end

\* What is left of the blocks when the end comes down to an address.
Below(end) ==
    {[first |-> b.first, end |-> IF b.end <= end THEN b.end ELSE end] :
        b \in {c \in blocks : c.first < end}}

Taken(incr) == IF taken < 0 \/ taken + incr < 0 THEN -1 ELSE taken + incr

\* A faulty variant of Grow: the limit is tested before the alignment.
Grow_TestFirst(incr) ==
    /\ incr > 0 /\ heap_end + incr <= HEAP_LIMIT
    /\ heap_end' = NewEnd(incr)
    /\ blocks' = blocks \cup {[first |-> Aligned(heap_end), end |-> heap_end']}
    /\ taken' = Taken(incr)

Grow(incr) ==
    /\ incr > 0 /\ NewEnd(incr) <= HEAP_LIMIT
    /\ heap_end' = NewEnd(incr)
    /\ blocks' = blocks \cup {[first |-> Aligned(heap_end), end |-> heap_end']}
    /\ taken' = Taken(incr)

\* A negative increment, or none.  Nothing keeps the end above the start.
Shrink(incr) ==
    /\ incr <= 0 /\ NewEnd(incr) <= HEAP_LIMIT
    /\ heap_end' = NewEnd(incr)
    /\ blocks' = Below(heap_end')
    /\ taken' = Taken(incr)

\* The call fails, but the end has been aligned.
NoMemory(incr) ==
    /\ NewEnd(incr) > HEAP_LIMIT
    /\ heap_end' = Aligned(heap_end)
    /\ UNCHANGED <<blocks, taken>>

HeapNext == \E incr \in Increments : Grow(incr) \/ Shrink(incr) \/ NoMemory(incr)
----------------------------------------------------------------------------
\* Blocks begin at a word boundary, end within the limit and below the place the
\* next one comes from, and do not overlap, whatever the increments: those that
\* were refused, and those that took the end below the start.  They lie above the
\* start too as long as the program has not given back more than it took, though
\* what it gives back is counted from an end that alignment has moved.
BlocksAreApart ==
    /\ \A b \in blocks :
          /\ b.first % 4 = 0 /\ b.first < b.end
          /\ b.end <= HEAP_LIMIT /\ b.end <= heap_end
          /\ taken >= 0 => HEAP_START <= b.first
    /\ \A b, c \in blocks : b = c \/ b.end <= c.first \/ c.end <= b.first
============================================================================
