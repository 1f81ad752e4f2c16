-------------------------------- MODULE Scratch -------------------------------
(***************************************************************************)
(* The scratch space (scratch_impl.h): a stack of frames below one limit,  *)
(* and pieces that are cut off the top frame.  With each frame is kept     *)
(* what its user asked for: n bytes in so many objects.                    *)
(***************************************************************************)
EXTENDS Integers, Sequences

CONSTANTS
    Alignment,      \* ALIGNMENT
    MaxFrames,      \* SECP256K1_SCRATCH_MAX_FRAMES
    Limits,         \* the sizes of scratch spaces tried
    Requests,       \* the sizes of frames tried
    Pieces,         \* the sizes of pieces tried
    SizeMax,        \* the values of size_t are 0 .. SizeMax - 1
    MaxObjects      \* bound on the objects of a frame; a user may cut one piece more

VARIABLE space      \* [at, max, frames], the lowest frame first

ASSUME ScratchAssumption ==
    /\ Alignment \in Nat \ {0}
    /\ MaxFrames \in Nat
    /\ SizeMax \in Nat \ {0}
    /\ MaxObjects \in Nat
    /\ Limits \subseteq Nat
    /\ Requests \subseteq Nat
    /\ Pieces \subseteq Nat

round_to_align(n) == ((n + Alignment - 1) \div Alignment) * Alignment

SpaceIdle == [at |-> "idle", max |-> 0, frames |-> <<>>]

scratch_create(max) == [at |-> "open", max |-> max, frames |-> <<>>]

runningTotal(frames) ==
    LET total[i \in 0 .. Len(frames)] == IF i = 0 THEN 0 ELSE total[i - 1] + frames[i].size IN total
allocatedIn(s) == runningTotal(s.frames)[Len(s.frames)]

\* The difference is that of two size_t.
scratch_max_allocation(s, objects) ==
    LET left == (s.max - allocatedIn(s)) % SizeMax
    IN IF left <= objects * Alignment THEN 0 ELSE left - objects * Alignment

\* That there is a frame left is only asserted, and only in test builds.
frameFits(s, n, objects) == n <= scratch_max_allocation(s, objects)
\* Mutant of newFrame: no room for the alignment of the objects.
newFrame_tight(n, objects) ==
    [size |-> n, offset |-> 0, n |-> n, objects |-> objects, used |-> 0, count |-> 0]

newFrame(n, objects) ==
    [size |-> n + objects * Alignment, offset |-> 0, n |-> n, objects |-> objects, used |-> 0, count |-> 0]
scratch_allocate_frame(s, n, objects) == [s EXCEPT !.frames = Append(@, newFrame(n, objects))]
scratch_deallocate_frame(s) == [s EXCEPT !.frames = SubSeq(@, 1, Len(@) - 1)]

\* A piece of the top frame, or NULL when it does not fit.
pieceFits(s, size) ==
    IF s.frames = <<>> THEN FALSE
    ELSE round_to_align(size) + s.frames[Len(s.frames)].offset <= s.frames[Len(s.frames)].size
cutOff(frame, size) ==
    [frame EXCEPT !.offset = @ + round_to_align(size), !.used = @ + size, !.count = @ + 1]
scratch_alloc(s, size) ==
    IF pieceFits(s, size) THEN [s EXCEPT !.frames[Len(s.frames)] = cutOff(@, size)] ELSE s

-------------------------------------------------------------------------------
(* A user of the scratch space; malloc may fail.                           *)

ScratchCreate(max) == space.at = "idle" /\ space' = scratch_create(max)

ScratchFrame(n, objects, malloc) ==
    /\ space.at = "open"
    /\ Len(space.frames) < MaxFrames
    /\ space' = IF frameFits(space, n, objects) /\ malloc THEN scratch_allocate_frame(space, n, objects)
                ELSE space

ScratchPiece(size) ==
    /\ space.at = "open"
    /\ \A i \in DOMAIN space.frames : space.frames[i].count <= MaxObjects
    /\ space' = scratch_alloc(space, size)

ScratchRelease ==
    /\ space.at = "open"
    /\ Len(space.frames) > 0
    /\ space' = scratch_deallocate_frame(space)

ScratchDestroy ==
    /\ space.at = "open"
    /\ Len(space.frames) = 0
    /\ space' = SpaceIdle

ScratchNext ==
    \/ \E max \in Limits : ScratchCreate(max)
    \/ \E n \in Requests, objects \in 0 .. MaxObjects, malloc \in BOOLEAN : ScratchFrame(n, objects, malloc)
    \/ \E size \in Pieces : ScratchPiece(size)
    \/ ScratchRelease
    \/ ScratchDestroy

-------------------------------------------------------------------------------
\* A frame keeps its word: as long as a user asks for no more bytes and no
\* more pieces than the frame was made for, every piece fits, whatever the
\* sizes are rounded up to; and the frames together stay below the limit.  A
\* frame of no bytes is the exception: it is granted beyond the limit, and the
\* room that is left is a huge number from then on.
FramesKeepTheirWord ==
    /\ (\A i \in DOMAIN space.frames : space.frames[i].n > 0) => allocatedIn(space) <= space.max
    /\ \A size \in Pieces : \A i \in {j \in DOMAIN space.frames : j = Len(space.frames)} :
         LET top == space.frames[i]
         IN top.used + size <= top.n /\ top.count < top.objects => pieceFits(space, size)
===============================================================================
