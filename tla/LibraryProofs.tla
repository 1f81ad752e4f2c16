----------------------------- MODULE LibraryProofs -----------------------------
(***************************************************************************)
(* Theorems about the library: whatever the alignment, the limit and the   *)
(* sizes asked for, the frames of a scratch space keep their word; in a    *)
(* group of any odd order a tally holds exactly when amounts balance; and  *)
(* sums of products give their scratch space back.  The lemmas on scalars, *)
(* sums, powers and points are those that the modules which extend it go   *)
(* by.                                                                     *)
(***************************************************************************)
EXTENDS EcMult, Commitments, FiniteSetTheorems, SequenceTheorems, WellFoundedInduction, TLAPS

ScratchSpec == space = SpaceIdle /\ [][ScratchNext]_space

-------------------------------------------------------------------------------
(* The totals of a stack of frames.                                        *)

\* A set of numbers that is not empty has a least one.
LEMMA LeastOf ==
    ASSUME NEW S, S \subseteq Nat, S # {}
    PROVE  \E m \in S : \A k \in S : m <= k
<1>1. IsWellFoundedOn(OpToRel(<, Nat), Nat)
      BY NatLessThanWellFounded
<1>2. PICK m \in S : \A k \in S : ~ (<<k, m>> \in OpToRel(<, Nat))
      BY <1>1, WFMin, Zenon
<1>3. \A k \in S : ~ (k < m)
      BY <1>2 DEF OpToRel
<1>4. QED
      BY <1>3

Frame == [size : Nat, offset : Nat, n : Nat, objects : Nat, used : Nat, count : Nat]

\* f adds up the sizes of the first n frames.
AddsUp(f, frames, n) ==
    /\ f \in [0 .. n -> Nat]
    /\ f[0] = 0
    /\ \A i \in 1 .. n : f[i] = f[i - 1] + frames[i].size

\* Totals exist for every stack.
LEMMA TotalsExist ==
    ASSUME NEW frames \in Seq(Frame)
    PROVE  \E f : AddsUp(f, frames, Len(frames))
<1> DEFINE bad == {n \in 0 .. Len(frames) : ~ \E f : AddsUp(f, frames, n)}
<1>1. SUFFICES ASSUME bad # {} PROVE FALSE
      <2>1. Len(frames) \in Nat
            OBVIOUS
      <2>2. QED
            BY <1>1, <2>1
<1>2. PICK m \in bad : \A k \in bad : m <= k
      <2>1. bad \subseteq Nat
            OBVIOUS
      <2> HIDE DEF bad
      <2>2. QED
            BY <1>1, <2>1, LeastOf, Zenon
<1>3. m \in 0 .. Len(frames) /\ ~ \E f : AddsUp(f, frames, m)
      BY <1>2
<1>4. m # 0
      <2>1. AddsUp([i \in 0 .. 0 |-> 0], frames, 0)
            BY DEF AddsUp
      <2>2. QED
            BY <1>3, <2>1
<1>5. m - 1 \in 0 .. Len(frames) /\ ~ (m - 1 \in bad)
      <2>1. m \in 1 .. Len(frames)
            BY <1>3, <1>4
      <2> HIDE DEF bad
      <2>2. QED
            BY <1>2, <2>1
<1>6. PICK f : AddsUp(f, frames, m - 1)
      BY <1>5
<1> DEFINE g == [i \in 0 .. m |-> IF i = m THEN f[m - 1] + frames[m].size ELSE f[i]]
<1>7. AddsUp(g, frames, m)
      <2>1. m \in 1 .. Len(frames) /\ frames[m] \in Frame
            BY <1>3, <1>4
      <2>2. f \in [0 .. m - 1 -> Nat] /\ f[0] = 0
            BY <1>6 DEF AddsUp
      <2>3. \A i \in 1 .. m - 1 : f[i] = f[i - 1] + frames[i].size
            BY <1>6 DEF AddsUp
      <2>4. frames[m].size \in Nat
            BY <2>1 DEF Frame
      <2>5. g \in [0 .. m -> Nat]
            BY <2>1, <2>2, <2>4
      <2>6. g[0] = 0
            BY <2>1, <2>2
      <2>7. ASSUME NEW i \in 1 .. m PROVE g[i] = g[i - 1] + frames[i].size
            BY <2>1, <2>2, <2>3
      <2>8. QED
            BY <2>5, <2>6, <2>7 DEF AddsUp
<1>8. QED
      BY <1>3, <1>7

\* What runningTotal computes.
LEMMA RunningTotal ==
    ASSUME NEW frames \in Seq(Frame)
    PROVE  AddsUp(runningTotal(frames), frames, Len(frames))
<1> DEFINE n == Len(frames)
           next(f, i) == IF i = 0 THEN 0 ELSE f[i - 1] + frames[i].size
           t == runningTotal(frames)
<1>1. PICK f : AddsUp(f, frames, n)
      BY TotalsExist
<1>2. f = [i \in 0 .. n |-> next(f, i)]
      BY <1>1 DEF AddsUp
<1>3. t = CHOOSE total : total = [i \in 0 .. n |-> next(total, i)]
      BY DEF runningTotal
<1>4. t = [i \in 0 .. n |-> next(t, i)]
      <2> HIDE DEF next, n, t
      <2>1. QED
            BY <1>2, <1>3
<1>5. t[0] = 0 /\ \A i \in 1 .. n : t[i] = t[i - 1] + frames[i].size
      BY <1>4
<1>6. \A i \in 0 .. n : t[i] \in Nat
      <2> DEFINE bad == {i \in 0 .. n : t[i] \notin Nat}
      <2>1. SUFFICES ASSUME bad # {} PROVE FALSE
            BY <2>1
      <2>2. n \in Nat /\ \A i \in 1 .. n : frames[i].size \in Nat
            <3>1. n \in Nat /\ \A i \in 1 .. n : frames[i] \in Frame
                  OBVIOUS
            <3>2. \A f1 \in Frame : f1.size \in Nat
                  BY DEF Frame
            <3> HIDE DEF t, n, next, bad
            <3>3. QED
                  BY <3>1, <3>2
      <2>3. bad \subseteq Nat
            BY <2>2
      <2>4. PICK m \in bad : \A k \in bad : m <= k
            <3> HIDE DEF bad
            <3>1. QED
                  BY <2>1, <2>3, LeastOf, Zenon
      <2>5. m \in 1 .. n /\ t[m] \notin Nat
            <3> HIDE DEF t, n
            <3>1. m \in 0 .. n /\ t[m] \notin Nat
                  BY <2>4
            <3>2. QED
                  BY <3>1, <1>5, <2>2
      <2>6. t[m - 1] \in Nat
            <3>1. m - 1 \in 0 .. n /\ m - 1 < m
                  BY <2>2, <2>5
            <3>2. m - 1 \notin bad
                  <4> HIDE DEF bad, t, n
                  <4>1. QED
                        BY <2>3, <2>4, <3>1
            <3> HIDE DEF t, n
            <3>3. QED
                  BY <3>1, <3>2
      <2> HIDE DEF t, n, bad
      <2>7. QED
            BY <1>5, <2>2, <2>5, <2>6
<1>7. DOMAIN t = 0 .. n
      <2> HIDE DEF t, n, next
      <2>1. QED
            BY <1>4
<1>8. t \in [0 .. n -> Nat]
      <2> HIDE DEF t, n, next
      <2>1. t = [i \in 0 .. n |-> t[i]]
            BY <1>4
      <2>2. QED
            BY <1>6, <2>1
<1>9. QED
      BY <1>5, <1>8 DEF AddsUp

\* Stacks that agree on their lower frames have the same lower totals.
LEMMA TotalsAgree ==
    ASSUME NEW low \in Seq(Frame), NEW high \in Seq(Frame), NEW n \in Nat,
           n <= Len(low), n <= Len(high),
           \A i \in 1 .. n : low[i].size = high[i].size
    PROVE  \A i \in 0 .. n : runningTotal(low)[i] = runningTotal(high)[i]
<1> DEFINE t == runningTotal(low)
           u == runningTotal(high)
           bad == {i \in 0 .. n : t[i] # u[i]}
<1>1. SUFFICES ASSUME bad # {} PROVE FALSE
      BY <1>1
<1>2. PICK m \in bad : \A k \in bad : m <= k
      <2>1. bad \subseteq Nat
            OBVIOUS
      <2> HIDE DEF bad
      <2>2. QED
            BY <1>1, <2>1, LeastOf, Zenon
<1>3. /\ t[0] = 0 /\ u[0] = 0
      /\ \A i \in 1 .. n : t[i] = t[i - 1] + low[i].size /\ u[i] = u[i - 1] + high[i].size
      <2>1. AddsUp(t, low, Len(low)) /\ AddsUp(u, high, Len(high))
            BY RunningTotal
      <2>2. Len(low) \in Nat /\ Len(high) \in Nat
            OBVIOUS
      <2> HIDE DEF t, u
      <2>3. \A i \in 1 .. n : i \in 1 .. Len(low) /\ i \in 1 .. Len(high)
            BY <2>2
      <2>4. t[0] = 0 /\ \A i \in 1 .. Len(low) : t[i] = t[i - 1] + low[i].size
            BY <2>1, Zenon DEF AddsUp
      <2>5. u[0] = 0 /\ \A i \in 1 .. Len(high) : u[i] = u[i - 1] + high[i].size
            BY <2>1, Zenon DEF AddsUp
      <2>6. QED
            BY <2>3, <2>4, <2>5, Zenon
<1> HIDE DEF t, u
<1>4. m \in 0 .. n /\ t[m] # u[m]
      BY <1>2
<1>5. m \in 1 .. n
      BY <1>3, <1>4
<1>6. m - 1 \in 0 .. n /\ m - 1 \notin bad
      <2>1. m - 1 \in 0 .. n /\ m - 1 < m
            BY <1>5
      <2>2. QED
            BY <1>2, <2>1
<1>7. t[m - 1] = u[m - 1]
      BY <1>6
<1>8. QED
      BY <1>3, <1>4, <1>5, <1>7

-------------------------------------------------------------------------------
(* Arithmetic.                                                             *)

\* More objects take more room.
LEMMA RoomGrows ==
    ASSUME NEW a \in Nat, NEW b \in Nat, a <= b
    PROVE  a * Alignment \in Nat /\ a * Alignment <= b * Alignment
<1>1. b - a \in Nat /\ Alignment \in Nat
      BY ScratchAssumption
<1>2. (b - a) * Alignment \in Nat /\ a * Alignment \in Nat
      BY <1>1
<1>3. b * Alignment = a * Alignment + (b - a) * Alignment
      BY <1>1
<1>4. QED
      BY <1>2, <1>3

\* Inequalities that add up.
LEMMA SumsStayBelow ==
    ASSUME NEW r \in Nat, NEW o \in Nat, NEW u \in Nat, NEW p \in Nat, NEW z \in Nat, NEW a \in Nat,
           NEW q \in Nat, NEW n \in Nat,
           o <= u + p, r <= z + a, p + a <= q, u + z <= n
    PROVE  r + o <= n + q
OBVIOUS

\* Rounding up adds less than one alignment.
LEMMA RoundingIsSmall ==
    ASSUME NEW size \in Nat
    PROVE  round_to_align(size) \in Nat /\ round_to_align(size) <= size + Alignment
<1> DEFINE sum == size + Alignment - 1
           quotient == sum \div Alignment
<1>1. Alignment \in Nat /\ Alignment > 0 /\ sum \in Nat
      BY ScratchAssumption
<1>2. quotient \in Nat /\ sum = Alignment * quotient + (sum % Alignment) /\ sum % Alignment \in Nat
      BY <1>1
<1>3. round_to_align(size) = quotient * Alignment
      BY DEF round_to_align
<1>4. quotient * Alignment = Alignment * quotient /\ quotient * Alignment \in Nat
      BY <1>1, <1>2
<1> HIDE DEF quotient
<1>5. QED
      BY <1>1, <1>2, <1>3, <1>4

-------------------------------------------------------------------------------
(* The inductive invariant.                                                *)

\* The numbers of a space are natural numbers.
SpaceType == space \in [at : {"idle", "open"}, max : Nat, frames : Seq(Frame)]

\* A frame has room for its bytes and for the rounding of its objects, and
\* what was cut off it is what was used and rounded so far.
HasRoom(frame) ==
    /\ frame.size = frame.n + frame.objects * Alignment
    /\ frame.offset <= frame.used + frame.count * Alignment
FramesHaveRoom == \A i \in 1 .. Len(space.frames) : HasRoom(space.frames[i])

\* As far up the stack as no frame is of zero bytes, the frames fit.
\* (The whole stack would not do: releasing a frame of zero bytes leaves a
\* stack of which nothing was known.)
Fits(frames, max) ==
    \A k \in 0 .. Len(frames) :
        (\A i \in 1 .. k : frames[i].n > 0) => runningTotal(frames)[k] <= max
FramesFit == Fits(space.frames, space.max)

ScratchInv == SpaceType /\ FramesHaveRoom /\ FramesFit

\* A new frame has the room that its request asked for.
LEMMA NewFrame ==
    ASSUME NEW n \in Nat, NEW objects \in Nat
    PROVE  /\ newFrame(n, objects) \in Frame
           /\ HasRoom(newFrame(n, objects))
           /\ newFrame(n, objects).n = n
           /\ newFrame(n, objects).size = n + objects * Alignment
<1>1. 0 * Alignment = 0 /\ objects * Alignment \in Nat
      BY ScratchAssumption
<1>2. QED
      BY <1>1 DEF newFrame, Frame, HasRoom

\* A frame that is cut stays a frame, has room still, and keeps its size.
LEMMA CutFrame ==
    ASSUME NEW frame \in Frame, HasRoom(frame), NEW size \in Nat
    PROVE  /\ cutOff(frame, size) \in Frame
           /\ HasRoom(cutOff(frame, size))
           /\ cutOff(frame, size).n = frame.n
           /\ cutOff(frame, size).size = frame.size
<1> DEFINE c == cutOff(frame, size)
<1>1. round_to_align(size) \in Nat /\ round_to_align(size) <= size + Alignment
      BY RoundingIsSmall
<1>2. /\ c.size = frame.size /\ c.n = frame.n /\ c.objects = frame.objects
      /\ c.offset = frame.offset + round_to_align(size)
      /\ c.used = frame.used + size
      /\ c.count = frame.count + 1
      BY DEF cutOff, Frame
<1>3. c \in Frame
      <2>1. frame.offset \in Nat /\ frame.used \in Nat /\ frame.count \in Nat
            BY DEF Frame
      <2>2. /\ frame.offset + round_to_align(size) \in Nat
            /\ frame.used + size \in Nat
            /\ frame.count + 1 \in Nat
            BY <1>1, <2>1
      <2>3. QED
            BY <2>2 DEF cutOff, Frame
<1>4. (frame.count + 1) * Alignment = frame.count * Alignment + Alignment
      BY ScratchAssumption DEF Frame
<1>5. frame.count * Alignment \in Nat /\ Alignment \in Nat
      BY ScratchAssumption DEF Frame
<1>6. HasRoom(c)
      <2>1. /\ frame.offset \in Nat /\ frame.used \in Nat
            /\ frame.offset <= frame.used + frame.count * Alignment
            BY DEF HasRoom, Frame
      <2> HIDE DEF c
      <2>2. c.offset <= c.used + c.count * Alignment
            BY <1>1, <1>2, <1>4, <1>5, <2>1
      <2>3. frame.size = frame.n + frame.objects * Alignment
            BY DEF HasRoom
      <2>4. QED
            BY <1>2, <2>2, <2>3 DEF HasRoom
<1>7. QED
      BY <1>2, <1>3, <1>6

\* A stack fits as long as its frames keep their sizes and requests.
LEMMA StillFits ==
    ASSUME NEW old \in Seq(Frame), NEW new \in Seq(Frame), NEW max \in Nat,
           Fits(old, max), Len(new) <= Len(old),
           \A i \in 1 .. Len(new) : new[i].size = old[i].size /\ new[i].n = old[i].n
    PROVE  Fits(new, max)
<1>1. SUFFICES ASSUME NEW k \in 0 .. Len(new), \A i \in 1 .. k : new[i].n > 0
               PROVE  runningTotal(new)[k] <= max
      BY DEF Fits
<1>2. k \in 0 .. Len(old) /\ k \in Nat /\ k <= Len(old) /\ k <= Len(new)
      OBVIOUS
<1>3. \A i \in 1 .. k : i \in 1 .. Len(new)
      BY <1>2
<1>4. runningTotal(old)[k] <= max
      BY <1>1, <1>2, <1>3 DEF Fits
<1>5. \A i \in 1 .. k : new[i].size = old[i].size
      BY <1>3
<1>6. runningTotal(new)[k] = runningTotal(old)[k]
      BY <1>2, <1>5, TotalsAgree
<1>7. QED
      BY <1>4, <1>6

\* A frame that was granted fits onto a stack that fits.
LEMMA GrantedFits ==
    ASSUME NEW s \in [at : {"idle", "open"}, max : Nat, frames : Seq(Frame)],
           NEW n \in Nat, NEW objects \in Nat,
           Fits(s.frames, s.max), frameFits(s, n, objects)
    PROVE  Fits(Append(s.frames, newFrame(n, objects)), s.max)
<1> DEFINE old == s.frames
           len == Len(old)
           top == newFrame(n, objects)
           new == Append(old, top)
<1>1. /\ old \in Seq(Frame) /\ s.max \in Nat /\ len \in Nat
      /\ top \in Frame /\ top.n = n /\ top.size = n + objects * Alignment
      BY NewFrame
<1>2. /\ new \in Seq(Frame) /\ Len(new) = len + 1 /\ new[len + 1] = top
      /\ \A i \in 1 .. len : new[i] = old[i]
      BY <1>1
<1>3. \A i \in 0 .. len : runningTotal(new)[i] = runningTotal(old)[i]
      <2> HIDE DEF new, top, len, old
      <2>1. len = Len(old)
            BY DEF len
      <2>2. /\ len <= Len(new) /\ len <= Len(old)
            /\ \A i \in 1 .. len : new[i].size = old[i].size
            BY <1>1, <1>2, <2>1
      <2>3. QED
            BY <1>1, <1>2, <2>2, TotalsAgree
<1>4. runningTotal(new)[len + 1] = runningTotal(old)[len] + top.size
      <2>1. AddsUp(runningTotal(new), new, Len(new))
            BY <1>2, RunningTotal
      <2> HIDE DEF new, top, len
      <2>2. len + 1 \in 1 .. len + 1 /\ (len + 1) - 1 = len
            BY <1>1
      <2>3. runningTotal(new)[len + 1] = runningTotal(new)[(len + 1) - 1] + new[len + 1].size
            BY <1>2, <2>1, <2>2 DEF AddsUp
      <2>4. QED
            BY <1>1, <1>2, <1>3, <2>2, <2>3
<1>5. SUFFICES ASSUME NEW k \in 0 .. Len(new), \A i \in 1 .. k : new[i].n > 0
               PROVE  runningTotal(new)[k] <= s.max
      BY DEF Fits
<1>6. CASE k <= len
      <2>1. k \in 0 .. len /\ \A i \in 1 .. k : i \in 1 .. len
            BY <1>1, <1>6
      <2>2. \A i \in 1 .. k : old[i].n > 0
            BY <1>2, <1>5, <2>1
      <2>3. runningTotal(old)[k] <= s.max
            BY <2>1, <2>2 DEF Fits
      <2>4. QED
            BY <1>3, <2>1, <2>3
<1>7. CASE k = len + 1
      <2>1. /\ \A i \in 1 .. len : old[i].n > 0
            /\ n > 0
            <3> HIDE DEF new, top, len, old
            <3>1. \A i \in 1 .. len : i \in 1 .. k
                  BY <1>1, <1>7
            <3>2. len + 1 \in 1 .. k
                  BY <1>1, <1>7
            <3>3. QED
                  BY <1>1, <1>2, <1>5, <3>1, <3>2
      <2> DEFINE total == runningTotal(old)[len]
                 left == (s.max - total) % SizeMax
      <2>2. total \in Nat /\ total <= s.max
            <3>1. total \in Nat
                  <4>1. AddsUp(runningTotal(old), old, len)
                        BY <1>1, RunningTotal
                  <4>2. QED
                        BY <1>1, <4>1 DEF AddsUp
            <3>2. len \in 0 .. len
                  BY <1>1
            <3>3. QED
                  BY <2>1, <3>1, <3>2 DEF Fits
      <2>3. left \in Nat /\ left <= s.max - total
            <3>1. s.max - total \in Nat
                  BY <1>1, <2>2
            <3>2. \A a \in Nat : a % SizeMax \in Nat /\ a % SizeMax <= a
                  <4>1. TAKE a \in Nat
                  <4>2. SizeMax \in Nat /\ SizeMax > 0
                        BY ScratchAssumption
                  <4>3. a = SizeMax * (a \div SizeMax) + (a % SizeMax) /\ a \div SizeMax \in Nat
                        BY <4>2
                  <4>4. SizeMax * (a \div SizeMax) \in Nat
                        BY <4>2, <4>3
                  <4>5. a % SizeMax \in Nat
                        BY <4>2
                  <4>6. QED
                        BY <4>3, <4>4, <4>5
            <3> HIDE DEF total
            <3>3. QED
                  BY <3>1, <3>2
      <2>4. n <= IF left <= objects * Alignment THEN 0 ELSE left - objects * Alignment
            BY DEF frameFits, scratch_max_allocation, allocatedIn
      <2>5. objects * Alignment \in Nat
            BY ScratchAssumption
      <2> HIDE DEF total, left, new, top
      <2>6. n + objects * Alignment <= left
            BY <2>1, <2>3, <2>4, <2>5
      <2>7. total + top.size <= s.max
            BY <1>1, <2>2, <2>3, <2>5, <2>6
      <2>8. QED
            BY <1>4, <1>7, <2>7 DEF total
<1>8. QED
      <2> HIDE DEF new, top, len
      <2>1. QED
            BY <1>1, <1>2, <1>6, <1>7

\* Every step of a user preserves the invariant.
LEMMA ScratchStep ==
    ScratchInv /\ [ScratchNext]_space => ScratchInv'
<1> SUFFICES ASSUME ScratchInv, [ScratchNext]_space PROVE ScratchInv'
    OBVIOUS
<1> USE DEF ScratchInv
<1>0. /\ space \in [at : {"idle", "open"}, max : Nat, frames : Seq(Frame)]
      /\ \A i \in 1 .. Len(space.frames) : HasRoom(space.frames[i])
      /\ Fits(space.frames, space.max)
      /\ space.frames \in Seq(Frame) /\ space.max \in Nat /\ Len(space.frames) \in Nat
      BY DEF SpaceType, FramesHaveRoom, FramesFit
<1>1. ASSUME NEW max \in Nat, space'.frames = <<>>, space'.max = max,
             space' \in [at : {"idle", "open"}, max : Nat, frames : Seq(Frame)]
      PROVE  ScratchInv'
      <2>1. FramesHaveRoom'
            BY <1>1 DEF FramesHaveRoom
      <2>2. Fits(<<>>, max)
            <3>1. <<>> \in Seq(Frame) /\ Len(<<>>) = 0
                  OBVIOUS
            <3>2. AddsUp(runningTotal(<<>>), <<>>, 0)
                  BY <3>1, RunningTotal
            <3>3. runningTotal(<<>>)[0] = 0
                  BY <3>2 DEF AddsUp
            <3>4. QED
                  BY <1>1, <3>1, <3>3 DEF Fits
      <2>3. FramesFit'
            BY <1>1, <2>2 DEF FramesFit
      <2>4. QED
            BY <1>1, <2>1, <2>3 DEF SpaceType
<1>2. ASSUME NEW max \in Limits, ScratchCreate(max)
      PROVE  ScratchInv'
      <2>1. max \in Nat /\ <<>> \in Seq(Frame)
            BY ScratchAssumption
      <2>2. space' = [at |-> "open", max |-> max, frames |-> <<>>]
            BY <1>2 DEF ScratchCreate, scratch_create
      <2>3. QED
            BY <1>1, <2>1, <2>2
<1>3. ASSUME NEW n \in Requests, NEW objects \in 0 .. MaxObjects, NEW malloc \in BOOLEAN,
             ScratchFrame(n, objects, malloc)
      PROVE  ScratchInv'
      <2>1. CASE frameFits(space, n, objects) /\ malloc
            <3> DEFINE old == space.frames
                       top == newFrame(n, objects)
            <3>1. n \in Nat /\ objects \in Nat
                  BY ScratchAssumption
            <3>2. top \in Frame /\ HasRoom(top)
                  BY <3>1, NewFrame
            <3>3. space' = [space EXCEPT !.frames = Append(old, top)]
                  BY <1>3, <2>1 DEF ScratchFrame, scratch_allocate_frame
            <3>4. Fits(Append(old, top), space.max)
                  BY <1>0, <2>1, <3>1, GrantedFits
            <3> HIDE DEF top
            <3>5. /\ Append(old, top) \in Seq(Frame)
                  /\ Len(Append(old, top)) = Len(old) + 1
                  /\ \A i \in 1 .. Len(old) : Append(old, top)[i] = old[i]
                  /\ Append(old, top)[Len(old) + 1] = top
                  BY <1>0, <3>2
            <3>6. space'.frames = Append(old, top) /\ space'.max = space.max
                  BY <1>0, <3>3
            <3>7. SpaceType'
                  BY <1>0, <3>3, <3>5 DEF SpaceType
            <3>8. FramesHaveRoom'
                  BY <1>0, <3>2, <3>5, <3>6 DEF FramesHaveRoom
            <3>9. QED
                  BY <3>4, <3>6, <3>7, <3>8 DEF FramesFit
      <2>2. CASE ~ (frameFits(space, n, objects) /\ malloc)
            <3>1. space' = space
                  BY <1>3, <2>2 DEF ScratchFrame
            <3>2. QED
                  BY <3>1 DEF SpaceType, FramesHaveRoom, FramesFit
      <2>3. QED
            BY <2>1, <2>2
<1>4. ASSUME NEW size \in Pieces, ScratchPiece(size)
      PROVE  ScratchInv'
      <2>1. CASE pieceFits(space, size)
            <3> DEFINE old == space.frames
                       len == Len(old)
                       new == [old EXCEPT ![len] = cutOff(old[len], size)]
            <3>1. size \in Nat /\ len \in 1 .. len /\ old[len] \in Frame
                  BY <1>0, <2>1, ScratchAssumption DEF pieceFits
            <3>2. space' = [space EXCEPT !.frames = new]
                  BY <1>4, <2>1 DEF ScratchPiece, scratch_alloc
            <3>3. HasRoom(old[len])
                  BY <1>0, <3>1
            <3> DEFINE c == cutOff(old[len], size)
            <3>4. c \in Frame /\ HasRoom(c) /\ c.n = old[len].n /\ c.size = old[len].size
                  BY <3>1, <3>3, CutFrame
            <3> HIDE DEF c
            <3>5. /\ new \in Seq(Frame) /\ Len(new) = len /\ new[len] = c
                  /\ \A i \in 1 .. len : i # len => new[i] = old[i]
                  BY <1>0, <3>1, <3>4 DEF c
            <3>6. space'.frames = new /\ space'.max = space.max
                  BY <1>0, <3>2
            <3> HIDE DEF new
            <3>7. SpaceType'
                  BY <1>0, <3>2, <3>5 DEF SpaceType
            <3>8. \A i \in 1 .. len : HasRoom(new[i])
                  BY <1>0, <3>4, <3>5
            <3>9. FramesHaveRoom'
                  BY <3>5, <3>6, <3>8 DEF FramesHaveRoom
            <3>10. \A i \in 1 .. Len(new) : new[i].size = old[i].size /\ new[i].n = old[i].n
                  BY <3>4, <3>5
            <3>11. Fits(new, space.max)
                  BY <1>0, <3>5, <3>10, StillFits
            <3>12. QED
                  BY <3>6, <3>7, <3>9, <3>11 DEF FramesFit
      <2>2. CASE ~ pieceFits(space, size)
            <3>1. space' = space
                  BY <1>4, <2>2 DEF ScratchPiece, scratch_alloc
            <3>2. QED
                  BY <3>1 DEF SpaceType, FramesHaveRoom, FramesFit
      <2>3. QED
            BY <2>1, <2>2
<1>5. ASSUME ScratchRelease
      PROVE  ScratchInv'
      <2> DEFINE old == space.frames
                 new == SubSeq(old, 1, Len(old) - 1)
      <2>1. space' = [space EXCEPT !.frames = new]
            BY <1>5 DEF ScratchRelease, scratch_deallocate_frame
      <2>2. Len(old) > 0
            BY <1>5 DEF ScratchRelease
      <2>3. /\ new \in Seq(Frame) /\ Len(new) = Len(old) - 1
            /\ \A i \in 1 .. Len(new) : new[i] = old[i]
            <3>1. 1 \in 1 .. Len(old) + 1 /\ Len(old) - 1 \in 0 .. Len(old) /\ Len(old) - 1 \in Nat
                  BY <1>0, <2>2
            <3> DEFINE len == Len(old)
            <3>2. len \in Nat /\ len > 0 /\ \A i \in 1 .. len - 1 : old[i] \in Frame
                  BY <1>0, <2>2
            <3> HIDE DEF len, old
            <3>3. 1 \in Int /\ len - 1 \in Int
                  BY <3>2
            <3>4. /\ SubSeq(old, 1, len - 1) \in Seq(Frame)
                  /\ Len(SubSeq(old, 1, len - 1)) = IF 1 <= len - 1 THEN (len - 1) - 1 + 1 ELSE 0
                  /\ \A i \in 1 .. (len - 1) - 1 + 1 : SubSeq(old, 1, len - 1)[i] = old[1 + i - 1]
                  BY <3>2, <3>3, SubSeqProperties
            <3>5. Len(SubSeq(old, 1, len - 1)) = len - 1
                  BY <3>2, <3>4
            <3>6. \A i \in 1 .. len - 1 : SubSeq(old, 1, len - 1)[i] = old[i]
                  BY <3>2, <3>4
            <3>7. QED
                  BY <3>4, <3>5, <3>6 DEF len
      <2>4. space'.frames = new /\ space'.max = space.max
            BY <1>0, <2>1
      <2> HIDE DEF new
      <2>5. SpaceType'
            BY <1>0, <2>1, <2>3 DEF SpaceType
      <2>6. FramesHaveRoom'
            BY <1>0, <2>3, <2>4 DEF FramesHaveRoom
      <2>7. Fits(new, space.max)
            BY <1>0, <2>3, StillFits
      <2>8. QED
            BY <2>4, <2>5, <2>6, <2>7 DEF FramesFit
<1>6. ASSUME ScratchDestroy
      PROVE  ScratchInv'
      <2>1. space' = [at |-> "idle", max |-> 0, frames |-> <<>>] /\ <<>> \in Seq(Frame)
            BY <1>6 DEF ScratchDestroy, SpaceIdle
      <2>2. QED
            BY <1>1, <2>1
<1>7. CASE UNCHANGED space
      BY <1>7 DEF SpaceType, FramesHaveRoom, FramesFit
<1>8. QED
      BY <1>2, <1>3, <1>4, <1>5, <1>6, <1>7 DEF ScratchNext

\* The invariant gives the promise: as long as bytes and objects stay below
\* what the frame was made for, the rounding stays below the room for it.
LEMMA RoomIsEnough ==
    ScratchInv => FramesKeepTheirWord
<1> SUFFICES ASSUME ScratchInv PROVE FramesKeepTheirWord
    OBVIOUS
<1>0. /\ \A i \in 1 .. Len(space.frames) : HasRoom(space.frames[i])
      /\ Fits(space.frames, space.max)
      /\ space.frames \in Seq(Frame) /\ space.max \in Nat /\ Len(space.frames) \in Nat
      BY DEF ScratchInv, SpaceType, FramesHaveRoom, FramesFit
<1>1. DOMAIN space.frames = 1 .. Len(space.frames)
      BY <1>0
<1>2. (\A i \in DOMAIN space.frames : space.frames[i].n > 0) => allocatedIn(space) <= space.max
      <2>1. Len(space.frames) \in 0 .. Len(space.frames)
            BY <1>0
      <2>2. QED
            BY <1>0, <1>1, <2>1 DEF Fits, allocatedIn
<1>3. ASSUME NEW size \in Pieces, NEW i \in DOMAIN space.frames, i = Len(space.frames),
             space.frames[i].used + size <= space.frames[i].n,
             space.frames[i].count < space.frames[i].objects
      PROVE  pieceFits(space, size)
      <2> DEFINE top == space.frames[i]
      <2>1. /\ top \in Frame /\ HasRoom(top) /\ size \in Nat /\ Alignment \in Nat
            /\ space.frames # <<>>
            BY <1>0, <1>1, <1>3, ScratchAssumption
      <2>2. /\ top.size \in Nat /\ top.offset \in Nat /\ top.n \in Nat /\ top.objects \in Nat
            /\ top.used \in Nat /\ top.count \in Nat
            BY <2>1 DEF Frame
      <2>3. /\ top.size = top.n + top.objects * Alignment
            /\ top.offset <= top.used + top.count * Alignment
            BY <2>1 DEF HasRoom
      <2>4. top.used + size <= top.n /\ top.count < top.objects
            BY <1>3
      <2>5. round_to_align(size) \in Nat /\ round_to_align(size) <= size + Alignment
            BY <2>1, RoundingIsSmall
      <2> HIDE DEF top
      <2>6. (top.count + 1) * Alignment = top.count * Alignment + Alignment
            BY <2>1, <2>2
      <2>7. (top.count + 1) * Alignment <= top.objects * Alignment
            BY <2>2, <2>4, RoomGrows
      <2>8. top.count * Alignment \in Nat /\ top.objects * Alignment \in Nat
            BY <2>1, <2>2
      <2>9. round_to_align(size) + top.offset <= top.size
            <3> DEFINE p == top.count * Alignment
                       q == top.objects * Alignment
                       r == round_to_align(size)
            <3>1. /\ r \in Nat /\ top.offset \in Nat /\ top.used \in Nat /\ p \in Nat /\ size \in Nat
                  /\ Alignment \in Nat /\ q \in Nat /\ top.n \in Nat
                  /\ top.offset <= top.used + p /\ r <= size + Alignment /\ p + Alignment <= q
                  /\ top.used + size <= top.n /\ top.size = top.n + q
                  BY <2>1, <2>2, <2>3, <2>4, <2>5, <2>6, <2>7, <2>8
            <3> HIDE DEF p, q, r
            <3>2. r + top.offset <= top.n + q
                  BY <3>1, SumsStayBelow
            <3>3. QED
                  BY <3>1, <3>2 DEF r
      <2>10. QED
            BY <1>3, <2>1, <2>9 DEF pieceFits, top
<1>4. QED
      BY <1>2, <1>3 DEF FramesKeepTheirWord

\* Whatever the alignment, the limits and the sizes asked for, every piece that
\* a frame was made for fits into it, and frames of at least one byte together
\* stay below the limit of their space.
THEOREM FramesKept == ScratchSpec => []FramesKeepTheirWord
<1>1. space = SpaceIdle => ScratchInv
      <2> SUFFICES ASSUME space = SpaceIdle PROVE ScratchInv
          OBVIOUS
      <2>0. <<>> \in Seq(Frame) /\ Len(<<>>) = 0
            OBVIOUS
      <2>1. space.frames = <<>> /\ space.max = 0 /\ SpaceType
            BY <2>0 DEF SpaceIdle, SpaceType
      <2>2. AddsUp(runningTotal(<<>>), <<>>, Len(<<>>))
            BY <2>0, RunningTotal
      <2>3. runningTotal(<<>>)[0] = 0
            BY <2>2 DEF AddsUp
      <2>4. QED
            BY <2>0, <2>1, <2>3 DEF ScratchInv, FramesHaveRoom, FramesFit, Fits
<1>2. QED
      BY <1>1, ScratchStep, RoomIsEnough, PTL DEF ScratchSpec

-------------------------------------------------------------------------------
(* Scalars are an abelian group under SAdd.                                *)

\* A multiple that is less than the order away from 0 is 0.
LEMMA SmallMultiple ==
    ASSUME NEW d \in Int, Order * d < Order, Order * d > - Order
    PROVE  d = 0
<1>1. Order \in Nat /\ Order > 2
      BY GroupAssumption
<1>2. d >= 1 => Order * d >= Order
      <2>1. SUFFICES ASSUME d - 1 \in Nat PROVE Order * d >= Order
            OBVIOUS
      <2>2. Order * (d - 1) \in Nat
            BY <1>1, <2>1
      <2>3. Order * d = Order + Order * (d - 1)
            BY <1>1
      <2>4. QED
            BY <1>1, <2>2, <2>3
<1>3. d <= -1 => Order * d <= - Order
      <2>1. SUFFICES ASSUME -1 - d \in Nat PROVE Order * d <= - Order
            OBVIOUS
      <2>2. Order * (-1 - d) \in Nat
            BY <1>1, <2>1
      <2>3. Order * d = - Order - Order * (-1 - d)
            BY <1>1
      <2>4. QED
            BY <1>1, <2>2, <2>3
<1>4. QED
      BY <1>1, <1>2, <1>3

\* What is left of a number is the only number below the order that differs
\* from it by a multiple.
LEMMA RestIs ==
    ASSUME NEW x \in Int, NEW q \in Int, NEW r \in Scalar, x = Order * q + r
    PROVE  x % Order = r
<1>1. Order \in Nat /\ Order > 2
      BY GroupAssumption
<1>2. /\ x \div Order \in Int /\ x % Order \in Int
      /\ x % Order >= 0 /\ x % Order < Order
      /\ x = Order * (x \div Order) + (x % Order)
      <2>1. x \div Order \in Int /\ x % Order \in Int
            BY <1>1
      <2>2. x % Order >= 0 /\ x % Order < Order
            BY <1>1
      <2>3. x = Order * (x \div Order) + (x % Order)
            BY <1>1
      <2>4. QED
            BY <2>1, <2>2, <2>3
<1>3. r \in Int /\ 0 <= r /\ r < Order
      BY <1>1 DEF Scalar
<1>4. PICK p \in Int, m \in Int : m >= 0 /\ m < Order /\ x = Order * p + m /\ m = x % Order
      BY <1>2
<1>5. Order * (q - p) = Order * q - Order * p
      BY <1>1, <1>4
<1>6. Order * q \in Int /\ Order * p \in Int /\ Order * (q - p) \in Int /\ q - p \in Int
      BY <1>1, <1>4
<1>7. Order * (q - p) = m - r
      BY <1>3, <1>4, <1>5, <1>6
<1>8. q - p = 0
      <2>1. m - r < Order /\ m - r > - Order
            BY <1>1, <1>3, <1>4
      <2>2. QED
            BY <1>6, <1>7, <2>1, SmallMultiple
<1>9. m = r
      <2>1. q = p
            BY <1>4, <1>8
      <2>2. Order * q = Order * p
            BY <2>1
      <2>3. QED
            BY <1>3, <1>4, <1>6, <2>2
<1>10. QED
      BY <1>4, <1>9

\* Adding takes the order off once at most; the negative is what the order is short of.
LEMMA SAddIs ==
    ASSUME NEW a \in Scalar, NEW b \in Scalar
    PROVE  /\ SAdd(a, b) \in Scalar
           /\ SAdd(a, b) = IF a + b < Order THEN a + b ELSE a + b - Order
<1>1. /\ Order \in Nat /\ Order > 2
      /\ a \in Int /\ b \in Int /\ 0 <= a /\ 0 <= b /\ a < Order /\ b < Order
      BY GroupAssumption DEF Scalar
<1>2. CASE a + b < Order
      <2>1. a + b \in Scalar /\ a + b = Order * 0 + (a + b)
            BY <1>1, <1>2 DEF Scalar
      <2>2. (a + b) % Order = a + b
            BY <1>1, <2>1, RestIs
      <2>3. QED
            BY <1>2, <2>1, <2>2 DEF SAdd
<1>3. CASE a + b >= Order
      <2>1. a + b - Order \in Scalar /\ a + b = Order * 1 + (a + b - Order)
            BY <1>1, <1>3 DEF Scalar
      <2>2. (a + b) % Order = a + b - Order
            BY <1>1, <2>1, RestIs
      <2>3. QED
            BY <1>1, <1>3, <2>1, <2>2 DEF SAdd
<1>4. QED
      BY <1>1, <1>2, <1>3

LEMMA SNegIs ==
    ASSUME NEW a \in Scalar
    PROVE  SNeg(a) \in Scalar /\ SNeg(a) = IF a = 0 THEN 0 ELSE Order - a
<1>1. Order \in Nat /\ Order > 2 /\ a \in Int /\ 0 <= a /\ a < Order
      BY GroupAssumption DEF Scalar
<1>2. CASE a = 0
      <2>1. 0 \in Scalar /\ Order - a = Order * 1 + 0
            BY <1>1, <1>2 DEF Scalar
      <2>2. (Order - a) % Order = 0
            BY <1>1, <2>1, RestIs
      <2>3. QED
            BY <1>2, <2>1, <2>2 DEF SNeg
<1>3. CASE a # 0
      <2>1. Order - a \in Scalar /\ Order - a = Order * 0 + (Order - a)
            BY <1>1, <1>3 DEF Scalar
      <2>2. (Order - a) % Order = Order - a
            BY <1>1, <2>1, RestIs
      <2>3. QED
            BY <1>3, <2>1, <2>2 DEF SNeg
<1>4. QED
      BY <1>2, <1>3

\* What a caller may do with sums.
LEMMA SumLaws ==
    ASSUME NEW a \in Scalar, NEW b \in Scalar
    PROVE  /\ SAdd(a, b) \in Scalar /\ SNeg(a) \in Scalar /\ 0 \in Scalar
           /\ SAdd(a, b) = SAdd(b, a)
           /\ SAdd(a, 0) = a /\ SNeg(0) = 0
           /\ SAdd(a, SNeg(a)) = 0
           /\ SNeg(SNeg(a)) = a
           /\ SNeg(SAdd(a, b)) = SAdd(SNeg(a), SNeg(b))
           /\ SAdd(a, SNeg(b)) = 0 => a = b
<1>1. Order \in Nat /\ Order > 2 /\ a \in Nat /\ b \in Nat /\ a < Order /\ b < Order /\ 0 \in Scalar
      BY GroupAssumption DEF Scalar
<1>2. \A x, y \in Scalar : /\ SAdd(x, y) \in Scalar
                           /\ SAdd(x, y) = IF x + y < Order THEN x + y ELSE x + y - Order
      BY SAddIs
<1>3. \A x \in Scalar : SNeg(x) \in Scalar /\ SNeg(x) = IF x = 0 THEN 0 ELSE Order - x
      BY SNegIs
<1>4. SAdd(a, b) \in Scalar /\ SNeg(a) \in Scalar /\ SNeg(b) \in Scalar
      BY <1>2, <1>3
<1>5. SAdd(a, b) = SAdd(b, a)
      BY <1>1, <1>2
<1>6. SAdd(a, 0) = a /\ SNeg(0) = 0
      BY <1>1, <1>2, <1>3
<1>7. SAdd(a, SNeg(a)) = 0
      BY <1>1, <1>2, <1>3, <1>4
<1>8. SNeg(SNeg(a)) = a
      BY <1>1, <1>3, <1>4
<1>9. SNeg(SAdd(a, b)) = SAdd(SNeg(a), SNeg(b))
      BY <1>1, <1>2, <1>3, <1>4
<1>10. SAdd(a, SNeg(b)) = 0 => a = b
      BY <1>1, <1>2, <1>3, <1>4
<1>11. QED
      BY <1>1, <1>4, <1>5, <1>6, <1>7, <1>8, <1>9, <1>10

LEMMA SAddAssociates ==
    ASSUME NEW a \in Scalar, NEW b \in Scalar, NEW c \in Scalar
    PROVE  SAdd(SAdd(a, b), c) = SAdd(a, SAdd(b, c))
<1> DEFINE turn(x, y) == IF x + y < Order THEN x + y ELSE x + y - Order
<1>1. Order \in Nat /\ a \in Nat /\ b \in Nat /\ c \in Nat /\ a < Order /\ b < Order /\ c < Order
      BY GroupAssumption DEF Scalar
<1>2. SAdd(a, b) \in Scalar /\ SAdd(a, b) = turn(a, b) /\ SAdd(b, c) \in Scalar /\ SAdd(b, c) = turn(b, c)
      BY SAddIs
<1>3. SAdd(SAdd(a, b), c) = turn(turn(a, b), c) /\ SAdd(a, SAdd(b, c)) = turn(a, turn(b, c))
      <2>1. SAdd(SAdd(a, b), c) = turn(SAdd(a, b), c) /\ SAdd(a, SAdd(b, c)) = turn(a, SAdd(b, c))
            BY <1>2, SAddIs
      <2> HIDE DEF turn
      <2>2. QED
            BY <1>2, <2>1
<1>4. turn(turn(a, b), c) = turn(a, turn(b, c))
      BY <1>1
<1>5. QED
      BY <1>3, <1>4

\* A number counts for what is left of it.
LEMMA RestCounts ==
    ASSUME NEW a \in Scalar, NEW x \in Nat
    PROVE  x % Order \in Scalar /\ SAdd(a, x) = SAdd(a, x % Order)
<1>1. Order \in Nat /\ Order > 2 /\ a \in Nat /\ a < Order
      BY GroupAssumption DEF Scalar
<1>2. PICK p \in Int, m \in Scalar : x = Order * p + m /\ m = x % Order
      <2>1. x \div Order \in Int /\ x % Order \in Int
            BY <1>1
      <2>2. x % Order >= 0 /\ x % Order < Order
            BY <1>1
      <2>3. x = Order * (x \div Order) + (x % Order)
            BY <1>1
      <2>4. x % Order \in Scalar
            BY <1>1, <2>1, <2>2 DEF Scalar
      <2>5. QED
            BY <2>1, <2>3, <2>4
<1>3. m \in Nat /\ m < Order
      BY <1>1 DEF Scalar
<1>4. PICK e \in {0, 1} : a + m = Order * e + SAdd(a, m)
      BY <1>1, <1>3, SAddIs
<1>5. SAdd(a, m) \in Scalar /\ SAdd(a, m) \in Int
      BY <1>1, SAddIs DEF Scalar
<1>6. a + x = Order * (p + e) + SAdd(a, m)
      <2>1. Order * (p + e) = Order * p + Order * e
            BY <1>1, <1>2
      <2>2. Order * p \in Int /\ Order * e \in Int
            BY <1>1, <1>2
      <2>3. QED
            BY <1>1, <1>2, <1>3, <1>4, <1>5, <2>1, <2>2
<1>7. (a + x) % Order = SAdd(a, m)
      <2>1. a + x \in Int /\ p + e \in Int
            BY <1>1, <1>2
      <2>2. QED
            BY <1>5, <1>6, <2>1, RestIs
<1>8. QED
      BY <1>2, <1>7 DEF SAdd

-------------------------------------------------------------------------------
(* Walks along a sequence, one entry at a time.                            *)

\* What holds at 0 and is carried from each number to the next holds up to n.
LEMMA CountUp ==
    ASSUME NEW n \in Nat, NEW good, 0 \in good, \A i \in 1 .. n : i - 1 \in good => i \in good
    PROVE  \A i \in 0 .. n : i \in good
<1> DEFINE bad == {i \in 0 .. n : i \notin good}
<1>1. SUFFICES ASSUME bad # {} PROVE FALSE
      BY <1>1
<1>2. PICK m \in bad : \A k \in bad : m <= k
      <2>1. bad \subseteq Nat
            OBVIOUS
      <2> HIDE DEF bad
      <2>2. QED
            BY <1>1, <2>1, LeastOf, Zenon
<1>3. m \in 0 .. n /\ m \notin good
      BY <1>2
<1>4. m \in 1 .. n /\ m - 1 \in 0 .. n /\ m - 1 < m
      BY <1>3
<1>5. m - 1 \in good
      <2>1. m - 1 \notin bad
            <3> HIDE DEF bad
            <3>1. QED
                  BY <1>2, <1>4
      <2>2. QED
            BY <1>4, <2>1
<1>6. QED
      BY <1>3, <1>4, <1>5

\* t starts at e and takes move (value, place) from each place to the next.
Walks(t, n, S, e, move) ==
    /\ t \in [0 .. n -> S]
    /\ t[0] = e
    /\ \A i \in 1 .. n : t[i] = move[<<t[i - 1], i>>]

\* There is a walk for every number of steps.
LEMMA WalkExists ==
    ASSUME NEW n \in Nat, NEW S, NEW e \in S, NEW move \in [S \X (1 .. n) -> S]
    PROVE  \E t : Walks(t, n, S, e, move)
<1> DEFINE good == {m \in 0 .. n : \E t : Walks(t, m, S, e, move)}
<1>1. 0 \in good
      <2>1. Walks([i \in 0 .. 0 |-> e], 0, S, e, move)
            BY DEF Walks
      <2>2. QED
            BY <2>1
<1>2. ASSUME NEW m \in 1 .. n, m - 1 \in good PROVE m \in good
      <2>1. PICK t : Walks(t, m - 1, S, e, move)
            BY <1>2
      <2> DEFINE u == [i \in 0 .. m |-> IF i = m THEN move[<<t[m - 1], m>>] ELSE t[i]]
      <2>2. /\ t \in [0 .. m - 1 -> S] /\ t[0] = e
            /\ \A i \in 1 .. m - 1 : t[i] = move[<<t[i - 1], i>>]
            BY <2>1 DEF Walks
      <2>3. m \in Nat /\ m - 1 \in 0 .. m - 1 /\ <<t[m - 1], m>> \in S \X (1 .. n)
            BY <1>2, <2>2
      <2>4. move[<<t[m - 1], m>>] \in S
            BY <2>3
      <2>5. u \in [0 .. m -> S]
            BY <2>2, <2>3, <2>4
      <2>6. u[0] = e
            BY <1>2, <2>2
      <2>7. ASSUME NEW i \in 1 .. m PROVE u[i] = move[<<u[i - 1], i>>]
            <3>1. i \in 0 .. m /\ i - 1 \in 0 .. m /\ i - 1 # m
                  BY <1>2, <2>7
            <3>2. u[i - 1] = t[i - 1]
                  BY <3>1
            <3>3. CASE i = m
                  BY <3>1, <3>2, <3>3
            <3>4. CASE i # m
                  <4>1. i \in 1 .. m - 1
                        BY <1>2, <2>7, <3>4
                  <4>2. u[i] = t[i]
                        BY <3>1, <3>4
                  <4> HIDE DEF u
                  <4>3. QED
                        BY <2>2, <3>2, <4>1, <4>2
            <3>5. QED
                  BY <3>3, <3>4
      <2>8. Walks(u, m, S, e, move)
            BY <2>5, <2>6, <2>7 DEF Walks
      <2>9. QED
            BY <1>2, <2>8
<1>3. n \in good
      <2> HIDE DEF good
      <2>1. QED
            BY <1>1, <1>2, CountUp
<1>4. QED
      BY <1>3

\* t holds the sums of the first entries of s.
AddsTo(t, s) ==
    /\ t \in [0 .. Len(s) -> Scalar]
    /\ t[0] = 0
    /\ \A i \in 1 .. Len(s) : t[i] = SAdd(t[i - 1], s[i])

\* What scalarSums computes.
LEMMA ScalarSumsAre ==
    ASSUME NEW s \in Seq(Nat)
    PROVE  AddsTo(scalarSums(s), s)
<1> DEFINE n == Len(s)
           move == [p \in Scalar \X (1 .. n) |-> SAdd(p[1], s[p[2]])]
           next(t, i) == IF i = 0 THEN 0 ELSE SAdd(t[i - 1], s[i])
           sums == scalarSums(s)
<1>1. n \in Nat /\ 0 \in Scalar /\ \A i \in 1 .. n : s[i] \in Nat
      BY GroupAssumption DEF Scalar
<1>2. move \in [Scalar \X (1 .. n) -> Scalar]
      <2>1. ASSUME NEW a \in Scalar, NEW i \in 1 .. n PROVE SAdd(a, s[i]) \in Scalar
            BY <1>1, RestCounts, SAddIs
      <2> HIDE DEF n
      <2>2. QED
            BY <2>1
<1>3. PICK t : Walks(t, n, Scalar, 0, move)
      <2> HIDE DEF n, move
      <2>1. QED
            BY <1>1, <1>2, WalkExists
<1>4. /\ t \in [0 .. n -> Scalar] /\ t[0] = 0
      /\ \A i \in 1 .. n : t[i] = SAdd(t[i - 1], s[i])
      <2>1. /\ t \in [0 .. n -> Scalar] /\ t[0] = 0
            /\ \A i \in 1 .. n : t[i] = move[<<t[i - 1], i>>]
            BY <1>3 DEF Walks
      <2>2. ASSUME NEW i \in 1 .. n PROVE <<t[i - 1], i>> \in Scalar \X (1 .. n)
            <3>1. i - 1 \in 0 .. n
                  BY <1>1
            <3> HIDE DEF n, move
            <3>2. QED
                  BY <2>1, <3>1
      <2>3. \A p \in Scalar \X (1 .. n) : move[p] = SAdd(p[1], s[p[2]])
            OBVIOUS
      <2> HIDE DEF n, move
      <2>4. QED
            BY <2>1, <2>2, <2>3
<1>5. t = [i \in 0 .. n |-> next(t, i)]
      <2> HIDE DEF n, move
      <2>1. QED
            BY <1>1, <1>4
<1>6. sums = CHOOSE u : u = [i \in 0 .. n |-> next(u, i)]
      BY DEF scalarSums
<1>7. sums = [i \in 0 .. n |-> next(sums, i)]
      <2> HIDE DEF next, n, sums, move
      <2>1. QED
            BY <1>5, <1>6
<1>8. sums[0] = 0 /\ \A i \in 1 .. n : sums[i] = SAdd(sums[i - 1], s[i])
      <2> HIDE DEF n, sums, move
      <2>1. QED
            BY <1>1, <1>7
<1>9. \A i \in 0 .. n : sums[i] \in Scalar
      <2> DEFINE good == {i \in 0 .. n : sums[i] \in Scalar}
      <2>1. 0 \in good
            BY <1>1, <1>8
      <2>2. ASSUME NEW i \in 1 .. n, i - 1 \in good PROVE i \in good
            <3>1. i \in 0 .. n /\ sums[i - 1] \in Scalar
                  BY <1>1, <2>2
            <3>2. sums[i] = SAdd(sums[i - 1], s[i]) /\ s[i] \in Nat
                  BY <1>1, <1>8
            <3> HIDE DEF n, sums, move
            <3>3. s[i] % Order \in Scalar /\ sums[i] = SAdd(sums[i - 1], s[i] % Order)
                  BY <3>1, <3>2, RestCounts
            <3>4. sums[i] \in Scalar
                  BY <3>1, <3>3, SAddIs
            <3>5. QED
                  BY <3>1, <3>4
      <2>3. \A i \in 0 .. n : i \in good
            <3> HIDE DEF n, sums, move, good
            <3>1. QED
                  BY <1>1, <2>1, <2>2, CountUp
      <2>4. QED
            BY <2>3
<1>10. sums \in [0 .. n -> Scalar]
      <2> HIDE DEF n, sums, move, next
      <2>1. QED
            BY <1>7, <1>9
<1>11. QED
      BY <1>8, <1>10 DEF AddsTo

\* Sequences that agree up to the order have the same sums.
LEMMA SumsAgree ==
    ASSUME NEW s \in Seq(Nat), NEW u \in Seq(Nat), NEW n \in Nat, n <= Len(s), n <= Len(u),
           \A i \in 1 .. n : s[i] % Order = u[i] % Order
    PROVE  \A i \in 0 .. n : scalarSums(s)[i] = scalarSums(u)[i]
<1> DEFINE a == scalarSums(s)
           b == scalarSums(u)
           good == {i \in 0 .. n : a[i] = b[i]}
<1>1. AddsTo(a, s) /\ AddsTo(b, u)
      BY ScalarSumsAre
<1> HIDE DEF a, b
<1>2. 0 \in good
      BY <1>1 DEF AddsTo
<1>3. ASSUME NEW i \in 1 .. n, i - 1 \in good PROVE i \in good
      <2>1. i \in 1 .. Len(s) /\ i \in 1 .. Len(u) /\ i - 1 \in 0 .. Len(s) /\ i - 1 \in 0 .. Len(u)
            OBVIOUS
      <2>2. /\ a[i] = SAdd(a[i - 1], s[i]) /\ b[i] = SAdd(b[i - 1], u[i])
            /\ a[i - 1] \in Scalar /\ b[i - 1] \in Scalar /\ a[i - 1] = b[i - 1]
            BY <1>1, <1>3, <2>1 DEF AddsTo
      <2>3. s[i] \in Nat /\ u[i] \in Nat
            BY <2>1
      <2>4. a[i] = SAdd(a[i - 1], s[i] % Order) /\ b[i] = SAdd(b[i - 1], u[i] % Order)
            BY <2>2, <2>3, RestCounts
      <2>5. a[i] = b[i]
            BY <2>2, <2>4
      <2>6. QED
            BY <1>3, <2>5
<1>4. \A i \in 0 .. n : i \in good
      <2> HIDE DEF good
      <2>1. QED
            BY <1>2, <1>3, CountUp
<1>5. QED
      BY <1>4 DEF a, b

\* A sum is a scalar, and the last entry is what it has more than the others.
LEMMA SumIs ==
    ASSUME NEW s \in Seq(Nat)
    PROVE  /\ SSum(s) \in Scalar
           /\ \A i \in 0 .. Len(s) : scalarSums(s)[i] \in Scalar
           /\ Len(s) > 0 => SSum(s) = SAdd(scalarSums(s)[Len(s) - 1], s[Len(s)])
<1> DEFINE a == scalarSums(s)
<1>1. AddsTo(a, s) /\ Len(s) \in Nat /\ SSum(s) = a[Len(s)]
      BY ScalarSumsAre DEF SSum
<1> HIDE DEF a
<1>2. \A i \in 0 .. Len(s) : a[i] \in Scalar
      BY <1>1 DEF AddsTo
<1>3. SSum(s) \in Scalar
      BY <1>1, <1>2
<1>4. ASSUME Len(s) > 0 PROVE SSum(s) = SAdd(a[Len(s) - 1], s[Len(s)])
      <2>1. Len(s) \in 1 .. Len(s)
            BY <1>1, <1>4
      <2>2. QED
            BY <1>1, <2>1 DEF AddsTo
<1>5. QED
      BY <1>2, <1>3, <1>4 DEF a

\* s with the entries behind place m turned around.
signed(s, m) == [i \in 1 .. Len(s) |-> IF i <= m THEN s[i] ELSE SNeg(s[i])]

LEMMA SignedTyped ==
    ASSUME NEW s \in Seq(Scalar), NEW m \in Nat
    PROVE  /\ signed(s, m) \in Seq(Scalar) /\ signed(s, m) \in Seq(Nat) /\ s \in Seq(Nat)
           /\ Len(signed(s, m)) = Len(s)
<1>1. Scalar \subseteq Nat
      BY GroupAssumption DEF Scalar
<1>2. \A a \in Scalar : SNeg(a) \in Scalar
      BY SNegIs
<1>3. Len(s) \in Nat /\ \A i \in 1 .. Len(s) : s[i] \in Scalar
      OBVIOUS
<1>4. signed(s, m) \in [1 .. Len(s) -> Scalar]
      BY <1>2, <1>3 DEF signed
<1>5. signed(s, m) \in Seq(Scalar) /\ Len(signed(s, m)) = Len(s)
      BY <1>3, <1>4
<1>6. s \in Seq(Nat)
      <2> HIDE DEF signed
      <2>1. QED
            BY <1>1, SeqMonotonic
<1>7. signed(s, m) \in Seq(Nat)
      <2> DEFINE z == signed(s, m)
      <2>1. z \in Seq(Scalar)
            BY <1>5
      <2> HIDE DEF z
      <2>2. z \in Seq(Nat)
            BY <1>1, <2>1, SeqMonotonic
      <2>3. QED
            BY <2>2 DEF z
<1>8. QED
      BY <1>5, <1>6, <1>7

\* Turning entries around from place m on takes their sum off that of the others.
LEMMA SignedSum ==
    ASSUME NEW s \in Seq(Scalar), NEW m \in 0 .. Len(s), NEW ins \in Seq(Scalar), NEW outs \in Seq(Scalar),
           Len(ins) = m, \A i \in 1 .. m : ins[i] = s[i],
           Len(outs) = Len(s) - m, \A i \in 1 .. Len(s) - m : outs[i] = s[m + i]
    PROVE  SSum(signed(s, m)) = SAdd(SSum(ins), SNeg(SSum(outs)))
<1> DEFINE z == signed(s, m)
           n == Len(s)
           all == scalarSums(z)
           out == scalarSums(outs)
           good == {j \in 0 .. n - m : all[m + j] = SAdd(SSum(ins), SNeg(out[j]))}
<1>1. n \in Nat /\ m \in Nat /\ m <= n /\ n - m \in Nat
      OBVIOUS
<1>2. z \in Seq(Nat) /\ Len(z) = n /\ ins \in Seq(Nat) /\ outs \in Seq(Nat)
      <2>1. m \in Nat
            BY <1>1
      <2>2. QED
            BY <2>1, SignedTyped
<1>3. \A i \in 1 .. n : z[i] = IF i <= m THEN s[i] ELSE SNeg(s[i])
      BY DEF signed
<1>4. AddsTo(all, z) /\ AddsTo(out, outs)
      BY <1>2, ScalarSumsAre
<1>5. SSum(ins) \in Scalar /\ SSum(ins) = scalarSums(ins)[m] /\ SSum(outs) = out[n - m] /\ SSum(z) = all[n]
      BY <1>2, SumIs DEF SSum
<1>6. all[m] = SSum(ins)
      <2>1. \A i \in 1 .. m : ins[i] % Order = z[i] % Order
            BY <1>1, <1>3
      <2> HIDE DEF z, all
      <2>2. m <= Len(ins) /\ m <= Len(z)
            BY <1>1, <1>2
      <2>3. \A i \in 0 .. m : scalarSums(ins)[i] = scalarSums(z)[i]
            BY <1>1, <1>2, <2>1, <2>2, SumsAgree
      <2>4. QED
            BY <1>1, <1>5, <2>3 DEF all
<1>7. 0 \in good
      <2>1. out[0] = 0
            BY <1>4 DEF AddsTo
      <2>2. SAdd(SSum(ins), SNeg(0)) = SSum(ins)
            BY <1>5, SumLaws
      <2> HIDE DEF z, all, out, n
      <2>3. QED
            BY <1>1, <1>6, <2>1, <2>2
<1>8. ASSUME NEW j \in 1 .. n - m, j - 1 \in good PROVE j \in good
      <2>1. /\ m + j \in 1 .. n /\ ~(m + j <= m) /\ m + (j - 1) = (m + j) - 1 /\ m + (j - 1) \in 0 .. n
            /\ j \in 1 .. n - m /\ j - 1 \in 0 .. n - m
            BY <1>1, <1>8
      <2>2. s[m + j] \in Scalar /\ z[m + j] = SNeg(s[m + j]) /\ outs[j] = s[m + j]
            BY <1>3, <2>1
      <2> HIDE DEF z, all, out, n
      <2>3. /\ all[m + j] = SAdd(all[m + (j - 1)], z[m + j])
            /\ out[j] = SAdd(out[j - 1], outs[j]) /\ out[j - 1] \in Scalar
            BY <1>2, <1>4, <2>1 DEF AddsTo, n
      <2>4. all[m + (j - 1)] = SAdd(SSum(ins), SNeg(out[j - 1]))
            BY <1>8
      <2>5. all[m + j] = SAdd(SSum(ins), SAdd(SNeg(out[j - 1]), SNeg(s[m + j])))
            <3>1. SNeg(out[j - 1]) \in Scalar /\ SNeg(s[m + j]) \in Scalar
                  BY <2>2, <2>3, SNegIs
            <3>2. QED
                  BY <1>5, <2>2, <2>3, <2>4, <3>1, SAddAssociates
      <2>6. SAdd(SNeg(out[j - 1]), SNeg(s[m + j])) = SNeg(out[j])
            BY <2>2, <2>3, SumLaws
      <2>7. QED
            BY <2>1, <2>5, <2>6
<1>9. \A j \in 0 .. n - m : j \in good
      <2> HIDE DEF good, n
      <2>1. QED
            BY <1>1, <1>7, <1>8, CountUp
<1>10. all[m + (n - m)] = SAdd(SSum(ins), SNeg(out[n - m])) /\ m + (n - m) = n
      <2>1. n - m \in good
            <3> HIDE DEF good, n
            <3>1. QED
                  BY <1>1, <1>9
      <2>2. QED
            BY <1>1, <2>1
<1>11. QED
      <2> HIDE DEF z, all, out, n
      <2>1. QED
            BY <1>5, <1>10 DEF z

\* The sums of what is turned around are turned around.
LEMMA TurnedSums ==
    ASSUME NEW s \in Seq(Scalar), NEW u \in Seq(Scalar), NEW n \in Nat, n <= Len(s), n <= Len(u),
           \A i \in 1 .. n : u[i] = SNeg(s[i])
    PROVE  \A i \in 0 .. n : scalarSums(u)[i] = SNeg(scalarSums(s)[i])
<1> DEFINE a == scalarSums(s)
           b == scalarSums(u)
           good == {i \in 0 .. n : b[i] = SNeg(a[i])}
<1>1. AddsTo(a, s) /\ AddsTo(b, u)
      <2>1. Scalar \subseteq Nat
            BY GroupAssumption DEF Scalar
      <2>2. s \in Seq(Nat)
            BY <2>1, SeqMonotonic
      <2>3. u \in Seq(Nat)
            BY <2>1, SeqMonotonic
      <2>4. QED
            BY <2>2, <2>3, ScalarSumsAre
<1> HIDE DEF a, b
<1>2. 0 \in good
      <2>1. SNeg(0) = 0
            <3>1. 0 \in Scalar
                  BY GroupAssumption DEF Scalar
            <3>2. QED
                  BY <3>1, SNegIs
      <2>2. QED
            BY <1>1, <2>1 DEF AddsTo
<1>3. ASSUME NEW i \in 1 .. n, i - 1 \in good PROVE i \in good
      <2>1. i \in 1 .. Len(s) /\ i \in 1 .. Len(u) /\ i - 1 \in 0 .. Len(s) /\ i - 1 \in 0 .. Len(u)
            OBVIOUS
      <2>2. /\ a[i] = SAdd(a[i - 1], s[i]) /\ b[i] = SAdd(b[i - 1], u[i])
            /\ a[i - 1] \in Scalar /\ b[i - 1] = SNeg(a[i - 1])
            BY <1>1, <1>3, <2>1 DEF AddsTo
      <2>3. s[i] \in Scalar /\ u[i] = SNeg(s[i])
            BY <2>1
      <2>4. b[i] = SNeg(a[i])
            BY <2>2, <2>3, SumLaws
      <2>5. QED
            BY <1>3, <2>4
<1>4. \A i \in 0 .. n : i \in good
      <2> HIDE DEF good
      <2>1. QED
            BY <1>2, <1>3, CountUp
<1>5. QED
      BY <1>4 DEF a, b

-------------------------------------------------------------------------------
(* Points, coordinate by coordinate.                                       *)

\* A tuple of n entries is the function on 1 .. n.
LEMMA TupleIs ==
    ASSUME NEW n \in Nat, NEW f, f = [i \in 1 .. n |-> f[i]]
    PROVE  SubSeq(f, 1, n) = f
<1> DEFINE S == {f[i] : i \in 1 .. n}
<1>1. f \in [1 .. n -> S]
      <2>1. \A i \in 1 .. n : f[i] \in S
            OBVIOUS
      <2> HIDE DEF S
      <2>2. QED
            BY <2>1
<1>2. f \in Seq(S) /\ Len(f) = n
      <2> HIDE DEF S
      <2>1. QED
            BY <1>1
<1>3. QED
      <2> HIDE DEF S
      <2>1. QED
            BY <1>2, SubSeqFull

\* Products with 0 and 1, and that a product is a scalar.
LEMMA SMulIs ==
    ASSUME NEW a \in Scalar, NEW b \in Scalar
    PROVE  SMul(a, b) \in Scalar /\ SMul(a, 0) = 0 /\ SMul(a, 1) = a
<1>1. Order \in Nat /\ Order > 2 /\ a \in Nat /\ b \in Nat /\ a < Order
      BY GroupAssumption DEF Scalar
<1>2. a * b \in Nat /\ a * 0 = 0 /\ a * 1 = a
      BY <1>1
<1>3. (a * b) % Order \in Scalar
      <2>1. 0 \in Scalar
            BY <1>1 DEF Scalar
      <2>2. QED
            BY <1>2, <2>1, RestCounts
<1>4. 0 % Order = 0 /\ a % Order = a
      <2>1. 0 \in Scalar /\ 0 = Order * 0 + 0 /\ a = Order * 0 + a /\ 0 \in Int /\ a \in Int
            BY <1>1 DEF Scalar
      <2>2. 0 % Order = 0
            BY <2>1, RestIs
      <2>3. a % Order = a
            BY <2>1, RestIs
      <2>4. QED
            BY <2>2, <2>3
<1>5. QED
      BY <1>2, <1>3, <1>4 DEF SMul

LEMMA ZeroAndOne == 0 \in Scalar /\ 1 \in Scalar /\ Dim \in Nat /\ Dim > 0 /\ Scalar \subseteq Nat
BY GroupAssumption DEF Scalar

LEMMA InfinityIs == Infinity = [i \in 1 .. Dim |-> 0] /\ Infinity \in Point
<1> DEFINE f == [i \in 1 .. Dim |-> 0]
<1>1. f = [i \in 1 .. Dim |-> f[i]] /\ f \in Point
      BY ZeroAndOne DEF Point
<1>2. Infinity = SubSeq(f, 1, Dim)
      BY DEF Infinity, Tuple
<1> HIDE DEF f
<1>3. Infinity = f
      BY <1>1, <1>2, TupleIs, ZeroAndOne
<1>4. QED
      BY <1>1, <1>3 DEF f

LEMMA UnitIs ==
    ASSUME NEW k
    PROVE  Unit(k) = [i \in 1 .. Dim |-> IF i = k THEN 1 ELSE 0] /\ Unit(k) \in Point
<1> DEFINE f == [i \in 1 .. Dim |-> IF i = k THEN 1 ELSE 0]
<1>1. f = [i \in 1 .. Dim |-> f[i]] /\ f \in Point
      BY ZeroAndOne DEF Point
<1>2. Unit(k) = SubSeq(f, 1, Dim)
      BY DEF Unit, Tuple
<1> HIDE DEF f
<1>3. Unit(k) = f
      BY <1>1, <1>2, TupleIs, ZeroAndOne
<1>4. QED
      BY <1>1, <1>3 DEF f

LEMMA GAddIs ==
    ASSUME NEW P \in Point, NEW R \in Point
    PROVE  GAdd(P, R) = [i \in 1 .. Dim |-> SAdd(P[i], R[i])] /\ GAdd(P, R) \in Point
<1> DEFINE f == [i \in 1 .. Dim |-> SAdd(P[i], R[i])]
<1>1. f = [i \in 1 .. Dim |-> f[i]] /\ f \in Point
      BY SAddIs DEF Point
<1>2. GAdd(P, R) = SubSeq(f, 1, Dim)
      BY DEF GAdd, Tuple
<1> HIDE DEF f
<1>3. GAdd(P, R) = f
      BY <1>1, <1>2, TupleIs, ZeroAndOne
<1>4. QED
      BY <1>1, <1>3 DEF f

LEMMA GNegIs ==
    ASSUME NEW P \in Point
    PROVE  GNeg(P) = [i \in 1 .. Dim |-> SNeg(P[i])] /\ GNeg(P) \in Point
<1> DEFINE f == [i \in 1 .. Dim |-> SNeg(P[i])]
<1>1. f = [i \in 1 .. Dim |-> f[i]] /\ f \in Point
      BY SNegIs DEF Point
<1>2. GNeg(P) = SubSeq(f, 1, Dim)
      BY DEF GNeg, Tuple
<1> HIDE DEF f
<1>3. GNeg(P) = f
      BY <1>1, <1>2, TupleIs, ZeroAndOne
<1>4. QED
      BY <1>1, <1>3 DEF f

LEMMA GMulIs ==
    ASSUME NEW s \in Scalar, NEW P \in Point
    PROVE  GMul(s, P) = [i \in 1 .. Dim |-> SMul(s, P[i])] /\ GMul(s, P) \in Point
<1> DEFINE f == [i \in 1 .. Dim |-> SMul(s, P[i])]
<1>1. f = [i \in 1 .. Dim |-> f[i]] /\ f \in Point
      BY SMulIs DEF Point
<1>2. GMul(s, P) = SubSeq(f, 1, Dim)
      BY DEF GMul, Tuple
<1> HIDE DEF f
<1>3. GMul(s, P) = f
      BY <1>1, <1>2, TupleIs, ZeroAndOne
<1>4. QED
      BY <1>1, <1>3 DEF f

\* Points that agree in every coordinate are the same.
LEMMA SamePoint ==
    ASSUME NEW P \in Point, NEW R \in Point, \A k \in 1 .. Dim : P[k] = R[k]
    PROVE  P = R
<1>1. P = [k \in 1 .. Dim |-> P[k]] /\ R = [k \in 1 .. Dim |-> R[k]]
      BY DEF Point
<1>2. [k \in 1 .. Dim |-> P[k]] = [k \in 1 .. Dim |-> R[k]]
      OBVIOUS
<1>3. QED
      BY <1>1, <1>2

\* Turned around twice a point is where it was.
LEMMA TurnedTwice == ASSUME NEW P \in Point PROVE GNeg(GNeg(P)) = P
<1>1. GNeg(P) \in Point /\ GNeg(GNeg(P)) \in Point
      BY GNegIs
<1>2. ASSUME NEW k \in 1 .. Dim PROVE GNeg(GNeg(P))[k] = P[k]
      <2>1. P[k] \in Scalar
            BY DEF Point
      <2>2. GNeg(P)[k] = SNeg(P[k]) /\ GNeg(GNeg(P))[k] = SNeg(GNeg(P)[k])
            BY <1>1, GNegIs
      <2>3. QED
            BY <2>1, <2>2, SumLaws
<1>3. QED
      BY <1>1, <1>2, SamePoint

\* t holds the sums of the first points of s.
AddsPoints(t, s) ==
    /\ t \in [0 .. Len(s) -> Point]
    /\ t[0] = Infinity
    /\ \A i \in 1 .. Len(s) : t[i] = GAdd(t[i - 1], s[i])

\* What pointSums computes.
LEMMA PointSumsAre ==
    ASSUME NEW s \in Seq(Point)
    PROVE  AddsPoints(pointSums(s), s)
<1> DEFINE n == Len(s)
           move == [p \in Point \X (1 .. n) |-> GAdd(p[1], s[p[2]])]
           next(t, i) == IF i = 0 THEN Infinity ELSE GAdd(t[i - 1], s[i])
           sums == pointSums(s)
<1>1. n \in Nat /\ Infinity \in Point /\ \A i \in 1 .. n : s[i] \in Point
      BY InfinityIs
<1>2. move \in [Point \X (1 .. n) -> Point]
      <2>1. ASSUME NEW P \in Point, NEW i \in 1 .. n PROVE GAdd(P, s[i]) \in Point
            BY <1>1, GAddIs
      <2> HIDE DEF n
      <2>2. QED
            BY <2>1
<1>3. PICK t : Walks(t, n, Point, Infinity, move)
      <2> HIDE DEF n, move
      <2>1. QED
            BY <1>1, <1>2, WalkExists
<1>4. /\ t \in [0 .. n -> Point] /\ t[0] = Infinity
      /\ \A i \in 1 .. n : t[i] = GAdd(t[i - 1], s[i])
      <2>1. /\ t \in [0 .. n -> Point] /\ t[0] = Infinity
            /\ \A i \in 1 .. n : t[i] = move[<<t[i - 1], i>>]
            BY <1>3 DEF Walks
      <2>2. ASSUME NEW i \in 1 .. n PROVE <<t[i - 1], i>> \in Point \X (1 .. n)
            <3>1. i - 1 \in 0 .. n
                  BY <1>1
            <3> HIDE DEF n, move
            <3>2. QED
                  BY <2>1, <3>1
      <2>3. \A p \in Point \X (1 .. n) : move[p] = GAdd(p[1], s[p[2]])
            OBVIOUS
      <2> HIDE DEF n, move
      <2>4. QED
            BY <2>1, <2>2, <2>3
<1>5. t = [i \in 0 .. n |-> next(t, i)]
      <2> HIDE DEF n, move
      <2>1. QED
            BY <1>1, <1>4
<1>6. sums = CHOOSE u : u = [i \in 0 .. n |-> next(u, i)]
      BY DEF pointSums
<1>7. sums = [i \in 0 .. n |-> next(sums, i)]
      <2> HIDE DEF next, n, sums, move
      <2>1. QED
            BY <1>5, <1>6
<1>8. sums[0] = Infinity /\ \A i \in 1 .. n : sums[i] = GAdd(sums[i - 1], s[i])
      <2> HIDE DEF n, sums, move
      <2>1. QED
            BY <1>1, <1>7
<1>9. \A i \in 0 .. n : sums[i] \in Point
      <2> DEFINE good == {i \in 0 .. n : sums[i] \in Point}
      <2>1. 0 \in good
            BY <1>1, <1>8
      <2>2. ASSUME NEW i \in 1 .. n, i - 1 \in good PROVE i \in good
            <3>1. i \in 0 .. n /\ sums[i - 1] \in Point
                  BY <1>1, <2>2
            <3>2. sums[i] = GAdd(sums[i - 1], s[i]) /\ s[i] \in Point
                  BY <1>1, <1>8
            <3> HIDE DEF n, sums, move
            <3>3. sums[i] \in Point
                  BY <3>1, <3>2, GAddIs
            <3>4. QED
                  BY <3>1, <3>3
      <2>3. \A i \in 0 .. n : i \in good
            <3> HIDE DEF n, sums, move, good
            <3>1. QED
                  BY <1>1, <2>1, <2>2, CountUp
      <2>4. QED
            BY <2>3
<1>10. sums \in [0 .. n -> Point]
      <2> HIDE DEF n, sums, move, next
      <2>1. QED
            BY <1>7, <1>9
<1>11. QED
      BY <1>8, <1>10 DEF AddsPoints

\* One coordinate of a sequence of points.
column(s, k) == [i \in 1 .. Len(s) |-> s[i][k]]

LEMMA ColumnTyped ==
    ASSUME NEW s \in Seq(Point), NEW k \in 1 .. Dim
    PROVE  column(s, k) \in Seq(Scalar) /\ column(s, k) \in Seq(Nat) /\ Len(column(s, k)) = Len(s)
<1> DEFINE c == column(s, k)
<1>1. Len(s) \in Nat /\ \A i \in 1 .. Len(s) : s[i][k] \in Scalar
      <2>1. Len(s) \in Nat /\ \A i \in 1 .. Len(s) : s[i] \in Point
            OBVIOUS
      <2>2. \A P \in Point : P[k] \in Scalar
            BY DEF Point
      <2>3. QED
            BY <2>1, <2>2
<1>2. c \in [1 .. Len(s) -> Scalar]
      BY <1>1 DEF column
<1> HIDE DEF c
<1>3. c \in Seq(Scalar) /\ Len(c) = Len(s)
      BY <1>1, <1>2
<1>4. c \in Seq(Nat)
      BY <1>3, ZeroAndOne, SeqMonotonic
<1>5. QED
      BY <1>3, <1>4 DEF c

\* A sum of points is the sum in each coordinate.
LEMMA GSumIs ==
    ASSUME NEW s \in Seq(Point)
    PROVE  GSum(s) \in Point /\ \A k \in 1 .. Dim : GSum(s)[k] = SSum(column(s, k))
<1> DEFINE t == pointSums(s)
           n == Len(s)
<1>1. AddsPoints(t, s) /\ n \in Nat /\ GSum(s) = t[n]
      BY PointSumsAre DEF GSum
<1> HIDE DEF t
<1>2. GSum(s) \in Point
      BY <1>1 DEF AddsPoints
<1>3. ASSUME NEW k \in 1 .. Dim PROVE GSum(s)[k] = SSum(column(s, k))
      <2> DEFINE c == column(s, k)
                 a == scalarSums(c)
                 good == {i \in 0 .. n : t[i][k] = a[i]}
      <2>1. c \in Seq(Nat) /\ Len(c) = n /\ \A i \in 1 .. n : c[i] = s[i][k]
            BY ColumnTyped DEF column
      <2> HIDE DEF c
      <2>2. AddsTo(a, c) /\ SSum(c) = a[n]
            BY <2>1, ScalarSumsAre DEF SSum
      <2> HIDE DEF a, n
      <2>3. 0 \in good
            <3>1. t[0] = Infinity /\ a[0] = 0
                  BY <1>1, <2>2 DEF AddsPoints, AddsTo
            <3>2. Infinity[k] = 0
                  BY InfinityIs
            <3>3. QED
                  BY <1>1, <3>1, <3>2
      <2>4. ASSUME NEW i \in 1 .. n, i - 1 \in good PROVE i \in good
            <3>1. i - 1 \in 0 .. n /\ i \in 0 .. n /\ t[i - 1][k] = a[i - 1]
                  BY <1>1, <2>4
            <3>2. t[i] = GAdd(t[i - 1], s[i]) /\ t[i - 1] \in Point
                  BY <1>1, <3>1 DEF AddsPoints, n
            <3>3. a[i] = SAdd(a[i - 1], c[i])
                  BY <2>1, <2>2 DEF AddsTo
            <3>4. s[i] \in Point
                  BY <1>1 DEF n
            <3>5. t[i][k] = SAdd(t[i - 1][k], s[i][k])
                  <4>1. GAdd(t[i - 1], s[i]) = [j \in 1 .. Dim |-> SAdd(t[i - 1][j], s[i][j])]
                        BY <3>2, <3>4, GAddIs
                  <4>2. QED
                        BY <3>2, <4>1
            <3>6. QED
                  BY <2>1, <3>1, <3>3, <3>5
      <2>5. \A i \in 0 .. n : i \in good
            <3> HIDE DEF good
            <3>1. QED
                  BY <1>1, <2>3, <2>4, CountUp
      <2>6. QED
            BY <1>1, <2>2, <2>5 DEF c
<1>4. QED
      BY <1>2, <1>3

-------------------------------------------------------------------------------
(* The forms that commitments travel in.                                   *)

\* A byte in front of a point is read back as such.
LEMMA ByteAndPoint ==
    ASSUME NEW b \in Nat, NEW P \in Point
    PROVE  (<<b>> \o P)[1] = b /\ Tail(<<b>> \o P) = P
<1> DEFINE c == <<b>> \o P
<1>1. P \in Seq(Nat) /\ Len(P) = Dim /\ <<b>> \in Seq(Nat) /\ Len(<<b>>) = 1
      <2>1. P \in Seq(Scalar) /\ Len(P) = Dim
            BY ZeroAndOne DEF Point
      <2>2. P \in Seq(Nat)
            BY <2>1, ZeroAndOne, SeqMonotonic
      <2>3. QED
            BY <2>1, <2>2
<1>2. c \in Seq(Nat) /\ Len(c) = 1 + Dim /\ \A i \in 1 .. 1 + Dim : c[i] = IF i <= 1 THEN b ELSE P[i - 1]
      <2> DEFINE one == <<b>>
      <2>1. one \in Seq(Nat) /\ Len(one) = 1 /\ one[1] = b
            BY <1>1
      <2> HIDE DEF one
      <2>2. /\ one \o P \in Seq(Nat) /\ Len(one \o P) = 1 + Dim
            /\ \A i \in 1 .. 1 + Dim : (one \o P)[i] = IF i <= 1 THEN one[i] ELSE P[i - 1]
            <3>1. /\ one \o P \in Seq(Nat) /\ Len(one \o P) = Len(one) + Len(P)
                  /\ \A i \in 1 .. Len(one) + Len(P) :
                        (one \o P)[i] = IF i <= Len(one) THEN one[i] ELSE P[i - Len(one)]
                  BY <1>1, <2>1, ConcatProperties
            <3>2. QED
                  BY <1>1, <2>1, <3>1
      <2>3. \A i \in 1 .. 1 + Dim : i <= 1 => i = 1
            BY ZeroAndOne
      <2>4. c = one \o P
            BY DEF one
      <2> HIDE DEF c
      <2>5. QED
            BY <2>1, <2>2, <2>3, <2>4
<1> HIDE DEF c
<1>3. c # <<>> /\ c[1] = b
      BY <1>2, ZeroAndOne
<1>4. Tail(c) \in Seq(Nat) /\ Len(Tail(c)) = Dim /\ \A i \in 1 .. Dim : Tail(c)[i] = c[i + 1]
      <2>1. Tail(c) \in Seq(Nat) /\ Len(Tail(c)) = Len(c) - 1 /\ \A i \in 1 .. Len(Tail(c)) : Tail(c)[i] = c[i + 1]
            BY <1>2, <1>3, HeadTailProperties
      <2>2. Len(c) - 1 = Dim
            BY <1>2, ZeroAndOne
      <2>3. QED
            BY <2>1, <2>2
<1>5. \A i \in 1 .. Dim : Tail(c)[i] = P[i]
      <2>1. ASSUME NEW i \in 1 .. Dim PROVE Tail(c)[i] = P[i]
            <3>1. i + 1 \in 1 .. 1 + Dim /\ ~(i + 1 <= 1) /\ (i + 1) - 1 = i
                  BY ZeroAndOne
            <3>2. QED
                  BY <1>2, <1>4, <3>1
      <2>2. QED
            BY <2>1
<1>6. Tail(c) = P
      BY <1>1, <1>4, <1>5, SeqEqual
<1>7. QED
      BY <1>3, <1>6 DEF c

\* A point is a tuple of numbers.
LEMMA PointIsTuple ==
    ASSUME NEW P \in Point
    PROVE  P \in Seq(Nat)
<1>1. P \in Seq(Scalar)
      BY ZeroAndOne DEF Point
<1>2. QED
      BY <1>1, ZeroAndOne, SeqMonotonic

\* The form of a point is one as well.
LEMMA FormIsBytes ==
    ASSUME NEW P \in Point
    PROVE  quadForm(8, P) \in Seq(Nat)
<1> DEFINE b == IF HasQuadY(P) THEN 8 ELSE 9
           Q == XCoordinate(P)
<1>1. b \in Nat /\ <<b>> \in Seq(Nat)
      OBVIOUS
<1>2. Q \in Point
      BY GNegIs DEF XCoordinate
<1>3. quadForm(8, P) = <<b>> \o Q
      BY DEF quadForm
<1> HIDE DEF b, Q
<1>4. Q \in Seq(Nat)
      BY <1>2, PointIsTuple
<1> DEFINE one == <<b>>
<1>5. one \in Seq(Nat)
      BY <1>1
<1> HIDE DEF one
<1>6. one \o Q \in Seq(Nat)
      BY <1>4, <1>5, ConcatProperties
<1>7. QED
      BY <1>3, <1>6 DEF one

\* Of a point and its opposite one has a square y, since the order is odd.
LEMMA OneIsQuad ==
    ASSUME NEW P \in Point, ~HasQuadY(P)
    PROVE  HasQuadY(GNeg(P))
<1>1. P # Infinity
      BY DEF HasQuadY
<1> DEFINE nonzero == {i \in 1 .. Dim : P[i] # 0}
<1>2. nonzero # {}
      <2>1. SUFFICES ASSUME \A i \in 1 .. Dim : P[i] = 0 PROVE FALSE
            OBVIOUS
      <2>2. \A i \in 1 .. Dim : P[i] = Infinity[i]
            BY <2>1, InfinityIs
      <2>3. QED
            BY <1>1, <2>2, InfinityIs, SamePoint
<1>3. PICK m \in nonzero : \A i \in nonzero : m <= i
      <2>1. nonzero \subseteq Nat
            OBVIOUS
      <2> HIDE DEF nonzero
      <2>2. QED
            BY <1>2, <2>1, LeastOf, Zenon
<1>4. m \in 1 .. Dim /\ P[m] # 0 /\ P[m] \in Scalar
      BY <1>3 DEF Point
<1>5. \A j \in 1 .. m - 1 : j \in 1 .. Dim /\ P[j] = 0
      <2>1. ASSUME NEW j \in 1 .. m - 1 PROVE j \in 1 .. Dim /\ P[j] = 0
            <3>1. j \in 1 .. Dim /\ ~(m <= j)
                  BY <1>4, ZeroAndOne
            <3>2. j \notin nonzero
                  <4> HIDE DEF nonzero
                  <4>1. QED
                        BY <1>3, <3>1
            <3>3. QED
                  BY <3>1, <3>2
      <2>2. QED
            BY <2>1
<1>6. ~(2 * P[m] < Order)
      BY <1>4, <1>5 DEF HasQuadY
<1>7. GNeg(P)[m] # 0 /\ 2 * GNeg(P)[m] < Order
      <2>1. GNeg(P)[m] = SNeg(P[m])
            BY <1>4, GNegIs
      <2>2. SNeg(P[m]) = Order - P[m]
            BY <1>4, SNegIs
      <2>3. Order \in Nat /\ Order % 2 = 1 /\ P[m] \in Nat /\ P[m] < Order
            BY <1>4, GroupAssumption DEF Scalar
      <2>4. 2 * P[m] # Order
            BY <2>3
      <2>5. QED
            BY <1>6, <2>1, <2>2, <2>3, <2>4
<1>8. \A j \in 1 .. m - 1 : GNeg(P)[j] = 0
      <2>1. SNeg(0) = 0
            BY ZeroAndOne, SNegIs
      <2>2. QED
            BY <1>5, <2>1, GNegIs
<1>9. QED
      BY <1>4, <1>7, <1>8 DEF HasQuadY

\* A commitment loads as the point that was saved.
LEMMA LoadsWhatWasSaved ==
    ASSUME NEW P \in Point
    PROVE  /\ pedersen_commitment_load(quadForm(8, P)) = P
           /\ pedersen_commitment_to_pubkey(quadForm(8, P)) = P
<1>1. CASE HasQuadY(P)
      <2>1. quadForm(8, P) = <<8>> \o P
            BY <1>1 DEF quadForm, XCoordinate
      <2>2. (<<8>> \o P)[1] = 8 /\ Tail(<<8>> \o P) = P
            BY ByteAndPoint
      <2>3. QED
            BY <2>1, <2>2 DEF pedersen_commitment_load, pedersen_commitment_to_pubkey
<1>2. CASE ~HasQuadY(P)
      <2>1. quadForm(8, P) = <<9>> \o GNeg(P)
            BY <1>2 DEF quadForm, XCoordinate
      <2>2. (<<9>> \o GNeg(P))[1] = 9 /\ Tail(<<9>> \o GNeg(P)) = GNeg(P)
            BY ByteAndPoint, GNegIs
      <2>3. GNeg(GNeg(P)) = P /\ 9 % 2 = 1
            BY TurnedTwice
      <2>4. quadForm(8, P)[1] = 9 /\ Tail(quadForm(8, P)) = GNeg(P)
            BY <2>1, <2>2, Zenon
      <2>5. QED
            BY <2>3, <2>4 DEF pedersen_commitment_load, pedersen_commitment_to_pubkey
<1>3. QED
      BY <1>1, <1>2

\* Serialized, parsed and carried as a public key a commitment stays the same.
LEMMA TravelsUnchanged ==
    ASSUME NEW P \in Point, P # Infinity
    PROVE  LET c == quadForm(8, P)
           IN pubkey_to_pedersen_commitment(pedersen_commitment_to_pubkey(
                  pedersen_commitment_parse(pedersen_commitment_serialize(c)).v)) = c
<1> DEFINE c == quadForm(8, P)
           Q == XCoordinate(P)
           b == IF HasQuadY(P) THEN 8 ELSE 9
<1>1. Q \in Point /\ Q # Infinity /\ HasQuadY(Q)
      <2>1. CASE HasQuadY(P)
            BY <2>1 DEF XCoordinate
      <2>2. CASE ~HasQuadY(P)
            <3>1. Q = GNeg(P) /\ GNeg(P) \in Point
                  BY <2>2, GNegIs DEF XCoordinate
            <3>2. HasQuadY(GNeg(P))
                  BY <2>2, OneIsQuad
            <3>3. GNeg(P) # Infinity
                  <4>1. SUFFICES ASSUME GNeg(P) = Infinity PROVE FALSE
                        OBVIOUS
                  <4>2. P = GNeg(Infinity)
                        BY <4>1, TurnedTwice
                  <4>3. \A k \in 1 .. Dim : GNeg(Infinity)[k] = Infinity[k]
                        <5>1. SNeg(0) = 0
                              BY ZeroAndOne, SNegIs
                        <5>2. GNeg(Infinity) = [i \in 1 .. Dim |-> SNeg(Infinity[i])]
                              BY InfinityIs, GNegIs
                        <5>3. QED
                              BY <5>1, <5>2, InfinityIs
                  <4>4. GNeg(Infinity) = Infinity
                        BY <4>3, InfinityIs, GNegIs, SamePoint
                  <4>5. QED
                        BY <4>2, <4>4
            <3>4. QED
                  BY <3>1, <3>2, <3>3
      <2>3. QED
            BY <2>1, <2>2
<1>2. c = <<b>> \o Q /\ c[1] = b /\ Tail(c) = Q
      <2>1. c = <<b>> \o Q
            BY DEF quadForm
      <2>2. (<<b>> \o Q)[1] = b /\ Tail(<<b>> \o Q) = Q
            <3>1. b \in Nat
                  OBVIOUS
            <3> HIDE DEF b, Q
            <3>2. QED
                  BY <1>1, <3>1, ByteAndPoint
      <2>3. QED
            BY <2>1, <2>2
<1>3. pedersen_commitment_serialize(c) = c
      BY LoadsWhatWasSaved DEF pedersen_commitment_serialize
<1>4. parseQuad(8, c) = Gives(pedersen_commitment_load(c))
      <2>1. b \in {8, 9}
            OBVIOUS
      <2>2. onCurve(Tail(c))
            BY <1>1, <1>2 DEF onCurve
      <2> HIDE DEF b, Q, c
      <2>3. QED
            BY <1>2, <2>1, <2>2 DEF parseQuad, pedersen_commitment_load
<1>5. pedersen_commitment_parse(c) = Gives(c)
      <2>1. pedersen_commitment_load(c) = P
            BY LoadsWhatWasSaved
      <2>2. Gives(P).ok /\ Gives(P).v = P
            BY DEF Gives
      <2>3. pedersen_commitment_save(P) = c
            BY DEF pedersen_commitment_save
      <2> HIDE DEF b, Q, c
      <2>4. QED
            BY <1>4, <2>1, <2>2, <2>3 DEF pedersen_commitment_parse
<1>6. pedersen_commitment_to_pubkey(c) = P /\ Gives(c).v = c
      BY LoadsWhatWasSaved DEF Gives
<1>7. pubkey_to_pedersen_commitment(P) = c
      BY DEF pubkey_to_pedersen_commitment, pedersen_commitment_save
<1> HIDE DEF b, Q
<1>8. QED
      BY <1>3, <1>5, <1>6, <1>7

-------------------------------------------------------------------------------
(* What the tally adds up.                                                 *)

saves(P) == [i \in 1 .. Len(P) |-> quadForm(8, P[i])]

\* Commitments as a sequence, of which one may take the part from a to b.
LEMMA SavesIs ==
    ASSUME NEW P \in Seq(Point), NEW a \in 1 .. Len(P) + 1, NEW b \in a - 1 .. Len(P)
    PROVE  /\ Len(saves(P)) = Len(P)
           /\ Len(SubSeq(saves(P), a, b)) = b - a + 1
           /\ \A i \in 1 .. b - a + 1 : pedersen_commitment_load(SubSeq(saves(P), a, b)[i]) = P[a + i - 1]
<1> DEFINE S == {quadForm(8, R) : R \in Point}
           c == saves(P)
<1>1. c \in Seq(S) /\ Len(c) = Len(P) /\ \A i \in 1 .. Len(P) : c[i] = quadForm(8, P[i])
      <2>1. \A i \in 1 .. Len(P) : P[i] \in Point
            OBVIOUS
      <2>2. \A i \in 1 .. Len(P) : quadForm(8, P[i]) \in S
            BY <2>1
      <2> HIDE DEF S
      <2>3. Len(P) \in Nat
            OBVIOUS
      <2>4. QED
            BY <2>2, <2>3 DEF saves
<1> HIDE DEF c, S
<1>2. /\ a \in 1 .. Len(c) + 1 /\ b \in a - 1 .. Len(c)
      BY <1>1
<1>3. /\ Len(SubSeq(c, a, b)) = b - a + 1
      /\ \A i \in 1 .. b - a + 1 : SubSeq(c, a, b)[i] = c[a + i - 1]
      BY <1>1, <1>2, SubSeqProperties
<1>4. ASSUME NEW i \in 1 .. b - a + 1
      PROVE  pedersen_commitment_load(SubSeq(c, a, b)[i]) = P[a + i - 1]
      <2>1. a + i - 1 \in 1 .. Len(P)
            OBVIOUS
      <2>2. P[a + i - 1] \in Point /\ SubSeq(c, a, b)[i] = quadForm(8, P[a + i - 1])
            BY <1>1, <1>3, <2>1
      <2>3. QED
            BY <2>2, LoadsWhatWasSaved
<1>5. QED
      BY <1>1, <1>3, <1>4 DEF c

\* What verification and the sum of commitments compute: in each coordinate
\* the inputs less the outputs.
LEMMA DifferenceIs ==
    ASSUME NEW P \in Seq(Point), NEW m \in 0 .. Len(P)
    PROVE  LET D == difference(SubSeq(saves(P), 1, m), SubSeq(saves(P), m + 1, Len(saves(P))))
           IN D \in Point /\ \A k \in 1 .. Dim : D[k] = SSum(signed(column(P, k), m))
<1> DEFINE n == Len(P)
           ins == SubSeq(saves(P), 1, m)
           outs == SubSeq(saves(P), m + 1, Len(saves(P)))
           insP == [i \in 1 .. m |-> P[i]]
           outsP == [i \in 1 .. n - m |-> P[m + i]]
<1>1. Len(ins) = m /\ \A i \in 1 .. m : pedersen_commitment_load(ins[i]) = P[i]
      <2>1. 1 \in 1 .. Len(P) + 1 /\ m \in 1 - 1 .. Len(P)
            OBVIOUS
      <2>2. /\ Len(ins) = m - 1 + 1
            /\ \A i \in 1 .. m - 1 + 1 : pedersen_commitment_load(ins[i]) = P[1 + i - 1]
            BY <2>1, SavesIs
      <2> HIDE DEF ins
      <2>3. m - 1 + 1 = m /\ \A i \in 1 .. m : 1 + i - 1 = i
            OBVIOUS
      <2>4. QED
            BY <2>2, <2>3
<1>2. Len(outs) = n - m /\ \A i \in 1 .. n - m : pedersen_commitment_load(outs[i]) = P[m + i]
      <2>1. m + 1 \in 1 .. Len(P) + 1 /\ Len(P) \in (m + 1) - 1 .. Len(P)
            OBVIOUS
      <2>2. Len(saves(P)) = Len(P)
            BY <2>1, SavesIs
      <2>3. /\ Len(outs) = n - (m + 1) + 1
            /\ \A i \in 1 .. n - (m + 1) + 1 : pedersen_commitment_load(outs[i]) = P[(m + 1) + i - 1]
            BY <2>1, <2>2, SavesIs
      <2> HIDE DEF outs
      <2>4. n - (m + 1) + 1 = n - m /\ \A i \in 1 .. n - m : (m + 1) + i - 1 = m + i
            OBVIOUS
      <2>5. QED
            BY <2>3, <2>4
<1>3. /\ insP \in Seq(Point) /\ Len(insP) = m /\ \A i \in 1 .. m : insP[i] = P[i]
      /\ outsP \in Seq(Point) /\ Len(outsP) = n - m /\ \A i \in 1 .. n - m : outsP[i] = P[m + i]
      <2>1. n \in Nat /\ m \in Nat /\ n - m \in Nat
            OBVIOUS
      <2>2. \A i \in 1 .. m : P[i] \in Point
            OBVIOUS
      <2>3. \A i \in 1 .. n - m : P[m + i] \in Point
            OBVIOUS
      <2> HIDE DEF n
      <2>4. QED
            BY <2>1, <2>2, <2>3
<1>4. Tuple(Len(ins), LAMBDA i : pedersen_commitment_load(ins[i])) = insP
      <2>1. [i \in 1 .. m |-> pedersen_commitment_load(ins[i])] = insP
            BY <1>1
      <2>2. m \in Nat
            OBVIOUS
      <2>3. SubSeq(insP, 1, m) = insP
            BY <2>2, TupleIs
      <2> HIDE DEF ins, insP
      <2>4. Tuple(m, LAMBDA i : pedersen_commitment_load(ins[i])) = insP
            BY <2>1, <2>3 DEF Tuple
      <2>5. QED
            BY <1>1, <2>4
<1>5. Tuple(Len(outs), LAMBDA i : pedersen_commitment_load(outs[i])) = outsP
      <2>1. [i \in 1 .. n - m |-> pedersen_commitment_load(outs[i])] = outsP
            BY <1>2
      <2>2. n - m \in Nat
            OBVIOUS
      <2>3. SubSeq(outsP, 1, n - m) = outsP
            BY <2>2, TupleIs
      <2> HIDE DEF outs, outsP, n
      <2>4. Tuple(n - m, LAMBDA i : pedersen_commitment_load(outs[i])) = outsP
            BY <2>1, <2>3 DEF Tuple
      <2>5. QED
            BY <1>2, <2>4
<1>6. difference(ins, outs) = GAdd(GNeg(GSum(outsP)), GSum(insP))
      <2> HIDE DEF ins, outs, insP, outsP
      <2>1. QED
            BY <1>4, <1>5 DEF difference
<1>7. \A k \in 1 .. Dim : SSum(signed(column(P, k), m)) = SAdd(SSum(column(insP, k)), SNeg(SSum(column(outsP, k))))
      <2> SUFFICES ASSUME NEW k \in 1 .. Dim
                   PROVE  SSum(signed(column(P, k), m)) = SAdd(SSum(column(insP, k)), SNeg(SSum(column(outsP, k))))
          OBVIOUS
      <2> HIDE DEF ins, outs, insP, outsP
      <2>1. /\ column(P, k) \in Seq(Scalar) /\ Len(column(P, k)) = n
            /\ column(insP, k) \in Seq(Scalar) /\ Len(column(insP, k)) = m
            /\ column(outsP, k) \in Seq(Scalar) /\ Len(column(outsP, k)) = n - m
            BY <1>3, ColumnTyped
      <2>2. /\ \A i \in 1 .. n : column(P, k)[i] = P[i][k]
            /\ \A i \in 1 .. m : column(insP, k)[i] = insP[i][k]
            /\ \A i \in 1 .. n - m : column(outsP, k)[i] = outsP[i][k]
            BY <1>3 DEF column
      <2>3. m \in 0 .. n /\ n \in Nat
            OBVIOUS
      <2> HIDE DEF n
      <2>4. \A i \in 1 .. m : column(insP, k)[i] = column(P, k)[i]
            BY <1>3, <2>2, <2>3
      <2>5. \A i \in 1 .. n - m : column(outsP, k)[i] = column(P, k)[m + i]
            <3>1. \A i \in 1 .. n - m : m + i \in 1 .. n
                  BY <2>3
            <3>2. QED
                  BY <1>3, <2>2, <3>1
      <2>6. QED
            BY <2>1, <2>3, <2>4, <2>5, SignedSum
<1>8. GSum(insP) \in Point /\ GSum(outsP) \in Point
      BY <1>3, GSumIs
<1>9. GNeg(GSum(outsP)) \in Point
      BY <1>8, GNegIs
<1>10. ASSUME NEW k \in 1 .. Dim
       PROVE  GAdd(GNeg(GSum(outsP)), GSum(insP))[k] = SSum(signed(column(P, k), m))
      <2> HIDE DEF ins, outs, insP, outsP
      <2>1. GSum(insP)[k] = SSum(column(insP, k)) /\ GSum(outsP)[k] = SSum(column(outsP, k))
            BY <1>3, GSumIs
      <2>2. SSum(column(insP, k)) \in Scalar /\ SSum(column(outsP, k)) \in Scalar
            BY <1>8, <2>1 DEF Point
      <2>3. GNeg(GSum(outsP))[k] = SNeg(SSum(column(outsP, k)))
            BY <1>8, <2>1, GNegIs
      <2>4. GAdd(GNeg(GSum(outsP)), GSum(insP))[k] = SAdd(SNeg(SSum(column(outsP, k))), SSum(column(insP, k)))
            <3>1. GAdd(GNeg(GSum(outsP)), GSum(insP)) = [i \in 1 .. Dim |-> SAdd(GNeg(GSum(outsP))[i], GSum(insP)[i])]
                  BY <1>8, <1>9, GAddIs
            <3>2. QED
                  BY <2>1, <2>3, <3>1
      <2>5. SNeg(SSum(column(outsP, k))) \in Scalar
            BY <2>2, SumLaws
      <2>6. SAdd(SNeg(SSum(column(outsP, k))), SSum(column(insP, k))) = SAdd(SSum(column(insP, k)), SNeg(SSum(column(outsP, k))))
            BY <2>2, <2>5, SumLaws
      <2>7. QED
            BY <1>7, <2>4, <2>6
<1>11. QED
      <2> HIDE DEF ins, outs, insP, outsP
      <2>1. GAdd(GNeg(GSum(outsP)), GSum(insP)) \in Point
            BY <1>8, <1>9, GAddIs
      <2>2. difference(ins, outs) \in Point /\ \A k \in 1 .. Dim : difference(ins, outs)[k] = SSum(signed(column(P, k), m))
            BY <1>6, <1>10, <2>1
      <2>3. QED
            BY <2>2 DEF ins, outs

\* A sum of nothing but 0 is 0.
LEMMA ZeroSum ==
    ASSUME NEW s \in Seq(Nat), \A i \in 1 .. Len(s) : s[i] = 0
    PROVE  SSum(s) = 0
<1> DEFINE n == Len(s)
           t == scalarSums(s)
           good == {i \in 0 .. n : t[i] = 0}
<1>1. AddsTo(t, s) /\ n \in Nat
      BY ScalarSumsAre
<1>2. 0 \in good
      BY <1>1 DEF AddsTo
<1>3. ASSUME NEW i \in 1 .. n, i - 1 \in good PROVE i \in good
      <2>1. t[i] = SAdd(t[i - 1], s[i])
            BY <1>1 DEF AddsTo
      <2>2. t[i - 1] = 0 /\ s[i] = 0 /\ i \in 0 .. n
            BY <1>3
      <2> HIDE DEF t, n
      <2>3. t[i] = 0
            BY <2>1, <2>2, ZeroAndOne, SumLaws
      <2>4. QED
            BY <2>2, <2>3
<1> HIDE DEF good
<1>4. \A i \in 0 .. n : i \in good
      BY <1>1, <1>2, <1>3, CountUp
<1>5. n \in 0 .. n
      BY <1>1
<1>6. t[n] = 0
      BY <1>4, <1>5 DEF good
<1>7. QED
      BY <1>6 DEF SSum

-------------------------------------------------------------------------------
(* What is committed to.                                                   *)

Job == {r \in [value : Seq(Nat), blind : Seq(Nat), genBlind : Seq(Nat), inputs : Nat] :
           /\ Len(r.value) > 0 /\ r.inputs <= Len(r.value)
           /\ Len(r.blind) = Len(r.value) /\ Len(r.genBlind) = Len(r.value)}

\* The points P commit to the values of job, none on any other generator than
\* G and H, and their coordinates on G cancel out.
Opens(P, job) ==
    /\ P \in Seq(Point) /\ Len(P) = Len(job.value)
    /\ \A i \in 1 .. Len(P) :
          /\ P[i] # Infinity /\ P[i][2] = job.value[i] % Order
          /\ \A k \in 3 .. Dim : P[i][k] = 0
    /\ SSum(signed(column(P, 1), job.inputs)) = 0

\* A point of d times H and nothing else.
LEMMA OnHOnly ==
    ASSUME NEW d \in Scalar, NEW D \in Point, D[1] = 0, D[2] = d, \A k \in 3 .. Dim : D[k] = 0
    PROVE  /\ D = Infinity <=> d = 0
           /\ saved(D) = pedersen_commit(0, d, H, G)
<1>1. \A k \in 1 .. Dim : k = 1 \/ k = 2 \/ k \in 3 .. Dim
      BY ZeroAndOne
<1>2. 1 \in 1 .. Dim /\ 2 \in 1 .. Dim
      BY AmountAssumption, ZeroAndOne
<1>3. D = Infinity <=> d = 0
      <2>1. ASSUME D = Infinity PROVE d = 0
            BY <1>2, <2>1, InfinityIs
      <2>2. ASSUME d = 0 PROVE D = Infinity
            <3>1. \A k \in 1 .. Dim : D[k] = Infinity[k]
                  BY <1>1, <2>2, InfinityIs
            <3>2. QED
                  BY <3>1, InfinityIs, SamePoint
      <2>3. QED
            BY <2>1, <2>2
<1>4. ScalarOf(0) = 0 /\ ~Overflow(0) /\ d % Order = d
      BY GroupAssumption DEF ScalarOf, Overflow, Scalar
<1> DEFINE A == GMul(d, H)
           B == GMul(0, G)
<1>5. /\ H \in Point /\ G \in Point
      /\ \A k \in 1 .. Dim : H[k] = IF k = 2 THEN 1 ELSE 0
      BY UnitIs DEF H, G
<1>6. A \in Point /\ B \in Point /\ \A k \in 1 .. Dim : A[k] = SMul(d, H[k]) /\ B[k] = SMul(0, G[k])
      BY <1>5, ZeroAndOne, GMulIs
<1>7. \A k \in 1 .. Dim : B[k] = 0
      <2>1. ASSUME NEW k \in 1 .. Dim PROVE SMul(0, G[k]) = 0
            BY <1>5, GroupAssumption DEF SMul, Point, Scalar
      <2>2. QED
            BY <1>6, <2>1
<1>8. \A k \in 1 .. Dim : A[k] = D[k]
      <2>1. ASSUME NEW k \in 1 .. Dim PROVE A[k] = D[k]
            <3>1. SMul(d, 0) = 0 /\ SMul(d, 1) = d
                  BY ZeroAndOne, SMulIs
            <3>2. CASE k = 2
                  BY <1>5, <1>6, <3>1, <3>2
            <3>3. CASE k # 2
                  <4>1. D[k] = 0
                        BY <1>1, <3>3
                  <4>2. QED
                        BY <1>5, <1>6, <3>1, <3>3, <4>1
            <3>4. QED
                  BY <3>2, <3>3
      <2>2. QED
            BY <2>1
<1> HIDE DEF A, B
<1>9. GAdd(A, B) = D
      <2>1. GAdd(A, B) \in Point /\ \A k \in 1 .. Dim : GAdd(A, B)[k] = SAdd(A[k], B[k])
            <3>1. GAdd(A, B) \in Point /\ GAdd(A, B) = [k \in 1 .. Dim |-> SAdd(A[k], B[k])]
                  BY <1>6, GAddIs
            <3>2. QED
                  BY <3>1
      <2>2. \A k \in 1 .. Dim : SAdd(A[k], B[k]) = D[k]
            <3>1. ASSUME NEW k \in 1 .. Dim PROVE SAdd(A[k], B[k]) = D[k]
                  <4>1. A[k] \in Scalar
                        BY <1>6 DEF Point
                  <4>2. QED
                        BY <1>7, <1>8, <4>1, ZeroAndOne, SumLaws
            <3>2. QED
                  BY <3>1
      <2>3. QED
            BY <2>1, <2>2, SamePoint
<1>10. pedersen_ecmult(0, d, H, G) = D
      BY <1>9 DEF pedersen_ecmult, A, B
<1>11. pedersen_commit(0, d, H, G) = saved(D)
      BY <1>4, <1>10 DEF pedersen_commit
<1>12. QED
      BY <1>3, <1>11

\* Of values and of what is left of them the sums are the same.
LEMMA ValuesCount ==
    ASSUME NEW v \in Seq(Nat), NEW m \in 0 .. Len(v), NEW c \in Seq(Scalar), Len(c) = Len(v),
           \A i \in 1 .. Len(v) : c[i] = v[i] % Order
    PROVE  SSum(signed(c, m)) = SAdd(SSum(SubSeq(v, 1, m)), SNeg(SSum(SubSeq(v, m + 1, Len(v)))))
<1> DEFINE n == Len(v)
           ins == SubSeq(v, 1, m)
           outs == SubSeq(v, m + 1, n)
           insC == [i \in 1 .. m |-> c[i]]
           outsC == [i \in 1 .. n - m |-> c[m + i]]
<1>1. n \in Nat /\ m \in Nat /\ n - m \in Nat
      OBVIOUS
<1>2. ins \in Seq(Nat) /\ Len(ins) = m /\ \A i \in 1 .. m : ins[i] = v[i]
      <2>1. 1 \in 1 .. n + 1 /\ m \in 1 - 1 .. n
            OBVIOUS
      <2>2. ins \in Seq(Nat) /\ Len(ins) = m - 1 + 1 /\ \A i \in 1 .. m - 1 + 1 : ins[i] = v[1 + i - 1]
            BY <2>1, SubSeqProperties
      <2> HIDE DEF ins, n
      <2>3. m - 1 + 1 = m /\ \A i \in 1 .. m : 1 + i - 1 = i
            BY <1>1
      <2>4. QED
            BY <2>2, <2>3
<1>3. outs \in Seq(Nat) /\ Len(outs) = n - m /\ \A i \in 1 .. n - m : outs[i] = v[m + i]
      <2>1. m + 1 \in 1 .. n + 1 /\ n \in (m + 1) - 1 .. n
            OBVIOUS
      <2>2. /\ outs \in Seq(Nat) /\ Len(outs) = n - (m + 1) + 1
            /\ \A i \in 1 .. n - (m + 1) + 1 : outs[i] = v[(m + 1) + i - 1]
            BY <2>1, SubSeqProperties
      <2> HIDE DEF outs, n
      <2>3. n - (m + 1) + 1 = n - m /\ \A i \in 1 .. n - m : (m + 1) + i - 1 = m + i
            BY <1>1
      <2>4. QED
            BY <2>2, <2>3
<1>4. /\ insC \in Seq(Scalar) /\ Len(insC) = m /\ \A i \in 1 .. m : insC[i] = c[i]
      /\ outsC \in Seq(Scalar) /\ Len(outsC) = n - m /\ \A i \in 1 .. n - m : outsC[i] = c[m + i]
      <2>1. \A i \in 1 .. m : c[i] \in Scalar
            OBVIOUS
      <2>2. \A i \in 1 .. n - m : c[m + i] \in Scalar
            OBVIOUS
      <2> HIDE DEF n
      <2>3. QED
            BY <1>1, <2>1, <2>2
<1>5. \A i \in 1 .. n : c[i] % Order = v[i] % Order
      <2>1. ASSUME NEW x \in Scalar PROVE x % Order = x
            <3>1. x \in Int /\ x = Order * 0 + x
                  BY GroupAssumption DEF Scalar
            <3>2. QED
                  BY <3>1, RestIs
      <2>2. ASSUME NEW i \in 1 .. n PROVE c[i] % Order = v[i] % Order
            <3>1. c[i] \in Scalar /\ c[i] = v[i] % Order
                  OBVIOUS
            <3>2. QED
                  BY <2>1, <3>1
      <2>3. QED
            BY <2>2
<1>6. SSum(ins) = SSum(insC)
      <2>1. \A i \in 1 .. m : i \in 1 .. n
            OBVIOUS
      <2>2. insC \in Seq(Nat)
            BY <1>4, ZeroAndOne, SeqMonotonic
      <2> HIDE DEF ins, insC, n
      <2>3. \A i \in 1 .. m : ins[i] % Order = insC[i] % Order
            BY <1>2, <1>4, <1>5, <2>1
      <2>4. \A i \in 0 .. m : scalarSums(ins)[i] = scalarSums(insC)[i]
            <3>1. m <= Len(ins) /\ m <= Len(insC)
                  BY <1>1, <1>2, <1>4
            <3>2. QED
                  BY <1>1, <1>2, <2>2, <2>3, <3>1, SumsAgree
      <2>5. m \in 0 .. m
            BY <1>1
      <2>6. QED
            BY <1>2, <1>4, <2>4, <2>5 DEF SSum
<1>7. SSum(outs) = SSum(outsC)
      <2>1. \A i \in 1 .. n - m : m + i \in 1 .. n
            OBVIOUS
      <2> HIDE DEF outs, outsC, n
      <2>2. outsC \in Seq(Nat)
            BY <1>4, ZeroAndOne, SeqMonotonic
      <2>3. \A i \in 1 .. n - m : outs[i] % Order = outsC[i] % Order
            BY <1>3, <1>4, <1>5, <2>1
      <2>4. \A i \in 0 .. n - m : scalarSums(outs)[i] = scalarSums(outsC)[i]
            <3>1. n - m <= Len(outs) /\ n - m <= Len(outsC)
                  BY <1>1, <1>3, <1>4
            <3>2. QED
                  BY <1>1, <1>3, <2>2, <2>3, <3>1, SumsAgree
      <2>5. n - m \in 0 .. n - m
            BY <1>1
      <2>6. QED
            BY <1>3, <1>4, <2>4, <2>5 DEF SSum
<1>8. SSum(signed(c, m)) = SAdd(SSum(insC), SNeg(SSum(outsC)))
      <2>1. m \in 0 .. Len(c) /\ n = Len(c)
            OBVIOUS
      <2> HIDE DEF n, insC, outsC
      <2>2. QED
            BY <1>4, <2>1, SignedSum
<1>9. QED
      BY <1>6, <1>7, <1>8

\* A tally of commitments that open to a job's values holds exactly when the
\* job balances, and leaves a commitment to the difference.
LEMMA OpenedTally ==
    ASSUME NEW job \in Job, NEW P, Opens(P, job)
    PROVE  LET c == saves(P)
               ins == SubSeq(c, 1, job.inputs)
               outs == SubSeq(c, job.inputs + 1, Len(c))
               v == job.value
               insV == SSum(SubSeq(v, 1, job.inputs))
               outsV == SSum(SubSeq(v, job.inputs + 1, Len(v)))
           IN /\ pedersen_verify_tally(ins, outs) <=> insV = outsV
              /\ pedersen_commit_sum(ins, outs) = pedersen_commit(0, SAdd(insV, SNeg(outsV)), H, G)
<1> DEFINE c == saves(P)
           m == job.inputs
           ins == SubSeq(c, 1, m)
           outs == SubSeq(c, m + 1, Len(c))
           v == job.value
           D == difference(ins, outs)
           insV == SSum(SubSeq(v, 1, m))
           outsV == SSum(SubSeq(v, m + 1, Len(v)))
           d == SAdd(insV, SNeg(outsV))
<1>1. /\ P \in Seq(Point) /\ Len(P) = Len(v) /\ v \in Seq(Nat) /\ m \in 0 .. Len(P) /\ m \in Nat
      /\ \A i \in 1 .. Len(P) : P[i][2] = v[i] % Order /\ \A k \in 3 .. Dim : P[i][k] = 0
      /\ SSum(signed(column(P, 1), m)) = 0
      BY DEF Job, Opens
<1>2. D \in Point /\ \A k \in 1 .. Dim : D[k] = SSum(signed(column(P, k), m))
      BY <1>1, DifferenceIs
<1>3. 1 \in 1 .. Dim /\ 2 \in 1 .. Dim /\ 3 .. Dim \subseteq 1 .. Dim
      BY AmountAssumption, ZeroAndOne
<1> HIDE DEF D, m, v
<1>4. D[1] = 0
      BY <1>1, <1>2, <1>3
<1>5. D[2] = d
      <2>1. /\ column(P, 2) \in Seq(Scalar) /\ Len(column(P, 2)) = Len(v)
            /\ \A i \in 1 .. Len(P) : column(P, 2)[i] = P[i][2]
            BY <1>1, <1>3, ColumnTyped DEF column
      <2>2. \A i \in 1 .. Len(v) : column(P, 2)[i] = v[i] % Order
            BY <1>1, <2>1
      <2>3. SSum(signed(column(P, 2), m)) = d
            BY <1>1, <2>1, <2>2, ValuesCount
      <2>4. QED
            BY <1>2, <1>3, <2>3
<1>6. ASSUME NEW k \in 3 .. Dim PROVE D[k] = 0
      <2>1. /\ column(P, k) \in Seq(Scalar) /\ Len(column(P, k)) = Len(P)
            /\ \A i \in 1 .. Len(P) : column(P, k)[i] = P[i][k]
            BY <1>1, <1>3, ColumnTyped DEF column
      <2>2. /\ signed(column(P, k), m) \in Seq(Nat) /\ Len(signed(column(P, k), m)) = Len(P)
            BY <1>1, <2>1, SignedTyped
      <2>3. \A i \in 1 .. Len(P) : column(P, k)[i] = 0
            BY <1>1, <2>1
      <2>4. SNeg(0) = 0
            BY ZeroAndOne, SumLaws
      <2>5. \A i \in 1 .. Len(P) : signed(column(P, k), m)[i] = 0
            BY <2>1, <2>3, <2>4 DEF signed
      <2>6. SSum(signed(column(P, k), m)) = 0
            BY <2>2, <2>5, ZeroSum
      <2>7. QED
            BY <1>2, <1>3, <2>6
<1>7. insV \in Scalar /\ outsV \in Scalar
      <2>1. SubSeq(v, 1, m) \in Seq(Nat) /\ SubSeq(v, m + 1, Len(v)) \in Seq(Nat)
            <3>1. 1 \in 1 .. Len(v) + 1 /\ m \in 1 - 1 .. Len(v) /\ m + 1 \in 1 .. Len(v) + 1 /\ Len(v) \in (m + 1) - 1 .. Len(v)
                  BY <1>1
            <3>2. QED
                  BY <1>1, <3>1, SubSeqProperties
      <2>2. QED
            BY <2>1, SumIs
<1> HIDE DEF insV, outsV
<1>8. d \in Scalar /\ (d = 0 <=> insV = outsV)
      <2>1. SNeg(outsV) \in Scalar
            BY <1>7, SumLaws
      <2>2. d \in Scalar
            BY <1>7, <2>1, SumLaws
      <2>3. d = 0 => insV = outsV
            BY <1>7, SumLaws
      <2>4. insV = outsV => d = 0
            BY <1>7, SumLaws
      <2>5. QED
            BY <2>2, <2>3, <2>4
<1> HIDE DEF d
<1>9. (D = Infinity <=> d = 0) /\ saved(D) = pedersen_commit(0, d, H, G)
      BY <1>2, <1>4, <1>5, <1>6, <1>8, OnHOnly
<1>10. /\ pedersen_verify_tally(ins, outs) <=> D = Infinity
       /\ pedersen_commit_sum(ins, outs) = saved(D)
      BY Zenon DEF pedersen_verify_tally, pedersen_commit_sum, D
<1> HIDE DEF ins, outs
<1>11. /\ pedersen_verify_tally(ins, outs) <=> insV = outsV
       /\ pedersen_commit_sum(ins, outs) = pedersen_commit(0, d, H, G)
      BY <1>8, <1>9, <1>10
<1>12. QED
      BY <1>11, Zenon DEF c, m, ins, outs, v, insV, outsV, d

\* A commitment opens to its value and blinding value on its generators.
LEMMA CommitsTo ==
    ASSUME NEW b \in Nat, NEW v \in Nat, NEW gen \in Point,
           pedersen_commit(b, v, gen, G).ok
    PROVE  LET P == GAdd(GMul(v % Order, gen), GMul(b, G))
           IN /\ b \in Scalar /\ v % Order \in Scalar
              /\ P # Infinity /\ pedersen_commit(b, v, gen, G).v = quadForm(8, P)
<1> DEFINE P == GAdd(GMul(v % Order, gen), GMul(b, G))
           c == pedersen_commit(b, v, gen, G)
<1>1. ~Overflow(b)
      BY DEF pedersen_commit, Fails
<1>2. b \in Scalar /\ ScalarOf(b) = b
      <2>1. b \in Scalar
            BY <1>1, GroupAssumption DEF Overflow, Scalar
      <2>2. b \in Int /\ b = Order * 0 + b
            BY GroupAssumption
      <2>3. b % Order = b
            BY <2>1, <2>2, RestIs
      <2>4. QED
            BY <2>1, <2>3 DEF ScalarOf
<1>3. pedersen_commit(b, v, gen, G) = saved(P)
      BY <1>1, <1>2 DEF pedersen_commit, pedersen_ecmult
<1>4. v % Order \in Scalar
      BY ZeroAndOne, RestCounts
<1> HIDE DEF P
<1>5. P # Infinity
      BY <1>3 DEF saved, Fails
<1>6. pedersen_commit(b, v, gen, G).v = quadForm(8, P)
      BY <1>3, <1>5 DEF saved, Gives, pedersen_commitment_save
<1>7. QED
      BY <1>2, <1>4, <1>5, <1>6 DEF P

\* The same of a commitment on a generator of its own.
LEMMA BlindCommitsTo ==
    ASSUME NEW b \in Nat, NEW v \in Nat, NEW gen \in Point,
           pedersen_blind_commit(b, v, gen, G).ok
    PROVE  LET P == GAdd(GMul(v % Order, gen), GMul(b, G))
           IN /\ b \in Scalar /\ v % Order \in Scalar
              /\ P # Infinity /\ pedersen_blind_commit(b, v, gen, G).v = quadForm(8, P)
<1> DEFINE P == GAdd(GMul(v % Order, gen), GMul(b, G))
<1>1. ~Overflow(b) /\ ~Overflow(v)
      BY DEF pedersen_blind_commit, Fails
<1>2. b \in Scalar /\ ScalarOf(b) = b
      <2>1. b \in Scalar
            BY <1>1, GroupAssumption DEF Overflow, Scalar
      <2>2. b \in Int /\ b = Order * 0 + b
            BY GroupAssumption
      <2>3. b % Order = b
            BY <2>1, <2>2, RestIs
      <2>4. QED
            BY <2>1, <2>3 DEF ScalarOf
<1>3. pedersen_blind_commit(b, v, gen, G) = saved(P)
      <2>1. ScalarOf(v) = v % Order
            BY DEF ScalarOf
      <2>2. QED
            BY <1>1, <1>2, <2>1 DEF pedersen_blind_commit, pedersen_blind_ecmult
<1>4. v % Order \in Scalar
      BY ZeroAndOne, RestCounts
<1> HIDE DEF P
<1>5. P # Infinity
      BY <1>3 DEF saved, Fails
<1>6. pedersen_blind_commit(b, v, gen, G).v = quadForm(8, P)
      BY <1>3, <1>5 DEF saved, Gives, pedersen_commitment_save
<1>7. QED
      BY <1>2, <1>4, <1>5, <1>6 DEF P

\* The coordinates of a commitment: the value on H, and on G its blinding
\* value with what the generator was blinded by.
LEMMA Coordinates ==
    ASSUME NEW v \in Scalar, NEW b \in Scalar, NEW g \in Scalar, NEW gen \in Point,
           gen[1] = g, gen[2] = 1, \A k \in 3 .. Dim : gen[k] = 0
    PROVE  LET P == GAdd(GMul(v, gen), GMul(b, G))
           IN /\ P \in Point
              /\ P[1] = SAdd(SMul(v, g), b) /\ P[2] = v /\ \A k \in 3 .. Dim : P[k] = 0
<1> DEFINE A == GMul(v, gen)
           B == GMul(b, G)
           P == GAdd(A, B)
<1>1. 1 \in 1 .. Dim /\ 2 \in 1 .. Dim /\ 2 # 1 /\ \A k \in 3 .. Dim : k \in 1 .. Dim /\ k # 1
      BY AmountAssumption, ZeroAndOne
<1>2. G \in Point /\ \A k \in 1 .. Dim : G[k] = IF k = 1 THEN 1 ELSE 0
      <2>1. Unit(1) = [i \in 1 .. Dim |-> IF i = 1 THEN 1 ELSE 0] /\ Unit(1) \in Point
            BY UnitIs, Zenon
      <2>2. G = Unit(1)
            BY DEF G
      <2>3. QED
            BY <2>1, <2>2
<1>3. A \in Point /\ A = [k \in 1 .. Dim |-> SMul(v, gen[k])]
      BY GMulIs
<1>4. B \in Point /\ B = [k \in 1 .. Dim |-> SMul(b, G[k])]
      BY <1>2, GMulIs
<1> HIDE DEF A, B
<1>5. P \in Point /\ P = [k \in 1 .. Dim |-> SAdd(A[k], B[k])]
      BY <1>3, <1>4, GAddIs
<1> HIDE DEF P
<1>6. SMul(v, 0) = 0 /\ SMul(v, 1) = v /\ SMul(b, 0) = 0 /\ SMul(b, 1) = b
      BY ZeroAndOne, SMulIs
<1>7. A[1] = SMul(v, g) /\ B[1] = b
      BY <1>1, <1>2, <1>3, <1>4, <1>6
<1>8. A[2] = v /\ B[2] = 0
      BY <1>1, <1>2, <1>3, <1>4, <1>6
<1>9. \A k \in 3 .. Dim : A[k] = 0 /\ B[k] = 0
      BY <1>1, <1>2, <1>3, <1>4, <1>6
<1>10. SAdd(v, 0) = v /\ SAdd(0, 0) = 0
      BY ZeroAndOne, SumLaws
<1>11. P[1] = SAdd(SMul(v, g), b)
      BY <1>1, <1>5, <1>7
<1>12. P[2] = v
      BY <1>1, <1>5, <1>8, <1>10
<1>13. \A k \in 3 .. Dim : P[k] = 0
      BY <1>1, <1>5, <1>9, <1>10
<1>14. QED
      BY <1>5, <1>11, <1>12, <1>13 DEF P, A, B

\* A blinded generator is H with the blinding value on G.
LEMMA BlindedGenerator ==
    ASSUME NEW x \in Nat
    PROVE  LET gen == generator_generate_blinded(H, x)
           IN /\ gen \in Point /\ x % Order \in Scalar
              /\ gen[1] = x % Order /\ gen[2] = 1 /\ \A k \in 3 .. Dim : gen[k] = 0
<1> DEFINE g == x % Order
           A == GMul(g, G)
           gen == GAdd(A, H)
<1>1. 1 \in 1 .. Dim /\ 2 \in 1 .. Dim /\ 2 # 1 /\ \A k \in 3 .. Dim : k \in 1 .. Dim /\ k # 1 /\ k # 2
      BY AmountAssumption, ZeroAndOne
<1>2. /\ G \in Point /\ \A k \in 1 .. Dim : G[k] = IF k = 1 THEN 1 ELSE 0
      /\ H \in Point /\ \A k \in 1 .. Dim : H[k] = IF k = 2 THEN 1 ELSE 0
      <2>1. G \in Point /\ G = [k \in 1 .. Dim |-> IF k = 1 THEN 1 ELSE 0]
            BY UnitIs DEF G
      <2>2. H \in Point /\ H = [k \in 1 .. Dim |-> IF k = 2 THEN 1 ELSE 0]
            BY UnitIs DEF H
      <2>3. QED
            BY <2>1, <2>2
<1>3. g \in Scalar
      BY ZeroAndOne, RestCounts
<1> HIDE DEF g
<1>4. A \in Point /\ A = [k \in 1 .. Dim |-> SMul(g, G[k])]
      BY <1>2, <1>3, GMulIs
<1> HIDE DEF A
<1>5. gen \in Point /\ gen = [k \in 1 .. Dim |-> SAdd(A[k], H[k])]
      BY <1>2, <1>4, GAddIs
<1> HIDE DEF gen
<1>6. SMul(g, 0) = 0 /\ SMul(g, 1) = g
      BY <1>3, ZeroAndOne, SMulIs
<1>7. SAdd(g, 0) = g /\ SAdd(0, 0) = 0 /\ SAdd(0, 1) = 1
      <2>1. SAdd(1, 0) = 1 /\ SAdd(0, 1) = SAdd(1, 0)
            BY ZeroAndOne, SumLaws
      <2>2. QED
            BY <1>3, <2>1, ZeroAndOne, SumLaws
<1>8. gen[1] = g
      BY <1>1, <1>2, <1>4, <1>5, <1>6, <1>7
<1>9. gen[2] = 1
      BY <1>1, <1>2, <1>4, <1>5, <1>6, <1>7
<1>10. \A k \in 3 .. Dim : gen[k] = 0
      BY <1>1, <1>2, <1>4, <1>5, <1>6, <1>7
<1>11. gen = generator_generate_blinded(H, x)
      BY DEF gen, A, g, generator_generate_blinded, ScalarOf
<1>12. QED
      BY <1>3, <1>5, <1>8, <1>9, <1>10, <1>11 DEF g

-------------------------------------------------------------------------------
(* The last blinding value.                                                *)

\* Scalars are numbers.
LEMMA ScalarsAreNumbers ==
    ASSUME NEW s \in Seq(Scalar)
    PROVE  s \in Seq(Nat)
BY ZeroAndOne, SeqMonotonic

\* Taken off at the end, what the others add up to leaves nothing.
LEMMA LastTakesOff ==
    ASSUME NEW s \in Seq(Scalar), NEW o \in Seq(Scalar), Len(s) > 0, Len(o) = Len(s) - 1,
           \A i \in 1 .. Len(o) : s[i] = o[i], s[Len(s)] = SNeg(SSum(o))
    PROVE  SSum(s) = 0
<1> DEFINE n == Len(s)
           x == SSum(o)
<1>1. s \in Seq(Nat) /\ o \in Seq(Nat) /\ n \in Nat /\ Len(o) \in Nat
      BY ScalarsAreNumbers
<1>2. \A i \in 0 .. n - 1 : scalarSums(s)[i] = scalarSums(o)[i]
      <2>1. n - 1 \in Nat /\ n - 1 <= Len(s) /\ n - 1 <= Len(o) /\ \A i \in 1 .. n - 1 : s[i] % Order = o[i] % Order
            BY <1>1
      <2>2. QED
            BY <1>1, <2>1, SumsAgree
<1>3. scalarSums(s)[n - 1] = x
      <2>1. n - 1 \in 0 .. n - 1 /\ n - 1 = Len(o)
            BY <1>1
      <2>2. QED
            BY <1>2, <2>1 DEF SSum
<1>4. x \in Scalar
      BY <1>1, SumIs
<1>5. SSum(s) = SAdd(x, SNeg(x))
      BY <1>1, <1>3, SumIs
<1> HIDE DEF x
<1>6. QED
      BY <1>4, <1>5, SumLaws

\* Of blinding values with what the generators add the last takes off the sum
\* of all, and what is left of itself is taken off by that sum.
LEMMA LastMakesUp ==
    ASSUME NEW T \in Seq(Scalar), NEW s \in Seq(Scalar), Len(T) > 0, Len(s) = Len(T),
           \A i \in 1 .. Len(T) - 1 : s[i] = SNeg(T[i]),
           s[Len(T)] = SNeg(SAdd(T[Len(T)], SNeg(SSum(T))))
    PROVE  SSum(s) = 0
<1> DEFINE n == Len(T)
           x == scalarSums(T)[n - 1]
           a == T[n]
<1>1. s \in Seq(Nat) /\ T \in Seq(Nat) /\ n \in Nat /\ n - 1 \in Nat /\ n - 1 \in 0 .. n /\ n \in 1 .. n
      <2>1. s \in Seq(Nat) /\ T \in Seq(Nat)
            BY ScalarsAreNumbers
      <2>2. QED
            BY <2>1
<1>2. x \in Scalar /\ SSum(T) = SAdd(x, a)
      BY <1>1, SumIs
<1>3. a \in Scalar
      BY <1>1
<1>4. scalarSums(s)[n - 1] = SNeg(x)
      <2>1. n - 1 <= Len(s) /\ n - 1 <= Len(T) /\ n - 1 \in 0 .. n - 1
            BY <1>1
      <2>2. \A i \in 0 .. n - 1 : scalarSums(s)[i] = SNeg(scalarSums(T)[i])
            BY <1>1, <2>1, TurnedSums
      <2>3. QED
            BY <2>1, <2>2
<1>5. SSum(s) = SAdd(SNeg(x), SNeg(SAdd(a, SNeg(SAdd(x, a)))))
      <2>1. SSum(s) = SAdd(scalarSums(s)[n - 1], s[n])
            BY <1>1, SumIs
      <2>2. QED
            BY <1>2, <1>4, <2>1
<1> HIDE DEF n, x, a
<1> DEFINE y == SNeg(x)
           z == SAdd(x, a)
<1>6. y \in Scalar /\ z \in Scalar /\ SNeg(z) \in Scalar /\ SNeg(a) \in Scalar /\ SNeg(SNeg(z)) = z
      BY <1>2, <1>3, SumLaws
<1>7. SNeg(SAdd(a, SNeg(z))) = SAdd(SNeg(a), z)
      <2> HIDE DEF z
      <2>1. SNeg(SAdd(a, SNeg(z))) = SAdd(SNeg(a), SNeg(SNeg(z)))
            BY <1>3, <1>6, SumLaws
      <2>2. QED
            BY <1>6, <2>1
<1>8. SAdd(SNeg(a), z) = x
      <2>1. z = SAdd(a, x)
            BY <1>2, <1>3, SumLaws
      <2>2. SAdd(SNeg(a), SAdd(a, x)) = SAdd(SAdd(SNeg(a), a), x)
            BY <1>2, <1>3, <1>6, SAddAssociates
      <2>3. SAdd(SNeg(a), a) = 0
            BY <1>3, <1>6, SumLaws
      <2>4. SAdd(0, x) = x
            BY <1>2, ZeroAndOne, SumLaws
      <2>5. QED
            BY <2>1, <2>2, <2>3, <2>4
<1>9. SSum(s) = SAdd(y, x)
      BY <1>5, <1>7, <1>8
<1>10. SAdd(y, x) = SAdd(x, y) /\ SAdd(x, y) = 0
      BY <1>2, <1>6, SumLaws
<1>11. QED
      BY <1>9, <1>10

-------------------------------------------------------------------------------
(* Both ways of committing open to the job.                                *)

\* A number below the order is what is left of itself.
LEMMA ScalarOfScalar == ASSUME NEW x \in Scalar PROVE x % Order = x /\ ScalarOf(x) = x
<1>1. x \in Int /\ x = Order * 0 + x
      BY GroupAssumption DEF Scalar
<1>2. QED
      BY <1>1, RestIs DEF ScalarOf

\* A number that does not overflow is a scalar.
LEMMA NoOverflow == ASSUME NEW x \in Nat, ~Overflow(x) PROVE x \in Scalar /\ ScalarOf(x) = x
<1>1. x \in Scalar
      BY GroupAssumption DEF Overflow, Scalar
<1>2. QED
      BY <1>1, ScalarOfScalar

\* A function on 1 .. n with values in S is a sequence over S.
LEMMA SequenceOf ==
    ASSUME NEW n \in Nat, NEW S, NEW f, f = [i \in 1 .. n |-> f[i]], \A i \in 1 .. n : f[i] \in S
    PROVE  f \in Seq(S) /\ Len(f) = n
OBVIOUS

\* What pedersen_blind_sum gives is the sum of the first less that of the others.
LEMMA BlindSumIs ==
    ASSUME NEW o \in Seq(Nat), NEW m \in Nat, pedersen_blind_sum(o, m).ok
    PROVE  /\ m <= Len(o) /\ o \in Seq(Scalar)
           /\ pedersen_blind_sum(o, m).v = SSum(signed(o, m))
<1> DEFINE n == Len(o)
           f == [i \in 1 .. n |-> IF i > m THEN SNeg(ScalarOf(o[i])) ELSE ScalarOf(o[i])]
<1>1. m <= n /\ \A i \in DOMAIN o : ~Overflow(o[i])
      BY DEF pedersen_blind_sum, Fails
<1>2. \A i \in 1 .. n : o[i] \in Scalar /\ ScalarOf(o[i]) = o[i]
      <2>1. ASSUME NEW i \in 1 .. n PROVE o[i] \in Scalar /\ ScalarOf(o[i]) = o[i]
            <3>1. o[i] \in Nat /\ i \in DOMAIN o
                  OBVIOUS
            <3>2. QED
                  BY <1>1, <3>1, NoOverflow
      <2>2. QED
            BY <2>1
<1>3. f = signed(o, m)
      <2>1. \A i \in 1 .. n : f[i] = IF i <= m THEN o[i] ELSE SNeg(o[i])
            BY <1>2
      <2>2. f = [i \in 1 .. n |-> f[i]]
            OBVIOUS
      <2> HIDE DEF f
      <2>3. QED
            BY <2>1, <2>2 DEF signed
<1>4. SubSeq(f, 1, n) = f
      <2>1. n \in Nat
            OBVIOUS
      <2>2. QED
            BY <2>1, TupleIs
<1>5. pedersen_blind_sum(o, m) = Gives(SSum(f))
      <2>1. pedersen_blind_sum(o, m) = Gives(SSum(SubSeq(f, 1, n)))
            BY <1>1 DEF pedersen_blind_sum, Tuple
      <2>2. QED
            BY <1>4, <2>1
<1>6. o \in Seq(Scalar)
      <2>1. o = [i \in 1 .. n |-> o[i]] /\ n \in Nat /\ \A i \in 1 .. n : o[i] \in Scalar
            BY <1>2
      <2> HIDE DEF n
      <2>2. QED
            BY <2>1, SequenceOf
<1> HIDE DEF f
<1>7. pedersen_blind_sum(o, m).v = SSum(f)
      BY <1>5 DEF Gives
<1>8. QED
      BY <1>1, <1>3, <1>6, <1>7

\* All but the last of a sequence.
LEMMA OthersAre ==
    ASSUME NEW s \in Seq(Nat), Len(s) > 0
    PROVE  /\ othersThan(s) \in Seq(Nat) /\ Len(othersThan(s)) = Len(s) - 1
           /\ \A i \in 1 .. Len(s) - 1 : othersThan(s)[i] = s[i]
<1> DEFINE n == Len(s)
           o == othersThan(s)
<1>1. n \in Nat /\ n > 0 /\ \A i \in 1 .. n - 1 : s[i] \in Nat
      OBVIOUS
<1>2. /\ o \in Seq(Nat) /\ Len(o) = (IF 1 <= n - 1 THEN (n - 1) - 1 + 1 ELSE 0)
      /\ \A i \in 1 .. (n - 1) - 1 + 1 : o[i] = s[1 + i - 1]
      <2>1. n - 1 \in Int /\ 1 \in Int
            BY <1>1
      <2> HIDE DEF n
      <2>2. /\ SubSeq(s, 1, n - 1) \in Seq(Nat)
            /\ Len(SubSeq(s, 1, n - 1)) = (IF 1 <= n - 1 THEN (n - 1) - 1 + 1 ELSE 0)
            /\ \A i \in 1 .. (n - 1) - 1 + 1 : SubSeq(s, 1, n - 1)[i] = s[1 + i - 1]
            BY <1>1, <2>1, SubSeqProperties
      <2>3. QED
            BY <2>2 DEF othersThan, n
<1> HIDE DEF n, o
<1>3. /\ (IF 1 <= n - 1 THEN (n - 1) - 1 + 1 ELSE 0) = n - 1
      /\ (n - 1) - 1 + 1 = n - 1 /\ \A i \in 1 .. n - 1 : 1 + i - 1 = i
      BY <1>1
<1>4. o \in Seq(Nat) /\ Len(o) = n - 1 /\ \A i \in 1 .. n - 1 : o[i] = s[i]
      BY <1>2, <1>3
<1>5. QED
      BY <1>4 DEF o, n

\* A sequence with one more entry.
LEMMA OneMore ==
    ASSUME NEW s \in Seq(Nat), NEW x \in Nat
    PROVE  /\ s \o <<x>> \in Seq(Nat) /\ Len(s \o <<x>>) = Len(s) + 1 /\ (s \o <<x>>)[Len(s) + 1] = x
           /\ \A i \in 1 .. Len(s) : (s \o <<x>>)[i] = s[i]
<1> DEFINE one == <<x>>
           c == s \o one
<1>1. one \in Seq(Nat) /\ Len(one) = 1 /\ one[1] = x /\ Len(s) \in Nat
      OBVIOUS
<1> HIDE DEF one
<1>2. /\ c \in Seq(Nat) /\ Len(c) = Len(s) + Len(one)
      /\ \A i \in 1 .. Len(s) + Len(one) : c[i] = IF i <= Len(s) THEN s[i] ELSE one[i - Len(s)]
      BY <1>1, ConcatProperties
<1> HIDE DEF c
<1>3. Len(c) = Len(s) + 1 /\ c[Len(s) + 1] = x
      <2>1. Len(s) + 1 \in 1 .. Len(s) + Len(one) /\ ~(Len(s) + 1 <= Len(s)) /\ Len(s) + 1 - Len(s) = 1
            BY <1>1
      <2>2. QED
            BY <1>1, <1>2, <2>1
<1>4. \A i \in 1 .. Len(s) : c[i] = s[i]
      <2>1. \A i \in 1 .. Len(s) : i \in 1 .. Len(s) + Len(one) /\ i <= Len(s)
            BY <1>1
      <2>2. QED
            BY <1>2, <2>1
<1>5. QED
      BY <1>2, <1>3, <1>4 DEF c, one

\* The commitments of CommitPlain, the last with the blinding value that
\* pedersen_blind_sum gives.
plainLast(job) == pedersen_blind_sum(othersThan(job.blind), job.inputs)
plainBlind(job) == othersThan(job.blind) \o <<plainLast(job).v>>
plainCommit(job, i) == pedersen_commit(plainBlind(job)[i], job.value[i], H, G)

LEMMA PlainOpens ==
    ASSUME NEW job \in Job, job.inputs < Len(job.value), plainLast(job).ok,
           \A i \in 1 .. Len(plainBlind(job)) : plainCommit(job, i).ok
    PROVE  \E P : /\ Opens(P, job)
                  /\ saves(P) = [i \in 1 .. Len(plainBlind(job)) |-> plainCommit(job, i).v]
<1> DEFINE v == job.value
           n == Len(v)
           m == job.inputs
           o == othersThan(job.blind)
           x == plainLast(job).v
           b == plainBlind(job)
<1>1. v \in Seq(Nat) /\ n \in Nat /\ n > 0 /\ m \in Nat /\ m < n
      BY DEF Job
<1>2. o \in Seq(Nat) /\ Len(o) = n - 1
      <2>1. job.blind \in Seq(Nat) /\ Len(job.blind) = n /\ Len(job.blind) > 0
            BY DEF Job
      <2>2. QED
            BY <2>1, OthersAre
<1>3. /\ pedersen_blind_sum(o, m).ok /\ x = pedersen_blind_sum(o, m).v /\ b = o \o <<x>>
      /\ \A i \in 1 .. Len(b) : pedersen_commit(b[i], v[i], H, G).ok
      BY Zenon DEF plainLast, plainBlind, plainCommit
<1>4. o \in Seq(Scalar) /\ x = SSum(signed(o, m))
      BY <1>1, <1>2, <1>3, BlindSumIs
<1>5. x \in Scalar /\ signed(o, m) \in Seq(Scalar) /\ Len(signed(o, m)) = n - 1
      <2>1. signed(o, m) \in Seq(Scalar) /\ signed(o, m) \in Seq(Nat) /\ Len(signed(o, m)) = Len(o)
            BY <1>1, <1>4, SignedTyped
      <2>2. QED
            BY <1>2, <1>4, <2>1, SumIs
<1> HIDE DEF v, n, m, o, x, b
<1>6. b \in Seq(Nat) /\ Len(b) = n /\ b[n] = x /\ \A i \in 1 .. n - 1 : b[i] = o[i]
      <2>1. x \in Nat
            BY <1>5, ZeroAndOne
      <2>2. /\ o \o <<x>> \in Seq(Nat) /\ Len(o \o <<x>>) = Len(o) + 1 /\ (o \o <<x>>)[Len(o) + 1] = x
            /\ \A i \in 1 .. Len(o) : (o \o <<x>>)[i] = o[i]
            BY <1>2, <2>1, OneMore
      <2>3. b \in Seq(Nat) /\ Len(b) = Len(o) + 1 /\ b[Len(o) + 1] = x /\ \A i \in 1 .. Len(o) : b[i] = o[i]
            BY <1>3, <2>2
      <2>4. Len(o) + 1 = n
            BY <1>1, <1>2
      <2>5. QED
            BY <1>2, <2>3, <2>4
<1> DEFINE p(i) == GAdd(GMul(v[i] % Order, H), GMul(b[i], G))
           P == [i \in 1 .. n |-> p(i)]
<1>7. ASSUME NEW i \in 1 .. n
      PROVE  /\ p(i) \in Point /\ p(i) # Infinity /\ b[i] \in Scalar
             /\ pedersen_commit(b[i], v[i], H, G).v = quadForm(8, p(i))
             /\ p(i)[1] = b[i] /\ p(i)[2] = v[i] % Order /\ \A k \in 3 .. Dim : p(i)[k] = 0
      <2>1. b[i] \in Nat /\ v[i] \in Nat
            BY <1>1, <1>6 DEF n
      <2>2. pedersen_commit(b[i], v[i], H, G).ok
            BY <1>3, <1>6
      <2>3. H \in Point /\ H[1] = 0 /\ H[2] = 1 /\ \A k \in 3 .. Dim : H[k] = 0
            <3>1. H \in Point /\ H = [k \in 1 .. Dim |-> IF k = 2 THEN 1 ELSE 0]
                  BY UnitIs DEF H
            <3>2. 1 \in 1 .. Dim /\ 2 \in 1 .. Dim /\ \A k \in 3 .. Dim : k \in 1 .. Dim /\ k # 2
                  BY AmountAssumption, ZeroAndOne
            <3>3. QED
                  BY <3>1, <3>2
      <2>4. /\ b[i] \in Scalar /\ v[i] % Order \in Scalar /\ p(i) # Infinity
            /\ pedersen_commit(b[i], v[i], H, G).v = quadForm(8, p(i))
            BY <2>1, <2>2, <2>3, CommitsTo
      <2>5. /\ p(i) \in Point /\ p(i)[1] = SAdd(SMul(v[i] % Order, 0), b[i]) /\ p(i)[2] = v[i] % Order
            /\ \A k \in 3 .. Dim : p(i)[k] = 0
            <3> DEFINE w == v[i] % Order
                       y == b[i]
                       E == GAdd(GMul(w, H), GMul(y, G))
            <3>1. w \in Scalar /\ y \in Scalar /\ 0 \in Scalar
                  BY <2>4, ZeroAndOne
            <3>2. p(i) = E
                  OBVIOUS
            <3> HIDE DEF w, y, p
            <3>3. E \in Point /\ E[1] = SAdd(SMul(w, 0), y) /\ E[2] = w /\ \A k \in 3 .. Dim : E[k] = 0
                  BY <2>3, <3>1, Coordinates
            <3> HIDE DEF E
            <3>4. QED
                  BY <3>2, <3>3 DEF w, y
      <2>6. SAdd(SMul(v[i] % Order, 0), b[i]) = b[i]
            <3>1. SMul(v[i] % Order, 0) = 0
                  BY <2>4, ZeroAndOne, SMulIs
            <3>2. SAdd(0, b[i]) = SAdd(b[i], 0) /\ SAdd(b[i], 0) = b[i]
                  BY <2>4, ZeroAndOne, SumLaws
            <3>3. QED
                  BY <3>1, <3>2
      <2> HIDE DEF p
      <2>7. QED
            BY <2>4, <2>5, <2>6
<1> HIDE DEF p
<1>8. P \in Seq(Point) /\ Len(P) = n /\ \A i \in 1 .. n : P[i] = p(i)
      BY <1>1, <1>7
<1> HIDE DEF P
<1> DEFINE c == column(P, 1)
           s == signed(c, m)
<1>9. c \in Seq(Scalar) /\ Len(c) = n /\ \A i \in 1 .. n : c[i] = b[i]
      <2>1. 1 \in 1 .. Dim
            BY ZeroAndOne
      <2>2. c \in Seq(Scalar) /\ Len(c) = Len(P)
            BY <1>8, <2>1, ColumnTyped
      <2>3. \A i \in 1 .. n : c[i] = P[i][1]
            BY <1>8 DEF column
      <2> HIDE DEF c
      <2>4. \A i \in 1 .. n : P[i][1] = b[i]
            BY <1>7, <1>8
      <2>5. QED
            BY <1>8, <2>2, <2>3, <2>4
<1> HIDE DEF c
<1>10. s \in Seq(Scalar) /\ Len(s) = n /\ \A i \in 1 .. n : s[i] = IF i <= m THEN b[i] ELSE SNeg(b[i])
      <2>1. s \in Seq(Scalar) /\ Len(s) = n
            BY <1>1, <1>9, SignedTyped
      <2>2. QED
            BY <1>9, <2>1 DEF signed
<1>11. \A i \in 1 .. n - 1 : signed(o, m)[i] = IF i <= m THEN o[i] ELSE SNeg(o[i])
      BY <1>2 DEF signed
<1> DEFINE q == signed(o, m)
<1> HIDE DEF s, q
<1>12. SSum(s) = 0
      <2>1. Len(s) > 0 /\ Len(q) = Len(s) - 1 /\ q \in Seq(Scalar)
            BY <1>1, <1>5, <1>10 DEF q
      <2>2. \A i \in 1 .. n - 1 : s[i] = q[i]
            <3>1. \A i \in 1 .. n - 1 : i \in 1 .. n
                  BY <1>1
            <3>2. QED
                  BY <1>6, <1>10, <1>11, <3>1 DEF q
      <2>3. s[n] = SNeg(SSum(q))
            <3>1. n \in 1 .. n /\ ~(n <= m)
                  BY <1>1
            <3>2. QED
                  BY <1>4, <1>6, <1>10, <3>1 DEF q
      <2>4. QED
            BY <1>5, <1>10, <2>1, <2>2, <2>3, LastTakesOff DEF q
<1>13. Opens(P, job)
      BY <1>7, <1>8, <1>12 DEF Opens, s, c, v, n, m
<1>14. saves(P) = [i \in 1 .. n |-> pedersen_commit(b[i], v[i], H, G).v]
      <2>1. \A i \in 1 .. n : pedersen_commit(b[i], v[i], H, G).v = quadForm(8, P[i])
            BY <1>7, <1>8
      <2>2. QED
            BY <1>8, <2>1 DEF saves
<1>15. saves(P) = [i \in 1 .. Len(b) |-> pedersen_commit(b[i], v[i], H, G).v]
      BY <1>6, <1>14
<1>16. QED
      BY <1>13, <1>15, Zenon DEF v, b, plainCommit

\* The commitments of CommitBlinded, each on a generator of its own, with the
\* blinding values that pedersen_blind_generator_blind_sum gives.
blindedLast(job) == pedersen_blind_generator_blind_sum(job.value, job.genBlind, job.blind, job.inputs)
blindedGen(job, i) == generator_generate_blinded(H, job.genBlind[i])
blindedCommit(job, i) ==
    pedersen_blind_commit(blindedLast(job).v[i], job.value[i], blindedGen(job, i), G)

LEMMA BlindedOpens ==
    ASSUME NEW job \in Job, blindedLast(job).ok,
           \A i \in 1 .. Len(job.value) : blindedCommit(job, i).ok
    PROVE  \E P : /\ Opens(P, job)
                  /\ saves(P) = [i \in 1 .. Len(job.value) |-> blindedCommit(job, i).v]
<1> DEFINE v == job.value
           n == Len(v)
           m == job.inputs
           gb == job.genBlind
           bl == job.blind
           addend(i) == SAdd(SMul(v[i] % Order, ScalarOf(gb[i])), ScalarOf(bl[i]))
           T == [i \in 1 .. n |-> IF i <= m THEN SNeg(addend(i)) ELSE addend(i)]
           sum == SSum(T)
           last == blindedLast(job)
           b == last.v
           gen(i) == blindedGen(job, i)
<1>1. /\ v \in Seq(Nat) /\ n \in Nat /\ n > 0 /\ m \in Nat
      /\ gb \in Seq(Nat) /\ Len(gb) = n /\ bl \in Seq(Nat) /\ Len(bl) = n
      BY DEF Job
<1>2. ~(n <= m) /\ \A i \in 1 .. n : ~(Overflow(gb[i]) \/ Overflow(bl[i]))
      BY DEF blindedLast, pedersen_blind_generator_blind_sum, Fails
<1>3. b = [bl EXCEPT ![n] = SAdd(ScalarOf(bl[n]), SNeg(sum))]
      <2>1. SubSeq(T, 1, n) = T
            BY <1>1, TupleIs
      <2>2. last = Gives([bl EXCEPT ![n] = SAdd(ScalarOf(bl[n]), SNeg(SSum(SubSeq(T, 1, n))))])
            BY <1>2 DEF blindedLast, pedersen_blind_generator_blind_sum, Tuple
      <2> HIDE DEF T, bl, n, last
      <2>3. last = Gives([bl EXCEPT ![n] = SAdd(ScalarOf(bl[n]), SNeg(SSum(T)))])
            BY <2>1, <2>2
      <2>4. last.v = [bl EXCEPT ![n] = SAdd(ScalarOf(bl[n]), SNeg(SSum(T)))]
            BY <2>3 DEF Gives
      <2>5. QED
            BY <2>4, Zenon DEF sum
<1> HIDE DEF v, n, m, gb, bl, b, last, gen
<1>4. ASSUME NEW i \in 1 .. n
      PROVE  /\ v[i] \in Nat /\ gb[i] \in Nat /\ bl[i] \in Scalar /\ ScalarOf(bl[i]) = bl[i]
             /\ v[i] % Order \in Scalar /\ gb[i] % Order \in Scalar
             /\ SMul(v[i] % Order, gb[i] % Order) \in Scalar /\ addend(i) \in Scalar
             /\ addend(i) = SAdd(SMul(v[i] % Order, gb[i] % Order), bl[i])
      <2>1. v[i] \in Nat /\ gb[i] \in Nat /\ bl[i] \in Nat
            BY <1>1 DEF n
      <2>2. bl[i] \in Scalar /\ ScalarOf(bl[i]) = bl[i]
            BY <1>2, <2>1, NoOverflow
      <2>3. v[i] % Order \in Scalar /\ gb[i] % Order \in Scalar
            BY <2>1, ZeroAndOne, RestCounts
      <2>4. SMul(v[i] % Order, gb[i] % Order) \in Scalar
            BY <2>3, SMulIs
      <2>5. addend(i) = SAdd(SMul(v[i] % Order, gb[i] % Order), bl[i])
            BY <2>2 DEF ScalarOf
      <2>6. SAdd(SMul(v[i] % Order, gb[i] % Order), bl[i]) \in Scalar
            BY <2>2, <2>4, SumLaws
      <2> HIDE DEF addend
      <2>7. QED
            BY <2>1, <2>2, <2>3, <2>4, <2>5, <2>6
<1> HIDE DEF addend
<1>5. /\ T \in Seq(Scalar) /\ Len(T) = n
      /\ \A i \in 1 .. n : T[i] = IF i <= m THEN SNeg(addend(i)) ELSE addend(i)
      <2>1. \A i \in 1 .. n : SNeg(addend(i)) \in Scalar /\ addend(i) \in Scalar
            BY <1>4, SumLaws
      <2>2. T = [i \in 1 .. n |-> T[i]] /\ \A i \in 1 .. n : T[i] = IF i <= m THEN SNeg(addend(i)) ELSE addend(i)
            OBVIOUS
      <2> HIDE DEF T
      <2>3. \A i \in 1 .. n : T[i] \in Scalar
            BY <2>1, <2>2
      <2>4. QED
            BY <1>1, <2>2, <2>3, SequenceOf
<1> HIDE DEF T
<1>6. sum \in Scalar /\ SNeg(sum) \in Scalar
      <2>1. T \in Seq(Nat)
            BY <1>5, ScalarsAreNumbers
      <2>2. sum \in Scalar
            BY <2>1, SumIs
      <2> HIDE DEF sum
      <2>3. QED
            BY <2>2, SumLaws
<1> HIDE DEF sum
<1>7. n \in 1 .. n /\ ~(n <= m) /\ \A i \in 1 .. n - 1 : i \in 1 .. n /\ i # n
      BY <1>1, <1>2
<1>8. b[n] = SAdd(bl[n], SNeg(sum)) /\ \A i \in 1 .. n - 1 : b[i] = bl[i]
      <2>1. DOMAIN bl = 1 .. n
            BY <1>1
      <2>2. b[n] = SAdd(ScalarOf(bl[n]), SNeg(sum)) /\ \A i \in 1 .. n - 1 : b[i] = bl[i]
            BY <1>3, <1>7, <2>1
      <2>3. QED
            BY <1>4, <1>7, <2>2
<1>9. \A i \in 1 .. n : b[i] \in Nat
      <2>1. b[n] \in Scalar
            <3>1. bl[n] \in Scalar
                  BY <1>4, <1>7
            <3>2. SAdd(bl[n], SNeg(sum)) \in Scalar
                  BY <1>6, <3>1, SumLaws
            <3>3. QED
                  BY <1>8, <3>2
      <2>2. \A i \in 1 .. n - 1 : b[i] \in Scalar
            BY <1>4, <1>7, <1>8
      <2>3. \A i \in 1 .. n : i = n \/ i \in 1 .. n - 1
            BY <1>1
      <2>4. QED
            BY <2>1, <2>2, <2>3, ZeroAndOne
<1> DEFINE p(i) == GAdd(GMul(v[i] % Order, gen(i)), GMul(b[i], G))
           P == [i \in 1 .. n |-> p(i)]
<1>10. ASSUME NEW i \in 1 .. n
       PROVE  /\ p(i) \in Point /\ p(i) # Infinity /\ b[i] \in Scalar
              /\ pedersen_blind_commit(b[i], v[i], gen(i), G).v = quadForm(8, p(i))
              /\ p(i)[1] = SAdd(SMul(v[i] % Order, gb[i] % Order), b[i])
              /\ p(i)[2] = v[i] % Order /\ \A k \in 3 .. Dim : p(i)[k] = 0
      <2>1. gen(i) = generator_generate_blinded(H, gb[i]) /\ pedersen_blind_commit(b[i], v[i], gen(i), G).ok
            <3>1. blindedCommit(job, i).ok
                  BY DEF n, v
            <3>2. QED
                  BY <3>1, Zenon DEF v, b, gb, gen, last, blindedGen, blindedCommit
      <2> DEFINE w == v[i] % Order
                 y == b[i]
                 g == gb[i] % Order
                 own == gen(i)
                 E == GAdd(GMul(w, own), GMul(y, G))
      <2>2. own \in Point /\ g \in Scalar /\ own[1] = g /\ own[2] = 1 /\ \A k \in 3 .. Dim : own[k] = 0
            BY <1>4, <2>1, BlindedGenerator
      <2>3. p(i) = E
            OBVIOUS
      <2>4. /\ y \in Scalar /\ w \in Scalar /\ E # Infinity
            /\ pedersen_blind_commit(y, v[i], own, G).v = quadForm(8, E)
            <3>1. y \in Nat /\ v[i] \in Nat
                  BY <1>4, <1>9
            <3> HIDE DEF y, own
            <3>2. pedersen_blind_commit(y, v[i], own, G).ok
                  BY <2>1 DEF y, own
            <3>3. QED
                  BY <2>2, <3>1, <3>2, BlindCommitsTo
      <2> HIDE DEF w, y, g, own, p
      <2>5. E \in Point /\ E[1] = SAdd(SMul(w, g), y) /\ E[2] = w /\ \A k \in 3 .. Dim : E[k] = 0
            BY <2>2, <2>4, Coordinates
      <2> HIDE DEF E
      <2>6. QED
            BY <2>3, <2>4, <2>5 DEF w, y, g, own
<1> HIDE DEF p
<1>11. P \in Seq(Point) /\ Len(P) = n /\ \A i \in 1 .. n : P[i] = p(i)
      <2>1. P = [i \in 1 .. n |-> P[i]] /\ \A i \in 1 .. n : P[i] = p(i)
            OBVIOUS
      <2> HIDE DEF P
      <2>2. \A i \in 1 .. n : P[i] \in Point
            BY <1>10, <2>1
      <2>3. QED
            BY <1>1, <2>1, <2>2, SequenceOf
<1> HIDE DEF P
<1> DEFINE c == column(P, 1)
           s == signed(c, m)
<1>12. /\ c \in Seq(Scalar) /\ Len(c) = n
       /\ \A i \in 1 .. n : c[i] = SAdd(SMul(v[i] % Order, gb[i] % Order), b[i])
      <2>1. 1 \in 1 .. Dim
            BY ZeroAndOne
      <2>2. c \in Seq(Scalar) /\ Len(c) = Len(P)
            BY <1>11, <2>1, ColumnTyped
      <2>3. \A i \in 1 .. n : c[i] = P[i][1]
            BY <1>11 DEF column
      <2> HIDE DEF c
      <2>4. \A i \in 1 .. n : P[i][1] = SAdd(SMul(v[i] % Order, gb[i] % Order), b[i])
            BY <1>10, <1>11
      <2>5. QED
            BY <1>11, <2>2, <2>3, <2>4
<1>13. \A i \in 1 .. n - 1 : c[i] = addend(i)
      <2> HIDE DEF c
      <2>1. QED
            BY <1>4, <1>7, <1>8, <1>12
<1>14. c[n] = SAdd(addend(n), SNeg(sum))
      <2> HIDE DEF c
      <2> DEFINE w == SMul(v[n] % Order, gb[n] % Order)
      <2>1. w \in Scalar /\ bl[n] \in Scalar /\ addend(n) = SAdd(w, bl[n])
            BY <1>4, <1>7
      <2>2. c[n] = SAdd(w, SAdd(bl[n], SNeg(sum)))
            BY <1>7, <1>8, <1>12
      <2> HIDE DEF w
      <2>3. SAdd(SAdd(w, bl[n]), SNeg(sum)) = SAdd(w, SAdd(bl[n], SNeg(sum)))
            BY <1>6, <2>1, SAddAssociates
      <2>4. QED
            BY <2>1, <2>2, <2>3
<1> HIDE DEF c
<1>15. s \in Seq(Scalar) /\ Len(s) = n /\ \A i \in 1 .. n : s[i] = IF i <= m THEN c[i] ELSE SNeg(c[i])
      <2>1. s \in Seq(Scalar) /\ Len(s) = n
            BY <1>1, <1>12, SignedTyped
      <2>2. QED
            BY <1>12, <2>1 DEF signed
<1> HIDE DEF s
<1>16. \A i \in 1 .. n - 1 : s[i] = SNeg(T[i])
      <2>1. ASSUME NEW i \in 1 .. n - 1 PROVE s[i] = SNeg(T[i])
            <3>1. i \in 1 .. n
                  BY <1>7
            <3>2. addend(i) \in Scalar /\ c[i] = addend(i)
                  BY <1>4, <1>13, <3>1
            <3>3. SNeg(SNeg(addend(i))) = addend(i)
                  BY <3>2, SumLaws
            <3>4. QED
                  BY <1>5, <1>15, <3>1, <3>2, <3>3
      <2>2. QED
            BY <2>1
<1>17. s[n] = SNeg(SAdd(T[n], SNeg(SSum(T))))
      <2>1. T[n] = addend(n) /\ s[n] = SNeg(c[n])
            BY <1>5, <1>7, <1>15
      <2>2. QED
            BY <1>14, <2>1 DEF sum
<1>18. SSum(s) = 0
      <2>1. Len(T) > 0 /\ Len(s) = Len(T)
            BY <1>1, <1>5, <1>15
      <2>2. QED
            BY <1>5, <1>15, <1>16, <1>17, <2>1, LastMakesUp
<1>19. Opens(P, job)
      BY <1>10, <1>11, <1>18 DEF Opens, s, c, v, n, m
<1>20. saves(P) = [i \in 1 .. n |-> pedersen_blind_commit(b[i], v[i], gen(i), G).v]
      <2>1. \A i \in 1 .. n : pedersen_blind_commit(b[i], v[i], gen(i), G).v = quadForm(8, P[i])
            BY <1>10, <1>11
      <2>2. QED
            BY <1>11, <2>1 DEF saves
<1>21. QED
      BY <1>19, <1>20, Zenon DEF v, n, b, last, gen, blindedCommit

-------------------------------------------------------------------------------
(* A transaction, step by step.                                            *)

TxSpec == tx = TxIdle /\ [][TxNext]_tx

\* A hash is a string of 32 bytes.
HashesAreBytes == \A t \in Seq(Nat) : CommitHash(t) \in Bytes32

Commits == {saves(P) : P \in Seq(Point)}

\* Where a transaction may stand, and what its commitments open to.
TxInv ==
    /\ tx.at \in {"idle", "amounts", "refused", "committed", "sent", "tallied"}
    /\ tx.at = "amounts" => tx.job \in Job
    /\ tx.at \in {"committed", "sent"} =>
          /\ tx \in [at : {"committed", "sent"}, job : Job, commits : Commits]
          /\ \E P : Opens(P, tx.job) /\ tx.commits = saves(P)
    /\ TallyHoldsExactlyWhenBalanced

\* The transactions tried are jobs.
LEMMA BeginStep ==
    ASSUME NEW amounts \in Amounts, TxBegin(amounts)
    PROVE  TxInv'
<1>1. amounts \in Job
      BY AmountAssumption DEF Job
<1>2. tx' = [at |-> "amounts", job |-> amounts]
      BY DEF TxBegin
<1>3. tx'.at = "amounts" /\ tx'.job = amounts
      BY <1>2
<1>4. QED
      BY <1>1, <1>3 DEF TxInv, TallyHoldsExactlyWhenBalanced

\* Refused, a transaction is over.
LEMMA RefusedStep ==
    ASSUME tx' = [at |-> "refused"]
    PROVE  TxInv'
BY DEF TxInv, TallyHoldsExactlyWhenBalanced

\* Committed to points that open to the job.
LEMMA CommittedStep ==
    ASSUME NEW job \in Job, NEW P, Opens(P, job),
           tx' = [at |-> "committed", job |-> job, commits |-> saves(P)]
    PROVE  TxInv'
<1>1. saves(P) \in Commits
      BY DEF Commits, Opens
<1>2. /\ tx'.at = "committed" /\ tx'.job = job /\ tx'.commits = saves(P)
      /\ tx' \in [at : {"committed", "sent"}, job : Job, commits : Commits]
      BY <1>1
<1>3. \E R : Opens(R, tx'.job) /\ tx'.commits = saves(R)
      BY <1>2
<1>4. QED
      BY <1>2, <1>3 DEF TxInv, TallyHoldsExactlyWhenBalanced

\* Committing with a last blinding value that pedersen_blind_sum gives.
LEMMA PlainStep ==
    ASSUME TxInv, CommitPlain
    PROVE  TxInv'
<1> DEFINE job == tx.job
           b == plainBlind(job)
           n == Len(b)
           f == [i \in 1 .. n |-> plainCommit(job, i)]
           g == [i \in 1 .. n |-> plainCommit(job, i).v]
<1>1. job \in Job /\ tx.at = "amounts" /\ job.inputs < Len(job.value)
      BY DEF TxInv, CommitPlain
<1>2. tx' = IF plainLast(job).ok /\ \A i \in DOMAIN SubSeq(f, 1, n) : SubSeq(f, 1, n)[i].ok
            THEN [at |-> "committed", job |-> job, commits |-> SubSeq([i \in 1 .. n |-> SubSeq(f, 1, n)[i].v], 1, n)]
            ELSE [at |-> "refused"]
      BY Zenon DEF CommitPlain, Tuple, plainLast, plainBlind, plainCommit
<1> HIDE DEF job
<1>3. CASE ~plainLast(job).ok
      <2>1. tx' = [at |-> "refused"]
            BY <1>2, <1>3
      <2>2. QED
            BY <2>1, RefusedStep
<1>4. CASE plainLast(job).ok
      <2>1. n \in Nat
            <3>1. job.blind \in Seq(Nat) /\ Len(job.blind) > 0 /\ job.inputs \in Nat
                  BY <1>1 DEF Job
            <3> DEFINE o == othersThan(job.blind)
                       m == job.inputs
                       x == plainLast(job).v
            <3>2. o \in Seq(Nat) /\ m \in Nat
                  BY <3>1, OthersAre
            <3>3. pedersen_blind_sum(o, m).ok /\ x = pedersen_blind_sum(o, m).v /\ b = o \o <<x>>
                  BY <1>4, Zenon DEF plainLast, plainBlind
            <3> HIDE DEF o, m, x, b
            <3>4. x \in Nat
                  <4>1. o \in Seq(Scalar) /\ x = SSum(signed(o, m))
                        BY <3>2, <3>3, BlindSumIs
                  <4>2. signed(o, m) \in Seq(Nat)
                        BY <3>2, <4>1, SignedTyped
                  <4>3. QED
                        BY <4>1, <4>2, SumIs, ZeroAndOne
            <3>5. o \o <<x>> \in Seq(Nat)
                  BY <3>2, <3>4, OneMore
            <3>6. QED
                  BY <3>3, <3>5
      <2>2. /\ f = [i \in 1 .. n |-> f[i]] /\ \A i \in 1 .. n : f[i] = plainCommit(job, i)
            /\ g = [i \in 1 .. n |-> g[i]] /\ g = [i \in 1 .. n |-> f[i].v]
            OBVIOUS
      <2> HIDE DEF n, f, g
      <2>3. SubSeq(f, 1, n) = f /\ DOMAIN f = 1 .. n /\ SubSeq(g, 1, n) = g
            BY <2>1, <2>2, TupleIs
      <2>4. tx' = IF \A i \in 1 .. n : f[i].ok THEN [at |-> "committed", job |-> job, commits |-> g]
                  ELSE [at |-> "refused"]
            BY <1>2, <1>4, <2>2, <2>3
      <2>5. CASE ~ \A i \in 1 .. n : f[i].ok
            BY <2>4, <2>5, RefusedStep
      <2>6. CASE \A i \in 1 .. n : f[i].ok
            <3>1. \A i \in 1 .. Len(plainBlind(job)) : plainCommit(job, i).ok
                  BY <2>2, <2>6 DEF n, b
            <3>2. PICK P : /\ Opens(P, job)
                           /\ saves(P) = [i \in 1 .. Len(plainBlind(job)) |-> plainCommit(job, i).v]
                  BY <1>1, <1>4, <3>1, PlainOpens
            <3>3. saves(P) = g
                  BY <3>2 DEF g, n, b
            <3>4. tx' = [at |-> "committed", job |-> job, commits |-> saves(P)]
                  BY <2>4, <2>6, <3>3
            <3>5. QED
                  BY <1>1, <3>2, <3>4, CommittedStep
      <2>7. QED
            BY <2>5, <2>6
<1>5. QED
      BY <1>3, <1>4

\* Committing on generators of their own.
LEMMA BlindedStep ==
    ASSUME TxInv, CommitBlinded
    PROVE  TxInv'
<1> DEFINE job == tx.job
           last == blindedLast(job)
           k == Len(job.value)
           e == [i \in 1 .. k |-> blindedGen(job, i)]
           gens == SubSeq(e, 1, k)
           n == Len(gens)
           f == [i \in 1 .. n |-> pedersen_blind_commit(last.v[i], job.value[i], gens[i], G)]
           g == [i \in 1 .. n |-> f[i].v]
<1>1. job \in Job /\ tx.at = "amounts" /\ k \in Nat
      <2>1. tx.at = "amounts" /\ job \in Job
            BY DEF TxInv, CommitBlinded
      <2> HIDE DEF job, last, e, gens, n, f, g
      <2>2. job.value \in Seq(Nat)
            BY <2>1 DEF Job
      <2>3. QED
            BY <2>1, <2>2
<1>2. tx' = IF last.ok /\ \A i \in DOMAIN SubSeq(f, 1, n) : SubSeq(f, 1, n)[i].ok
            THEN [at |-> "committed", job |-> job, commits |-> SubSeq([i \in 1 .. n |-> SubSeq(f, 1, n)[i].v], 1, n)]
            ELSE [at |-> "refused"]
      BY Zenon DEF CommitBlinded, Tuple, blindedLast, blindedGen
<1> HIDE DEF job
<1>3. gens = e /\ n = k /\ \A i \in 1 .. k : gens[i] = blindedGen(job, i)
      <2>1. e = [i \in 1 .. k |-> e[i]] /\ \A i \in 1 .. k : e[i] = blindedGen(job, i)
            OBVIOUS
      <2> HIDE DEF e, k
      <2>2. gens = e
            BY <1>1, <2>1, TupleIs
      <2>3. Len(e) = k
            BY <1>1, <2>1
      <2>4. QED
            BY <2>1, <2>2, <2>3
<1> HIDE DEF gens, n
<1>4. f = [i \in 1 .. n |-> f[i]] /\ \A i \in 1 .. n : f[i] = blindedCommit(job, i)
      <2>1. f = [i \in 1 .. n |-> f[i]] /\ \A i \in 1 .. n : f[i] = pedersen_blind_commit(last.v[i], job.value[i], gens[i], G)
            OBVIOUS
      <2>2. \A i \in 1 .. n : gens[i] = blindedGen(job, i)
            BY <1>3
      <2> HIDE DEF f
      <2>3. QED
            BY <2>1, <2>2 DEF blindedCommit
<1>5. g = [i \in 1 .. n |-> g[i]] /\ g = [i \in 1 .. n |-> f[i].v]
      OBVIOUS
<1> HIDE DEF f, g
<1>6. n \in Nat
      BY <1>1, <1>3
<1>7. SubSeq(f, 1, n) = f /\ DOMAIN f = 1 .. n /\ SubSeq(g, 1, n) = g
      BY <1>4, <1>5, <1>6, TupleIs
<1>8. tx' = IF last.ok /\ \A i \in 1 .. n : f[i].ok THEN [at |-> "committed", job |-> job, commits |-> g]
            ELSE [at |-> "refused"]
      BY <1>2, <1>5, <1>7
<1>9. CASE ~(last.ok /\ \A i \in 1 .. n : f[i].ok)
      BY <1>8, <1>9, RefusedStep
<1>10. CASE last.ok /\ \A i \in 1 .. n : f[i].ok
      <2>1. \A i \in 1 .. Len(job.value) : blindedCommit(job, i).ok
            BY <1>3, <1>4, <1>10
      <2>2. PICK P : Opens(P, job) /\ saves(P) = [i \in 1 .. Len(job.value) |-> blindedCommit(job, i).v]
            BY <1>1, <1>10, <2>1, BlindedOpens
      <2>3. saves(P) = g
            BY <1>3, <1>4, <1>5, <2>2
      <2>4. tx' = [at |-> "committed", job |-> job, commits |-> saves(P)]
            BY <1>8, <1>10, <2>3
      <2>5. QED
            BY <1>1, <2>2, <2>4, CommittedStep
<1>11. QED
      BY <1>9, <1>10

\* On its way a commitment stays what it is.
LEMMA TravelStep ==
    ASSUME TxInv, Travel
    PROVE  TxInv'
<1> DEFINE job == tx.job
           arrives(c) == pubkey_to_pedersen_commitment(pedersen_commitment_to_pubkey(
                             pedersen_commitment_parse(pedersen_commitment_serialize(c)).v))
<1>1. tx.at = "committed" /\ job \in Job /\ tx \in [at : {"committed", "sent"}, job : Job, commits : Commits]
      BY DEF Travel, TxInv
<1>2. PICK P : Opens(P, job) /\ tx.commits = saves(P)
      BY <1>1 DEF TxInv
<1> DEFINE n == Len(saves(P))
           f == [i \in 1 .. n |-> arrives(saves(P)[i])]
<1>3. n \in Nat /\ n = Len(P) /\ saves(P) = [i \in 1 .. n |-> saves(P)[i]]
      /\ \A i \in 1 .. n : saves(P)[i] = quadForm(8, P[i]) /\ P[i] \in Point /\ P[i] # Infinity
      <2>1. P \in Seq(Point) /\ Len(P) \in Nat /\ \A i \in 1 .. Len(P) : P[i] \in Point /\ P[i] # Infinity
            BY <1>2 DEF Opens
      <2>2. Len(saves(P)) = Len(P)
            BY <2>1 DEF saves
      <2>3. saves(P) = [i \in 1 .. Len(P) |-> saves(P)[i]] /\ \A i \in 1 .. Len(P) : saves(P)[i] = quadForm(8, P[i])
            BY DEF saves
      <2>4. QED
            BY <2>1, <2>2, <2>3
<1>4. \A i \in 1 .. n : arrives(saves(P)[i]) = saves(P)[i]
      <2> HIDE DEF n
      <2>1. ASSUME NEW i \in 1 .. n PROVE arrives(saves(P)[i]) = saves(P)[i]
            <3>1. saves(P)[i] = quadForm(8, P[i]) /\ P[i] \in Point /\ P[i] # Infinity
                  BY <1>3
            <3>2. arrives(quadForm(8, P[i])) = quadForm(8, P[i])
                  BY <3>1, TravelsUnchanged
            <3> HIDE DEF arrives
            <3>3. QED
                  BY <3>1, <3>2
      <2>2. QED
            BY <2>1
<1>5. tx' = [tx EXCEPT !.at = "sent", !.commits = SubSeq([i \in 1 .. Len(@) |-> arrives(@[i])], 1, Len(@))]
      BY Zenon DEF Travel, Tuple
<1> HIDE DEF arrives, job
<1>6. f = saves(P)
      <2> HIDE DEF n
      <2>1. QED
            BY <1>3, <1>4
<1>7. SubSeq(f, 1, n) = saves(P)
      <2>1. SubSeq(saves(P), 1, n) = saves(P)
            <3> HIDE DEF n
            <3>1. QED
                  BY <1>3, TupleIs
      <2>2. QED
            BY <1>6, <2>1
<1>8. saves(P) \in Commits
      BY <1>2 DEF Commits, Opens
<1>9. tx' = [tx EXCEPT !.at = "sent", !.commits = saves(P)]
      <2> DEFINE c == tx.commits
      <2>1. tx' = [tx EXCEPT !.at = "sent", !.commits = SubSeq([i \in 1 .. Len(c) |-> arrives(c[i])], 1, Len(c))]
            BY <1>5
      <2>2. SubSeq([i \in 1 .. Len(c) |-> arrives(c[i])], 1, Len(c)) = saves(P)
            BY <1>2, <1>7
      <2> HIDE DEF c
      <2>3. QED
            BY <2>1, <2>2
<1>10. /\ tx'.at = "sent" /\ tx'.job = job /\ tx'.commits = saves(P)
       /\ tx' \in [at : {"committed", "sent"}, job : Job, commits : Commits]
      BY <1>1, <1>8, <1>9 DEF job
<1>11. \E R : Opens(R, tx'.job) /\ tx'.commits = saves(R)
      BY <1>2, <1>10
<1>12. QED
      BY <1>10, <1>11 DEF TxInv, TallyHoldsExactlyWhenBalanced

\* The tally of what opens to the job says whether the job balances.
LEMMA TallyStep ==
    ASSUME TxInv, Tally
    PROVE  TxInv'
<1> DEFINE job == tx.job
           v == job.value
           insV == SSum(SubSeq(v, 1, job.inputs))
           outsV == SSum(SubSeq(v, job.inputs + 1, Len(v)))
           ins == SubSeq(tx.commits, 1, job.inputs)
           outs == SubSeq(tx.commits, job.inputs + 1, Len(tx.commits))
<1>1. tx.at \in {"committed", "sent"} /\ job \in Job
      BY DEF Tally, TxInv
<1>2. PICK P : Opens(P, job) /\ tx.commits = saves(P)
      BY <1>1 DEF TxInv
<1>3. tx.commits = saves(P)
      BY <1>2
<1>4. tx' = [at |-> "tallied", job |-> job, holds |-> pedersen_verify_tally(ins, outs),
             rest |-> pedersen_commit_sum(ins, outs)]
      BY Zenon DEF Tally
<1>5. /\ pedersen_verify_tally(ins, outs) <=> insV = outsV
      /\ pedersen_commit_sum(ins, outs) = pedersen_commit(0, SAdd(insV, SNeg(outsV)), H, G)
      <2> HIDE DEF job
      <2>1. QED
            BY <1>1, <1>2, <1>3, OpenedTally
<1> HIDE DEF ins, outs, insV, outsV, job
<1>6. /\ tx'.at = "tallied" /\ tx'.job = job
      /\ tx'.holds <=> insV = outsV
      /\ tx'.rest = pedersen_commit(0, SAdd(insV, SNeg(outsV)), H, G)
      BY <1>4, <1>5
<1>7. TallyHoldsExactlyWhenBalanced'
      BY <1>6 DEF TallyHoldsExactlyWhenBalanced, insV, outsV
<1>8. QED
      BY <1>6, <1>7 DEF TxInv

\* The switch replaces a blinding value by another.
LEMMA SwitchStep ==
    ASSUME HashesAreBytes, TxInv, tx.at = "amounts", Switch
    PROVE  TxInv'
<1> DEFINE job == tx.job
           b1 == job.blind[1]
           commit == pedersen_commit(b1, job.value[1], H, G)
           xJ == GMul(ScalarOf(b1), J)
           hashed == CommitHash(commit.v \o xJ)
           switched == blind_switch(b1, job.value[1], H, G, J)
<1>1. job \in Job
      BY DEF TxInv
<1>2. job.blind \in Seq(Nat) /\ 1 \in 1 .. Len(job.blind) /\ b1 \in Nat /\ job.value[1] \in Nat
      <2>1. job.blind \in Seq(Nat) /\ job.value \in Seq(Nat) /\ Len(job.value) > 0 /\ Len(job.blind) = Len(job.value)
            BY <1>1 DEF Job
      <2>2. 1 \in 1 .. Len(job.blind) /\ 1 \in 1 .. Len(job.value)
            BY <2>1
      <2>3. QED
            BY <2>1, <2>2
<1>3. switched.ok /\ tx' = [at |-> "amounts", job |-> [job EXCEPT !.blind[1] = switched.v]]
      BY Zenon DEF Switch
<1>4. commit.ok /\ ~Overflow(b1) /\ switched = Gives(SAdd(ScalarOf(hashed), ScalarOf(b1)))
      BY <1>3 DEF blind_switch, Fails
<1>5. hashed \in Nat
      <2>1. H \in Point /\ J \in Point
            BY UnitIs DEF H, J
      <2> HIDE DEF b1
      <2>2. commit.v = quadForm(8, GAdd(GMul(job.value[1] % Order, H), GMul(b1, G))) /\ b1 \in Scalar
            /\ job.value[1] % Order \in Scalar
            BY <1>2, <1>4, <2>1, CommitsTo
      <2>3. GAdd(GMul(job.value[1] % Order, H), GMul(b1, G)) \in Point
            <3>1. GMul(job.value[1] % Order, H) \in Point
                  BY <2>1, <2>2, GMulIs
            <3>2. G \in Point
                  BY UnitIs DEF G
            <3>3. GMul(b1, G) \in Point
                  BY <2>2, <3>2, GMulIs
            <3>4. QED
                  BY <3>1, <3>3, GAddIs
      <2> DEFINE Q == GAdd(GMul(job.value[1] % Order, H), GMul(b1, G))
      <2> HIDE DEF Q
      <2>4. quadForm(8, Q) \in Seq(Nat)
            BY <2>3, FormIsBytes DEF Q
      <2>5. xJ \in Seq(Nat)
            <3>1. ScalarOf(b1) \in Scalar
                  BY <2>2, ScalarOfScalar
            <3>2. xJ \in Point
                  BY <2>1, <3>1, GMulIs
            <3>3. QED
                  BY <3>2, PointIsTuple
      <2> HIDE DEF xJ, commit
      <2>6. commit.v \in Seq(Nat)
            BY <2>2, <2>4 DEF Q
      <2>7. commit.v \o xJ \in Seq(Nat)
            BY <2>5, <2>6, ConcatProperties
      <2>8. hashed \in Bytes32
            BY <2>7 DEF HashesAreBytes
      <2>9. QED
            BY <2>8, GroupAssumption DEF Bytes32
<1> HIDE DEF hashed
<1>6. switched.v \in Nat
      <2>1. ScalarOf(hashed) \in Scalar /\ ScalarOf(b1) \in Scalar
            BY <1>2, <1>5, ZeroAndOne, RestCounts DEF ScalarOf
      <2>2. SAdd(ScalarOf(hashed), ScalarOf(b1)) \in Scalar
            BY <2>1, SumLaws
      <2> HIDE DEF b1, switched
      <2>3. switched.v = SAdd(ScalarOf(hashed), ScalarOf(b1))
            BY <1>4 DEF Gives
      <2>4. QED
            BY <2>2, <2>3, ZeroAndOne
<1> HIDE DEF switched
<1>7. [job EXCEPT !.blind[1] = switched.v] \in Job
      <2> DEFINE bs == [job.blind EXCEPT ![1] = switched.v]
      <2>1. bs \in Seq(Nat) /\ Len(bs) = Len(job.blind)
            BY <1>2, <1>6
      <2>2. [job EXCEPT !.blind[1] = switched.v] = [job EXCEPT !.blind = bs]
            BY <1>1 DEF Job
      <2> HIDE DEF bs, job
      <2>3. [job EXCEPT !.blind = bs] \in Job
            BY <1>1, <2>1 DEF Job
      <2>4. QED
            BY <2>2, <2>3
<1> HIDE DEF job
<1>8. tx'.at = "amounts" /\ tx'.job \in Job
      BY <1>3, <1>7
<1>9. QED
      BY <1>8 DEF TxInv, TallyHoldsExactlyWhenBalanced

\* Every step keeps the invariant.
LEMMA TxStep ==
    ASSUME HashesAreBytes, TxInv, [TxNext]_tx
    PROVE  TxInv'
<1>1. CASE UNCHANGED tx
      BY <1>1 DEF TxInv, TallyHoldsExactlyWhenBalanced
<1>2. ASSUME NEW amounts \in Amounts, TxBegin(amounts) PROVE TxInv'
      BY <1>2, BeginStep
<1>3. CASE CommitPlain
      BY <1>3, PlainStep
<1>4. CASE CommitBlinded
      BY <1>4, BlindedStep
<1>5. CASE Travel
      BY <1>5, TravelStep
<1>6. CASE Tally
      BY <1>6, TallyStep
<1>7. CASE tx.at = "amounts" /\ Switch
      BY <1>7, SwitchStep
<1>8. QED
      BY <1>1, <1>2, <1>3, <1>4, <1>5, <1>6, <1>7 DEF TxNext

\* Whatever the order of the group, the amounts and the blinding values: the
\* tally of a transaction holds exactly when its inputs and outputs are worth
\* the same, and what is left over otherwise commits to the difference without
\* any blinding, whichever way the amounts were committed to and however the
\* commitments travelled.
THEOREM TallyBalanced == HashesAreBytes => (TxSpec => []TallyHoldsExactlyWhenBalanced)
<1> SUFFICES ASSUME HashesAreBytes PROVE TxSpec => []TallyHoldsExactlyWhenBalanced
    OBVIOUS
<1>1. tx = TxIdle => TxInv
      BY DEF TxIdle, TxInv, TallyHoldsExactlyWhenBalanced
<1>2. TxInv /\ [TxNext]_tx => TxInv'
      BY TxStep
<1>3. TxInv => TallyHoldsExactlyWhenBalanced
      BY DEF TxInv
<1>4. QED
      BY <1>1, <1>2, <1>3, PTL DEF TxSpec

-------------------------------------------------------------------------------
(* Batches: arithmetic.                                                    *)

\* A power of two is a number other than 0: there are as many sets of w elements.
LEMMA PowerPositive == ASSUME NEW w \in Nat PROVE 2 ^ w \in Nat \ {0}
<1>1. IsFiniteSet(1 .. w) /\ Cardinality(1 .. w) = w
      <2>1. IsFiniteSet(1 .. w) /\ Cardinality(1 .. w) = IF 1 > w THEN 0 ELSE w - 1 + 1
            BY FS_Interval
      <2>2. QED
            BY <2>1
<1>2. IsFiniteSet(SUBSET (1 .. w)) /\ Cardinality(SUBSET (1 .. w)) = 2 ^ Cardinality(1 .. w)
      BY <1>1, FS_SUBSET
<1>3. Cardinality(SUBSET (1 .. w)) \in Nat
      BY <1>2, FS_CardinalityType
<1>4. SUBSET (1 .. w) # {}
      <2>1. {} \in SUBSET (1 .. w)
            OBVIOUS
      <2>2. QED
            BY <2>1
<1>5. Cardinality(SUBSET (1 .. w)) # 0
      BY <1>2, <1>4, FS_EmptySet
<1>6. QED
      BY <1>1, <1>2, <1>3, <1>5

LEMMA PowerIs == ASSUME NEW w \in Nat PROVE 2 ^ w \in Nat
BY PowerPositive

\* What a quotient is.
LEMMA QuotientIs ==
    ASSUME NEW a \in Nat, NEW d \in Nat \ {0}
    PROVE  /\ a \div d \in Nat
           /\ d * (a \div d) <= a
           /\ a < d * (a \div d) + d
<1>1. a \div d \in Int /\ a % d \in Int
      OBVIOUS
<1>2. 0 <= a % d /\ a % d < d
      OBVIOUS
<1>3. a = d * (a \div d) + (a % d)
      OBVIOUS
<1>4. a \div d >= 0
      OBVIOUS
<1> DEFINE q == a \div d
           r == a % d
<1>5. d * q \in Int
      BY <1>1
<1> HIDE DEF q, r
<1>6. QED
      BY <1>1, <1>2, <1>3, <1>4, <1>5 DEF q, r

\* A product grows with its factors.
LEMMA ProductGrows ==
    ASSUME NEW d \in Nat, NEW a \in Nat, NEW b \in Nat, a <= b
    PROVE  d * a \in Nat /\ d * b \in Nat /\ d * a <= d * b
<1>1. b - a \in Nat
      OBVIOUS
<1>2. d * (b - a) \in Nat /\ d * a \in Nat /\ d * b \in Nat
      BY <1>1
<1>3. d * b = d * a + d * (b - a)
      OBVIOUS
<1>4. QED
      BY <1>2, <1>3

\* As many as a quotient allows fit.
LEMMA QuotientFits ==
    ASSUME NEW a \in Nat, NEW d \in Nat \ {0}, NEW n \in Nat, n <= a \div d
    PROVE  n * d \in Nat /\ n * d <= a
<1>1. a \div d \in Nat /\ d * (a \div d) <= a
      BY QuotientIs
<1>2. d * n \in Nat /\ d * (a \div d) \in Nat /\ d * n <= d * (a \div d)
      BY <1>1, ProductGrows
<1>3. n * d = d * n
      OBVIOUS
<1>4. QED
      BY <1>1, <1>2, <1>3

\* Batches of equal length: none is empty, and none is longer than may be.
LEMMA PerBatchIs ==
    ASSUME NEW n \in Nat \ {0}, NEW most \in Nat \ {0}
    PROVE  /\ perBatch(n, most) \in Nat
           /\ 1 <= perBatch(n, most) /\ perBatch(n, most) <= most
<1> DEFINE b == (n + most - 1) \div most
           per == (n + b - 1) \div b
<1>1. b \in Nat /\ most * b <= n + most - 1 /\ n + most - 1 < most * b + most
      <2>1. n + most - 1 \in Nat
            OBVIOUS
      <2>2. QED
            BY <2>1, QuotientIs
<1>2. most * b \in Nat
      BY <1>1
<1> DEFINE m == most * b
<1>3. m \in Nat /\ n <= m
      BY <1>1, <1>2
<1>4. b # 0
      <2>1. most * 0 = 0
            OBVIOUS
      <2> HIDE DEF b
      <2>2. QED
            BY <1>3, <2>1
<1>5. perBatch(n, most) = per
      BY DEF perBatch
<1> HIDE DEF b
<1>6. per \in Nat /\ b * per <= n + b - 1 /\ n + b - 1 < b * per + b
      <2>1. n + b - 1 \in Nat /\ b \in Nat \ {0}
            BY <1>1, <1>4
      <2>2. QED
            BY <2>1, QuotientIs
<1> HIDE DEF per
<1>7. per # 0
      <2>1. b * 0 = 0
            BY <1>1
      <2>2. QED
            BY <1>1, <1>6, <2>1
<1>8. per <= most
      <2>1. SUFFICES ASSUME most + 1 <= per PROVE FALSE
            BY <1>6
      <2>2. b * (most + 1) <= b * per /\ b * (most + 1) \in Nat /\ b * per \in Nat
            BY <1>1, <1>6, <2>1, ProductGrows
      <2>3. b * (most + 1) = m + b
            BY <1>1
      <2> HIDE DEF m
      <2>4. QED
            BY <1>1, <1>3, <1>6, <2>2, <2>3
<1>9. QED
      BY <1>5, <1>6, <1>7, <1>8

-------------------------------------------------------------------------------
(* Batches: the sizes of their frames.                                     *)

LEMMA SizesAre ==
    /\ ScalarBits \in Nat /\ HalfBits \in Nat /\ WindowA - 2 \in Nat /\ 2 ^ (WindowA - 2) \in Nat
    /\ \A endo \in BOOLEAN : straussPointState(endo) \in Nat
    /\ \A endo \in BOOLEAN : \A w \in Nat \ {0} : wnafSize(endo, w) \in Nat
<1>1. ScalarBits \in Nat /\ HalfBits \in Nat /\ WindowA - 2 \in Nat
      BY EcMultAssumption
<1>2. 2 ^ (WindowA - 2) \in Nat
      BY <1>1, PowerIs
<1>3. \A endo \in BOOLEAN : straussPointState(endo) \in Nat
      BY <1>1 DEF straussPointState, sizeInt
<1>4. ASSUME NEW endo \in BOOLEAN, NEW w \in Nat \ {0} PROVE wnafSize(endo, w) \in Nat
      <2> DEFINE bits == IF endo THEN HalfBits ELSE ScalarBits
      <2>1. bits \in Nat
            BY <1>1
      <2> HIDE DEF bits
      <2>2. bits + w - 1 \in Nat
            BY <2>1
      <2>3. (bits + w - 1) \div w \in Nat
            BY <2>2, QuotientIs
      <2>4. wnafSize(endo, w) = (bits + w - 1) \div w
            BY DEF wnafSize, windows, bits
      <2>5. QED
            BY <2>3, <2>4
<1>5. QED
      BY <1>1, <1>2, <1>3, <1>4

\* What six pieces add up to.
sixOf(p) == p[1] + p[2] + p[3] + p[4] + p[5] + p[6]
SixPieces == Nat \X Nat \X Nat \X Nat \X Nat \X Nat

LEMMA SixAre ==
    ASSUME NEW p \in SixPieces
    PROVE  /\ p[1] \in Nat /\ p[2] \in Nat /\ p[3] \in Nat /\ p[4] \in Nat /\ p[5] \in Nat /\ p[6] \in Nat
           /\ p = <<p[1], p[2], p[3], p[4], p[5], p[6]>>
BY DEF SixPieces

LEMMA StraussPiecesFit ==
    ASSUME NEW endo \in BOOLEAN, NEW n \in Nat
    PROVE  /\ straussPieces(endo, n) \in SixPieces
           /\ strauss_scratch_size(endo, n) \in Nat
           /\ strauss_scratch_size(endo, n) = n * strauss_scratch_size(endo, 1)
           /\ sixOf(straussPieces(endo, n)) = strauss_scratch_size(endo, n)
           /\ strauss_scratch_size(endo, 1) \in Nat \ {0}
<1> DEFINE t == 2 ^ (WindowA - 2)
           g == IF endo THEN 2 ELSE 1
           state == straussPointState(endo)
<1>1. t \in Nat /\ g \in Nat /\ state \in Nat
      BY SizesAre
<1>2. \A k \in Nat : straussPieces(endo, k)
                     = <<k * 128, k * 32, k * t * 128, k * t * 40, k * t * 88 * g, k * state>>
      BY DEF straussPieces, sizeGe, sizeGej, sizeScalar
<1>3. strauss_scratch_size(endo, n)
      = n * (1 * 128 + 1 * 32 + 1 * t * 128 + 1 * t * 40 + 1 * t * 88 * g + 1 * state)
      BY <1>2 DEF strauss_scratch_size
<1>4. strauss_scratch_size(endo, 1)
      = 1 * (1 * 128 + 1 * 32 + 1 * t * 128 + 1 * t * 40 + 1 * t * 88 * g + 1 * state)
      BY <1>2 DEF strauss_scratch_size
<1> HIDE DEF t, g, state
<1> DEFINE a == t * 88 * g
<1>5. a \in Nat /\ t * 128 \in Nat /\ t * 40 \in Nat
      <2>1. t * 88 \in Nat
            BY <1>1
      <2>2. QED
            BY <1>1, <2>1
<1>6. 1 * t * 128 = t * 128 /\ 1 * t * 40 = t * 40 /\ 1 * t * 88 * g = a /\ 1 * state = state
      BY <1>1
<1>7. strauss_scratch_size(endo, 1) = 160 + t * 128 + t * 40 + a + state
      BY <1>1, <1>4, <1>5, <1>6
<1>8. strauss_scratch_size(endo, 1) \in Nat /\ strauss_scratch_size(endo, 1) > 0
      BY <1>1, <1>5, <1>7
<1>9. n * t * 88 * g = n * a /\ n * t * 128 = n * (t * 128) /\ n * t * 40 = n * (t * 40)
      BY <1>1
<1>10. /\ n * 128 \in Nat /\ n * 32 \in Nat /\ n * (t * 128) \in Nat /\ n * (t * 40) \in Nat /\ n * a \in Nat
       /\ n * state \in Nat
      <2>1. \A x \in Nat : n * x \in Nat
            OBVIOUS
      <2>2. QED
            BY <1>1, <1>5, <2>1
<1>11. straussPieces(endo, n) = <<n * 128, n * 32, n * (t * 128), n * (t * 40), n * a, n * state>>
      BY <1>2, <1>9
<1>12. n * (160 + t * 128 + t * 40 + a + state)
       = n * 128 + n * 32 + n * (t * 128) + n * (t * 40) + n * a + n * state
      <2> DEFINE x == t * 128
                 y == t * 40
      <2>1. x \in Nat /\ y \in Nat
            BY <1>5
      <2> HIDE DEF x, y, a
      <2>2. n * (160 + x + y + a + state) = n * 128 + n * 32 + n * x + n * y + n * a + n * state
            BY <1>1, <1>5, <2>1
      <2>3. QED
            BY <2>2 DEF x, y
<1>13. strauss_scratch_size(endo, n) = n * strauss_scratch_size(endo, 1)
      <2> DEFINE one == 1 * 128 + 1 * 32 + 1 * t * 128 + 1 * t * 40 + 1 * t * 88 * g + 1 * state
      <2>1. one \in Nat
            BY <1>1, <1>5, <1>6
      <2>2. strauss_scratch_size(endo, n) = n * one /\ strauss_scratch_size(endo, 1) = 1 * one
            BY <1>3, <1>4
      <2> HIDE DEF one
      <2>3. 1 * one = one
            BY <2>1
      <2>4. QED
            BY <2>2, <2>3
<1>14. straussPieces(endo, n) \in SixPieces
      <2> DEFINE x1 == n * 128
                 x2 == n * 32
                 x3 == n * (t * 128)
                 x4 == n * (t * 40)
                 x5 == n * a
                 x6 == n * state
      <2>1. x1 \in Nat /\ x2 \in Nat /\ x3 \in Nat /\ x4 \in Nat /\ x5 \in Nat /\ x6 \in Nat
            BY <1>10
      <2>2. straussPieces(endo, n) = <<x1, x2, x3, x4, x5, x6>>
            BY <1>11
      <2> HIDE DEF x1, x2, x3, x4, x5, x6
      <2>3. QED
            BY <2>1, <2>2 DEF SixPieces
<1>15. sixOf(straussPieces(endo, n)) = n * strauss_scratch_size(endo, 1)
      BY <1>7, <1>11, <1>12 DEF sixOf
<1>16. QED
      BY <1>8, <1>13, <1>14, <1>15

LEMMA PippengerPiecesFit ==
    ASSUME NEW endo \in BOOLEAN, NEW n \in Nat, NEW w \in Nat \ {0}
    PROVE  /\ pippengerPieces(endo, n, w) \in SixPieces
           /\ entryOf(endo, w) \in Nat \ {0} /\ overheadOf(endo, w) \in Nat
           /\ pippenger_scratch_size(endo, n, w) = overheadOf(endo, w) + n * entryOf(endo, w)
           /\ pippenger_scratch_size(endo, n, w) \in Nat
           /\ sixOf(pippengerPieces(endo, n, w)) <= pippenger_scratch_size(endo, n, w)
<1> DEFINE k == wnafSize(endo, w + 1)
           t == 2 ^ w
           e == entriesOf(endo, n)
           one == entrySize(endo, w)
<1>1. k \in Nat /\ t \in Nat /\ w + 1 \in Nat \ {0}
      BY SizesAre, PowerIs
<1>2. e = (IF endo THEN 2 * n + 2 ELSE n + 1) /\ e \in Nat
      BY DEF entriesOf
<1>3. one = 136 + (k + 1) * 4
      BY <1>1 DEF entrySize, sizeGe, sizeScalar, sizeInt, pippengerPointState
<1>4. pippengerPieces(endo, n, w) = <<e * 88, e * 32, 16, e * 16, e * k * 4, t * 128>>
      BY DEF pippengerPieces, sizeGe, sizeScalar, sizeInt, sizeGej, pippengerPointState, pippengerState
<1>5. pippenger_scratch_size(endo, n, w) = t * 128 + 16 + e * one
      BY DEF pippenger_scratch_size, sizeGej, pippengerState
<1>6. /\ entryOf(endo, w) = (IF endo THEN 2 * one ELSE one)
      /\ overheadOf(endo, w) = t * 128 + (IF endo THEN 2 * one ELSE one) + 16
      BY DEF entryOf, overheadOf, sizeGej, pippengerState
<1> HIDE DEF k, t, e, one
<1>7. one \in Nat /\ one > 0 /\ one = 140 + k * 4
      BY <1>1, <1>3
<1>8. e * one = (IF endo THEN 2 * one ELSE one) + n * (IF endo THEN 2 * one ELSE one)
      <2>1. CASE endo
            <3>1. e = 2 * n + 2
                  BY <1>2, <2>1
            <3>2. (2 * n + 2) * one = 2 * one + n * (2 * one)
                  BY <1>7
            <3>3. QED
                  BY <2>1, <3>1, <3>2
      <2>2. CASE ~endo
            <3>1. e = n + 1
                  BY <1>2, <2>2
            <3>2. (n + 1) * one = one + n * one
                  BY <1>7
            <3>3. QED
                  BY <2>2, <3>1, <3>2
      <2>3. QED
            BY <2>1, <2>2
<1>9. entryOf(endo, w) \in Nat \ {0} /\ overheadOf(endo, w) \in Nat
      BY <1>1, <1>6, <1>7
<1>10. pippenger_scratch_size(endo, n, w) = overheadOf(endo, w) + n * entryOf(endo, w)
      <2> DEFINE x == n * entryOf(endo, w)
                 y == e * one
      <2>1. x \in Nat /\ y \in Nat
            BY <1>2, <1>7, <1>9
      <2>2. y = entryOf(endo, w) + x
            BY <1>6, <1>8
      <2>3. overheadOf(endo, w) = t * 128 + entryOf(endo, w) + 16
            BY <1>6
      <2>4. pippenger_scratch_size(endo, n, w) = t * 128 + 16 + y
            BY <1>5
      <2> HIDE DEF x, y
      <2>5. pippenger_scratch_size(endo, n, w) = overheadOf(endo, w) + x
            BY <1>1, <1>9, <2>1, <2>2, <2>3, <2>4
      <2>6. QED
            BY <2>5 DEF x
<1>11. n * entryOf(endo, w) \in Nat
      BY <1>9
<1>12. /\ e * 88 \in Nat /\ e * 32 \in Nat /\ e * 16 \in Nat /\ e * k * 4 \in Nat /\ t * 128 \in Nat
       /\ e * 4 \in Nat
      <2>1. e * k \in Nat
            BY <1>1, <1>2
      <2>2. QED
            BY <1>1, <1>2, <2>1
<1>13. e * one = e * 88 + e * 32 + e * 16 + e * k * 4 + e * 4
      BY <1>1, <1>2, <1>7
<1>14. pippengerPieces(endo, n, w) \in SixPieces
      BY <1>4, <1>12 DEF SixPieces
<1>15. sixOf(pippengerPieces(endo, n, w)) <= pippenger_scratch_size(endo, n, w)
      <2> DEFINE a == e * 88
                 b == e * 32
                 c == e * 16
                 d == e * k * 4
                 f == t * 128
                 x == e * 4
      <2>1. a \in Nat /\ b \in Nat /\ c \in Nat /\ d \in Nat /\ f \in Nat /\ x \in Nat
            BY <1>12
      <2>2. sixOf(pippengerPieces(endo, n, w)) = a + b + 16 + c + d + f
            BY <1>4 DEF sixOf
      <2>3. pippenger_scratch_size(endo, n, w) = f + 16 + (a + b + c + d + x)
            BY <1>5, <1>13
      <2> HIDE DEF a, b, c, d, f, x
      <2>4. QED
            BY <2>1, <2>2, <2>3
<1>16. QED
      BY <1>9, <1>10, <1>11, <1>14, <1>15

\* A limit of every window.
LEMMA LimitsAre ==
    ASSUME NEW endo \in BOOLEAN
    PROVE  /\ \A w \in 1 .. 11 : windowLimits(endo)[w] \in Nat
           /\ \A w \in 1 .. 11 : pippenger_bucket_window_inv(endo, w) = windowLimits(endo)[w]
           /\ windowLimits(TRUE)[8] = windowLimits(TRUE)[7]
<1>1. ASSUME NEW w \in 1 .. 11 PROVE windowLimits(endo)[w] \in Nat
      <2>1. w \in {1, 2, 3, 4, 5, 6, 7, 8, 9, 10, 11}
            BY <1>1
      <2>2. QED
            BY <2>1 DEF windowLimits
<1>2. \A w \in 1 .. 11 : pippenger_bucket_window_inv(endo, w) = windowLimits(endo)[w]
      BY DEF pippenger_bucket_window_inv
<1>3. windowLimits(TRUE)[8] = windowLimits(TRUE)[7]
      BY DEF windowLimits
<1>4. QED
      BY <1>1, <1>2, <1>3

\* The window is the first whose limit is not below the number.
LEMMA WindowIs ==
    ASSUME NEW endo \in BOOLEAN, NEW n \in Nat
    PROVE  /\ pippenger_bucket_window(endo, n) \in 1 .. 12
           /\ \A w \in 1 .. 11 : n <= windowLimits(endo)[w] => pippenger_bucket_window(endo, n) <= w
           /\ pippenger_bucket_window(endo, n) # 12 =>
                 n <= windowLimits(endo)[pippenger_bucket_window(endo, n)]
<1> DEFINE limit == windowLimits(endo)
           fitting == {w \in 1 .. 11 : n <= limit[w] /\ ~(endo /\ w = 8)}
           first == pippenger_bucket_window(endo, n)
<1>1. first = IF fitting = {} THEN 12 ELSE CHOOSE w \in fitting : \A v \in fitting : w <= v
      BY DEF pippenger_bucket_window
<1>2. \A w \in 1 .. 11 : n <= limit[w] => \E v \in fitting : v <= w
      <2>1. ASSUME NEW w \in 1 .. 11, n <= limit[w] PROVE \E v \in fitting : v <= w
            <3>1. CASE ~(endo /\ w = 8)
                  BY <2>1, <3>1
            <3>2. CASE endo /\ w = 8
                  <4>1. limit[8] = limit[7]
                        BY <3>2, LimitsAre
                  <4>2. n <= limit[7]
                        BY <2>1, <3>2, <4>1
                  <4> HIDE DEF limit
                  <4>3. 7 \in fitting /\ 7 <= w
                        BY <3>2, <4>2
                  <4>4. QED
                        BY <4>3
            <3>3. QED
                  BY <3>1, <3>2
      <2>2. QED
            BY <2>1
<1>3. CASE fitting = {}
      <2> HIDE DEF first
      <2>1. first = 12
            BY <1>1, <1>3
      <2>2. \A w \in 1 .. 11 : ~(n <= limit[w])
            <3> HIDE DEF fitting, limit
            <3>1. QED
                  BY <1>2, <1>3
      <2>3. QED
            BY <2>1, <2>2 DEF first
<1>4. CASE fitting # {}
      <2>1. fitting \subseteq Nat /\ fitting \subseteq 1 .. 11
            OBVIOUS
      <2>2. \E m \in fitting : \A k \in fitting : m <= k
            <3> HIDE DEF fitting
            <3>1. QED
                  BY <1>4, <2>1, LeastOf, Zenon
      <2>3. first \in fitting /\ \A v \in fitting : first <= v
            <3> HIDE DEF fitting, first
            <3>1. QED
                  BY <1>1, <1>4, <2>2
      <2>4. n <= limit[first] /\ first \in 1 .. 11
            <3> HIDE DEF first, limit
            <3>1. QED
                  BY <2>3
      <2>5. \A w \in 1 .. 11 : n <= limit[w] => first <= w
            <3>1. ASSUME NEW w \in 1 .. 11, n <= limit[w] PROVE first <= w
                  <4> HIDE DEF first, fitting, limit
                  <4>1. PICK v \in fitting : v <= w
                        BY <1>2, <3>1
                  <4>2. first <= v /\ v \in Nat
                        BY <2>1, <2>3, <4>1
                  <4>3. QED
                        BY <2>4, <4>1, <4>2
            <3>2. QED
                  BY <3>1
      <2> HIDE DEF first, limit, fitting
      <2>6. QED
            BY <2>4, <2>5 DEF first, limit
<1>5. QED
      BY <1>3, <1>4

\* What pippenger_max_points counts is the number of points of one window it
\* tried, or 0.
LEMMA PointsTyped ==
    ASSUME NEW endo \in BOOLEAN, NEW most \in Nat
    PROVE  /\ pointsUpTo(endo, most)[12] \in Nat
           /\ \/ pointsUpTo(endo, most)[12] = 0
              \/ \E w \in 1 .. 12 : isTried(endo, most, w) /\ pointsUpTo(endo, most)[12] = pointsIn(endo, most, w)
<1> DEFINE tried(w) == isTried(endo, most, w)
           points(w) == pointsIn(endo, most, w)
           up(x, w) == IF tried(w) THEN larger(x, points(w)) ELSE x
           next(t, w) == IF w = 0 THEN 0 ELSE up(t[w - 1], w)
           run == pointsUpTo(endo, most)
<1>1. ASSUME NEW w \in 1 .. 12 PROVE isTried(endo, most, w) => points(w) \in Nat
      <2>1. SUFFICES ASSUME isTried(endo, most, w) PROVE points(w) \in Nat
            OBVIOUS
      <2>2. overheadOf(endo, w) \in Nat /\ entryOf(endo, w) \in Nat \ {0}
            <3>1. w \in Nat \ {0} /\ 0 \in Nat
                  OBVIOUS
            <3>2. QED
                  BY <3>1, PippengerPiecesFit
      <2>3. most - overheadOf(endo, w) \in Nat
            BY <2>1, <2>2 DEF isTried
      <2>4. (most - overheadOf(endo, w)) \div entryOf(endo, w) \in Nat
            BY <2>2, <2>3, QuotientIs
      <2>5. pippenger_bucket_window_inv(endo, w) \in Nat
            <3>1. CASE w \in 1 .. 11
                  BY <3>1, LimitsAre
            <3>2. CASE w = 12
                  <4>1. 2 ^ 30 \in Nat
                        BY PowerIs
                  <4>2. pippenger_bucket_window_inv(endo, w) = 2 ^ 30
                        BY <3>2 DEF pippenger_bucket_window_inv
                  <4>3. QED
                        BY <4>1, <4>2
            <3>3. QED
                  BY <3>1, <3>2
      <2>6. QED
            BY <2>4, <2>5 DEF pointsIn, lesser
<1> DEFINE move == [p \in Nat \X (1 .. 12) |-> up(p[1], p[2])]
<1>2. move \in [Nat \X (1 .. 12) -> Nat]
      <2>1. ASSUME NEW x \in Nat, NEW w \in 1 .. 12 PROVE up(x, w) \in Nat
            <3> HIDE DEF points, tried
            <3>1. tried(w) => points(w) \in Nat
                  BY <1>1 DEF tried
            <3>2. QED
                  BY <3>1 DEF larger
      <2> HIDE DEF up
      <2>2. QED
            BY <2>1
<1>3. PICK t : Walks(t, 12, Nat, 0, move)
      <2> HIDE DEF move
      <2>1. 12 \in Nat /\ 0 \in Nat
            OBVIOUS
      <2>2. QED
            BY <1>2, <2>1, WalkExists
<1>4. t \in [0 .. 12 -> Nat] /\ t[0] = 0 /\ \A w \in 1 .. 12 : t[w] = up(t[w - 1], w)
      <2>1. /\ t \in [0 .. 12 -> Nat] /\ t[0] = 0
            /\ \A i \in 1 .. 12 : t[i] = move[<<t[i - 1], i>>]
            BY <1>3 DEF Walks
      <2>2. ASSUME NEW i \in 1 .. 12 PROVE <<t[i - 1], i>> \in Nat \X (1 .. 12)
            <3>1. i - 1 \in 0 .. 12
                  OBVIOUS
            <3>2. QED
                  BY <2>1, <3>1
      <2>3. \A p \in Nat \X (1 .. 12) : move[p] = up(p[1], p[2])
            <3> HIDE DEF up
            <3>1. QED
                  OBVIOUS
      <2> HIDE DEF move, up
      <2>4. QED
            BY <2>1, <2>2, <2>3
<1>5. t = [w \in 0 .. 12 |-> next(t, w)]
      <2> HIDE DEF up
      <2>1. QED
            BY <1>4
<1>6. run = CHOOSE u : u = [w \in 0 .. 12 |-> next(u, w)]
      BY DEF pointsUpTo
<1>7. run = [w \in 0 .. 12 |-> next(run, w)]
      <2> HIDE DEF next, run
      <2>1. QED
            BY <1>5, <1>6
<1>8. run[0] = 0 /\ \A w \in 1 .. 12 : run[w] = up(run[w - 1], w)
      <2> HIDE DEF run, up
      <2>1. QED
            BY <1>7
<1> DEFINE good == {i \in 0 .. 12 : /\ run[i] \in Nat
                                    /\ run[i] = 0 \/ \E w \in 1 .. 12 : tried(w) /\ run[i] = points(w)}
<1>9. 0 \in good
      BY <1>8
<1>10. ASSUME NEW i \in 1 .. 12, i - 1 \in good PROVE i \in good
      <2> HIDE DEF run, tried, points
      <2>1. run[i - 1] \in Nat /\ i \in 0 .. 12 /\ run[i] = up(run[i - 1], i)
            BY <1>8, <1>10
      <2>2. tried(i) => points(i) \in Nat
            BY <1>1 DEF tried, points
      <2>3. run[i] = run[i - 1] \/ (tried(i) /\ run[i] = points(i))
            BY <2>1, <2>2 DEF larger
      <2>4. CASE run[i] = run[i - 1]
            BY <1>10, <2>1, <2>4
      <2>5. CASE tried(i) /\ run[i] = points(i)
            BY <2>1, <2>2, <2>5
      <2>6. QED
            BY <2>3, <2>4, <2>5
<1>11. 12 \in good
      <2> HIDE DEF good
      <2>1. 12 \in Nat /\ 12 \in 0 .. 12
            OBVIOUS
      <2>2. \A i \in 0 .. 12 : i \in good
            BY <1>9, <1>10, <2>1, CountUp
      <2>3. QED
            BY <2>1, <2>2
<1>12. run[12] \in Nat /\ (run[12] = 0 \/ \E w \in 1 .. 12 : tried(w) /\ run[12] = points(w))
      <2> HIDE DEF run, tried, points
      <2>1. QED
            BY <1>11
<1>13. QED
      <2> HIDE DEF run
      <2>1. QED
            BY <1>12 DEF run

LEMMA TriedWindow ==
    ASSUME NEW endo \in BOOLEAN, NEW most \in Nat, NEW n \in Nat \ {0}, n <= pointsUpTo(endo, most)[12]
    PROVE  \E w \in 1 .. 12 : isTried(endo, most, w) /\ n <= pointsIn(endo, most, w)
<1> DEFINE p == pointsUpTo(endo, most)[12]
<1>1. p \in Nat /\ (p = 0 \/ \E w \in 1 .. 12 : isTried(endo, most, w) /\ p = pointsIn(endo, most, w))
      BY PointsTyped
<1>2. n <= p
      OBVIOUS
<1> HIDE DEF p
<1>3. PICK w \in 1 .. 12 : isTried(endo, most, w) /\ p = pointsIn(endo, most, w)
      BY <1>1, <1>2
<1>4. QED
      BY <1>2, <1>3

\* However many points of those that pippenger_max_points allows a batch has:
\* with the window of their number its frame fits.
LEMMA PippengerFits ==
    ASSUME NEW endo \in BOOLEAN, NEW most \in Nat, NEW n \in Nat \ {0}, n <= pointsUpTo(endo, most)[12]
    PROVE  pippenger_scratch_size(endo, n, pippenger_bucket_window(endo, n)) <= most
<1> DEFINE v == pippenger_bucket_window(endo, n)
<1>1. PICK w \in 1 .. 12 : isTried(endo, most, w) /\ n <= pointsIn(endo, most, w)
      BY TriedWindow
<1>2. /\ v \in 1 .. 12
      /\ \A u \in 1 .. 11 : n <= windowLimits(endo)[u] => v <= u
      /\ v # 12 => n <= windowLimits(endo)[v]
      BY WindowIs
<1> HIDE DEF v
<1>3. ASSUME NEW u \in 1 .. 12, overheadOf(endo, u) <= most
      PROVE  LET q == (most - overheadOf(endo, u)) \div entryOf(endo, u)
             IN /\ q \in Nat
                /\ n <= q => pippenger_scratch_size(endo, n, u) <= most
                /\ pointsIn(endo, most, u) = lesser(q, pippenger_bucket_window_inv(endo, u))
      <2> DEFINE q == (most - overheadOf(endo, u)) \div entryOf(endo, u)
      <2>1. /\ overheadOf(endo, u) \in Nat /\ entryOf(endo, u) \in Nat \ {0}
            /\ pippenger_scratch_size(endo, n, u) = overheadOf(endo, u) + n * entryOf(endo, u)
            <3>1. u \in Nat \ {0} /\ n \in Nat
                  OBVIOUS
            <3>2. QED
                  BY <3>1, PippengerPiecesFit
      <2>2. most - overheadOf(endo, u) \in Nat
            BY <1>3, <2>1
      <2>3. q \in Nat
            BY <2>1, <2>2, QuotientIs
      <2>4. n <= q => n * entryOf(endo, u) \in Nat /\ n * entryOf(endo, u) <= most - overheadOf(endo, u)
            BY <2>1, <2>2, QuotientFits
      <2>5. pointsIn(endo, most, u) = lesser(q, pippenger_bucket_window_inv(endo, u))
            BY DEF pointsIn
      <2>6. n <= q => pippenger_scratch_size(endo, n, u) <= most
            <3> DEFINE x == n * entryOf(endo, u)
            <3> HIDE DEF q, x
            <3>1. n <= q => x \in Nat /\ x <= most - overheadOf(endo, u)
                  BY <2>4 DEF x
            <3>2. pippenger_scratch_size(endo, n, u) = overheadOf(endo, u) + x
                  BY <2>1 DEF x
            <3>3. QED
                  BY <2>1, <3>1, <3>2
      <2>7. QED
            BY <2>3, <2>5, <2>6
<1>4. overheadOf(endo, w) <= most /\ \A u \in 1 .. w - 1 : atItsLimit(endo, most, u)
      BY <1>1 DEF isTried
<1>5. \A u \in 1 .. 11 : pippenger_bucket_window_inv(endo, u) = windowLimits(endo)[u] /\ windowLimits(endo)[u] \in Nat
      BY LimitsAre
<1>6. v <= w
      <2>1. CASE w = 12
            BY <1>2, <2>1
      <2>2. CASE w # 12
            <3>1. w \in 1 .. 11
                  BY <2>2
            <3> DEFINE q == (most - overheadOf(endo, w)) \div entryOf(endo, w)
            <3>2. q \in Nat /\ pointsIn(endo, most, w) = lesser(q, pippenger_bucket_window_inv(endo, w))
                  BY <1>3, <1>4
            <3> HIDE DEF q
            <3>3. n <= windowLimits(endo)[w]
                  BY <1>1, <1>5, <3>1, <3>2 DEF lesser
            <3>4. QED
                  BY <1>2, <3>1, <3>3
      <2>3. QED
            BY <2>1, <2>2
<1>7. CASE v = w
      <2> DEFINE q == (most - overheadOf(endo, w)) \div entryOf(endo, w)
      <2>1. /\ q \in Nat /\ pointsIn(endo, most, w) = lesser(q, pippenger_bucket_window_inv(endo, w))
            /\ n <= q => pippenger_scratch_size(endo, n, w) <= most
            BY <1>3, <1>4
      <2>2. pippenger_bucket_window_inv(endo, w) \in Nat
            <3>1. CASE w \in 1 .. 11
                  BY <1>5, <3>1
            <3>2. CASE w = 12
                  <4>1. 2 ^ 30 \in Nat
                        BY PowerIs
                  <4>2. pippenger_bucket_window_inv(endo, w) = 2 ^ 30
                        BY <3>2 DEF pippenger_bucket_window_inv
                  <4>3. QED
                        BY <4>1, <4>2
            <3>3. QED
                  BY <3>1, <3>2
      <2> HIDE DEF q
      <2>3. n <= q
            BY <1>1, <2>1, <2>2 DEF lesser
      <2>4. QED
            BY <1>7, <2>1, <2>3 DEF v
<1>8. CASE v < w
      <2>1. v \in 1 .. 11 /\ v \in 1 .. w - 1 /\ n <= windowLimits(endo)[v]
            BY <1>2, <1>8
      <2>2. overheadOf(endo, v) <= most /\ pointsIn(endo, most, v) >= pippenger_bucket_window_inv(endo, v)
            BY <1>4, <2>1 DEF atItsLimit
      <2> DEFINE q == (most - overheadOf(endo, v)) \div entryOf(endo, v)
      <2>3. /\ q \in Nat /\ pointsIn(endo, most, v) = lesser(q, pippenger_bucket_window_inv(endo, v))
            /\ n <= q => pippenger_scratch_size(endo, n, v) <= most
            BY <1>2, <1>3, <2>2
      <2> HIDE DEF q
      <2>4. n <= q
            BY <1>5, <2>1, <2>2, <2>3 DEF lesser
      <2>5. QED
            BY <2>3, <2>4 DEF v
<1>9. QED
      BY <1>2, <1>6, <1>7, <1>8

-------------------------------------------------------------------------------
(* Batches: their frames.                                                  *)

Space == [at : {"open"}, max : Nat, frames : Seq(Frame)]

\* A piece is cut off the top frame or not at all.
LEMMA AllocTyped ==
    ASSUME NEW s \in [at : {"open"}, max : Nat, frames : Seq(Frame)], NEW z \in Nat
    PROVE  scratch_alloc(s, z) \in [at : {"open"}, max : Nat, frames : Seq(Frame)]
<1> DEFINE old == s.frames
           len == Len(old)
           c == cutOff(old[len], z)
<1>1. CASE ~pieceFits(s, z)
      BY <1>1 DEF scratch_alloc
<1>2. CASE pieceFits(s, z)
      <2>1. old \in Seq(Frame) /\ old # <<>> /\ len \in 1 .. len /\ old[len] \in Frame
            BY <1>2 DEF pieceFits
      <2>2. round_to_align(z) \in Nat
            BY RoundingIsSmall
      <2>3. c \in Frame
            <3> DEFINE f == old[len]
            <3>1. f \in Frame /\ c = cutOff(f, z)
                  BY <2>1
            <3> HIDE DEF f, c
            <3>2. f.offset \in Nat /\ f.used \in Nat /\ f.count \in Nat
                  BY <3>1 DEF Frame
            <3>3. f.offset + round_to_align(z) \in Nat /\ f.used + z \in Nat /\ f.count + 1 \in Nat
                  BY <2>2, <3>2
            <3>4. QED
                  BY <3>1, <3>3 DEF cutOff, Frame
      <2>4. scratch_alloc(s, z) = [s EXCEPT !.frames = [old EXCEPT ![len] = c]]
            BY <1>2 DEF scratch_alloc
      <2> HIDE DEF c
      <2>5. [old EXCEPT ![len] = c] \in Seq(Frame)
            BY <2>1, <2>3
      <2>6. QED
            BY <2>4, <2>5
<1>3. QED
      BY <1>1, <1>2

\* A space of one frame for n bytes and six objects, of which u bytes in k
\* pieces are cut off.
CutSoFar(s, max, n, u, k) ==
    \E f \in Frame : /\ s = [at |-> "open", max |-> max, frames |-> <<f>>]
                     /\ HasRoom(f)
                     /\ f.n = n /\ f.objects = 6 /\ f.used = u /\ f.count = k

LEMMA OnePiece ==
    ASSUME NEW s, NEW max \in Nat, NEW n \in Nat, NEW u \in Nat, NEW k \in Nat, NEW z \in Nat,
           CutSoFar(s, max, n, u, k), u + z <= n, k < 6
    PROVE  CutSoFar(scratch_alloc(s, z), max, n, u + z, k + 1)
<1>1. PICK f \in Frame : /\ s = [at |-> "open", max |-> max, frames |-> <<f>>]
                         /\ HasRoom(f)
                         /\ f.n = n /\ f.objects = 6 /\ f.used = u /\ f.count = k
      BY DEF CutSoFar
<1>2. /\ f.size \in Nat /\ f.offset \in Nat /\ f.n \in Nat /\ f.objects \in Nat
      /\ f.used \in Nat /\ f.count \in Nat /\ Alignment \in Nat
      BY ScratchAssumption DEF Frame
<1>3. f.size = f.n + f.objects * Alignment /\ f.offset <= f.used + f.count * Alignment
      BY <1>1 DEF HasRoom
<1>4. round_to_align(z) \in Nat /\ round_to_align(z) <= z + Alignment
      BY RoundingIsSmall
<1>5. round_to_align(z) + f.offset <= f.size
      <2> DEFINE p == f.count * Alignment
                 q == f.objects * Alignment
                 r == round_to_align(z)
      <2>1. p \in Nat /\ q \in Nat /\ p + Alignment <= q
            <3>1. (f.count + 1) * Alignment = p + Alignment
                  BY <1>2
            <3>2. (f.count + 1) * Alignment <= q
                  BY <1>1, <1>2, RoomGrows
            <3>3. QED
                  BY <1>2, <3>1, <3>2
      <2>2. f.offset <= f.used + p /\ f.size = f.n + q
            BY <1>3
      <2> HIDE DEF p, q
      <2>3. r + f.offset <= f.n + q
            BY <1>1, <1>2, <1>4, <2>1, <2>2, SumsStayBelow
      <2>4. QED
            BY <2>2, <2>3
<1>6. s.frames = <<f>> /\ Len(s.frames) = 1 /\ s.frames[Len(s.frames)] = f /\ s.frames # <<>>
      BY <1>1
<1>7. pieceFits(s, z)
      BY <1>5, <1>6 DEF pieceFits
<1> DEFINE c == cutOff(f, z)
<1>8. c \in Frame /\ HasRoom(c) /\ c.n = f.n
      BY <1>1, CutFrame
<1>9. c.objects = f.objects /\ c.used = f.used + z /\ c.count = f.count + 1
      BY <1>2 DEF cutOff, Frame
<1>10. scratch_alloc(s, z) = [s EXCEPT !.frames[1] = cutOff(@, z)]
      BY <1>6, <1>7 DEF scratch_alloc
<1>11. scratch_alloc(s, z) = [at |-> "open", max |-> max, frames |-> <<c>>]
      BY <1>1, <1>6, <1>10
<1>12. QED
      <2> HIDE DEF c
      <2>1. QED
            BY <1>1, <1>8, <1>9, <1>11 DEF CutSoFar

\* Six pieces are cut off one after the other.
LEMMA CutUnfolds ==
    ASSUME NEW s \in Space, NEW p \in SixPieces
    PROVE  \E c : /\ c[0] = s
                  /\ \A i \in 1 .. 6 : c[i] = scratch_alloc(c[i - 1], p[i])
                  /\ cut(s, p) = c[6]
<1> DEFINE up(x, i) == scratch_alloc(x, p[i])
           next(c, i) == IF i = 0 THEN s ELSE up(c[i - 1], i)
           move == [a \in Space \X (1 .. 6) |-> up(a[1], a[2])]
<1>1. Len(p) = 6 /\ \A i \in 1 .. 6 : p[i] \in Nat
      <2> DEFINE x1 == p[1]
                 x2 == p[2]
                 x3 == p[3]
                 x4 == p[4]
                 x5 == p[5]
                 x6 == p[6]
      <2>1. /\ x1 \in Nat /\ x2 \in Nat /\ x3 \in Nat /\ x4 \in Nat /\ x5 \in Nat /\ x6 \in Nat
            /\ p = <<x1, x2, x3, x4, x5, x6>>
            BY SixAre
      <2>2. \A i \in 1 .. 6 : i \in {1, 2, 3, 4, 5, 6}
            OBVIOUS
      <2> HIDE DEF x1, x2, x3, x4, x5, x6
      <2>3. Len(p) = 6
            BY <2>1
      <2>4. \A i \in 1 .. 6 : p[i] \in Nat
            BY <2>1, <2>2
      <2>5. QED
            BY <2>3, <2>4
<1>2. move \in [Space \X (1 .. 6) -> Space]
      <2>1. ASSUME NEW x \in Space, NEW i \in 1 .. 6 PROVE up(x, i) \in Space
            BY <1>1, AllocTyped DEF Space
      <2> HIDE DEF up
      <2>2. QED
            BY <2>1
<1>3. PICK t : Walks(t, 6, Space, s, move)
      <2> HIDE DEF move
      <2>1. 6 \in Nat
            OBVIOUS
      <2>2. QED
            BY <1>2, <2>1, WalkExists
<1>4. t \in [0 .. 6 -> Space] /\ t[0] = s /\ \A i \in 1 .. 6 : t[i] = up(t[i - 1], i)
      <2>1. /\ t \in [0 .. 6 -> Space] /\ t[0] = s
            /\ \A i \in 1 .. 6 : t[i] = move[<<t[i - 1], i>>]
            BY <1>3 DEF Walks
      <2>2. ASSUME NEW i \in 1 .. 6 PROVE <<t[i - 1], i>> \in Space \X (1 .. 6)
            <3>1. i - 1 \in 0 .. 6
                  OBVIOUS
            <3>2. QED
                  BY <2>1, <3>1
      <2>3. \A a \in Space \X (1 .. 6) : move[a] = up(a[1], a[2])
            <3> HIDE DEF up
            <3>1. QED
                  OBVIOUS
      <2> HIDE DEF move, up
      <2>4. QED
            BY <2>1, <2>2, <2>3
<1>5. t = [i \in 0 .. 6 |-> next(t, i)]
      <2> HIDE DEF up
      <2>1. QED
            BY <1>4
<1> DEFINE c == CHOOSE u : u = [i \in 0 .. 6 |-> next(u, i)]
<1>6. c = [i \in 0 .. 6 |-> next(c, i)]
      <2> HIDE DEF next
      <2>1. \E u : u = [i \in 0 .. 6 |-> next(u, i)]
            BY <1>5
      <2>2. QED
            BY <2>1
<1>7. cut(s, p) = c[6]
      <2> DEFINE n == Len(p)
                 d == CHOOSE u : u = [i \in 0 .. n |-> next(u, i)]
      <2>1. cut(s, p) = d[n]
            BY DEF cut
      <2>2. n = 6
            BY <1>1
      <2> HIDE DEF n, next
      <2>3. QED
            BY <2>1, <2>2
<1> HIDE DEF c, up
<1>8. c[0] = s /\ \A i \in 1 .. 6 : c[i] = up(c[i - 1], i)
      BY <1>6
<1>9. QED
      BY <1>7, <1>8 DEF up

\* The scratch space that a user comes with.
fresh(limit) == scratch_create(limit)
room(limit) == scratch_max_allocation(fresh(limit), 6)

LEMMA FreshIs ==
    ASSUME NEW limit \in Nat
    PROVE  /\ fresh(limit) = [at |-> "open", max |-> limit, frames |-> <<>>]
           /\ fresh(limit) \in [at : {"open"}, max : Nat, frames : Seq(Frame)]
           /\ room(limit) \in Nat
<1>1. fresh(limit) = [at |-> "open", max |-> limit, frames |-> <<>>]
      BY DEF fresh, scratch_create
<1>2. <<>> \in Seq(Frame) /\ Len(<<>>) = 0
      OBVIOUS
<1>3. runningTotal(<<>>)[0] = 0
      <2>1. AddsUp(runningTotal(<<>>), <<>>, Len(<<>>))
            BY <1>2, RunningTotal
      <2>2. QED
            BY <1>2, <2>1 DEF AddsUp
<1>4. allocatedIn(fresh(limit)) = 0
      BY <1>1, <1>2, <1>3 DEF allocatedIn
<1> DEFINE left == (fresh(limit).max - allocatedIn(fresh(limit))) % SizeMax
<1>5. left \in Nat
      <2>1. limit - 0 \in Nat /\ SizeMax \in Nat \ {0}
            BY ScratchAssumption
      <2>2. (limit - 0) % SizeMax \in Nat
            BY <2>1
      <2>3. QED
            BY <1>1, <1>4, <2>2
<1>6. room(limit) = IF left <= 6 * Alignment THEN 0 ELSE left - 6 * Alignment
      BY DEF room, scratch_max_allocation
<1>7. 6 * Alignment \in Nat
      BY ScratchAssumption
<1> HIDE DEF left
<1>8. room(limit) \in Nat
      BY <1>5, <1>6, <1>7
<1>9. QED
      BY <1>1, <1>2, <1>8

\* Six pieces of no more bytes than their frame was made for are all cut, and
\* the space is as it was once the frame is given back.
LEMMA PiecesAreCut ==
    ASSUME NEW limit \in Nat, NEW n \in Nat, NEW p \in SixPieces, sixOf(p) <= n
    PROVE  LET full == cut(scratch_allocate_frame(fresh(limit), n, 6), p)
           IN /\ full.frames[Len(full.frames)].count = 6
              /\ scratch_deallocate_frame(full) = fresh(limit)
<1> DEFINE s == scratch_allocate_frame(fresh(limit), n, 6)
           new == newFrame(n, 6)
           full == cut(s, p)
           x1 == p[1]
           x2 == p[2]
           x3 == p[3]
           x4 == p[4]
           x5 == p[5]
           x6 == p[6]
<1>1. /\ x1 \in Nat /\ x2 \in Nat /\ x3 \in Nat /\ x4 \in Nat /\ x5 \in Nat /\ x6 \in Nat
      /\ p = <<x1, x2, x3, x4, x5, x6>>
      BY SixAre
<1> HIDE DEF x1, x2, x3, x4, x5, x6
<1>2. x1 + x2 + x3 + x4 + x5 + x6 <= n
      BY DEF sixOf, x1, x2, x3, x4, x5, x6
<1>3. new \in Frame /\ HasRoom(new) /\ new.n = n
      BY NewFrame
<1>4. new.objects = 6 /\ new.used = 0 /\ new.count = 0
      BY DEF newFrame
<1> HIDE DEF new
<1>5. s = [at |-> "open", max |-> limit, frames |-> <<new>>]
      <2>1. fresh(limit) = [at |-> "open", max |-> limit, frames |-> <<>>]
            BY FreshIs
      <2>2. Append(<<>>, new) = <<new>>
            BY <1>3
      <2>3. s = [fresh(limit) EXCEPT !.frames = Append(@, new)]
            BY DEF scratch_allocate_frame, new
      <2>4. QED
            BY <2>1, <2>2, <2>3
<1>6. s \in Space
      <2>1. <<new>> \in Seq(Frame)
            BY <1>3
      <2> HIDE DEF s
      <2>2. QED
            BY <1>5, <2>1 DEF Space
<1>7. CutSoFar(s, limit, n, 0, 0)
      BY <1>3, <1>4, <1>5 DEF CutSoFar
<1> HIDE DEF s
<1>8. PICK c : c[0] = s /\ (\A i \in 1 .. 6 : c[i] = scratch_alloc(c[i - 1], p[i])) /\ full = c[6]
      BY <1>6, CutUnfolds
<1>9. /\ c[1] = scratch_alloc(c[0], x1) /\ c[2] = scratch_alloc(c[1], x2)
      /\ c[3] = scratch_alloc(c[2], x3) /\ c[4] = scratch_alloc(c[3], x4)
      /\ c[5] = scratch_alloc(c[4], x5) /\ c[6] = scratch_alloc(c[5], x6)
      <2>1. \A i \in 1 .. 6 : c[i] = scratch_alloc(c[i - 1], p[i])
            BY <1>8
      <2>2. /\ c[1] = scratch_alloc(c[0], p[1]) /\ c[2] = scratch_alloc(c[1], p[2])
            /\ c[3] = scratch_alloc(c[2], p[3]) /\ c[4] = scratch_alloc(c[3], p[4])
            /\ c[5] = scratch_alloc(c[4], p[5]) /\ c[6] = scratch_alloc(c[5], p[6])
            BY <2>1
      <2>3. QED
            BY <2>2 DEF x1, x2, x3, x4, x5, x6
<1> HIDE DEF full
<1>10. CutSoFar(c[1], limit, n, x1, 1)
      <2>1. CutSoFar(scratch_alloc(s, x1), limit, n, 0 + x1, 0 + 1)
            <3>1. 0 \in Nat /\ 0 + x1 <= n /\ 0 < 6
                  BY <1>1, <1>2
            <3>2. QED
                  BY <1>7, <1>1, <3>1, OnePiece
      <2>2. 0 + x1 = x1 /\ 0 + 1 = 1
            BY <1>1
      <2>3. QED
            BY <1>8, <1>9, <2>1, <2>2
<1>11. CutSoFar(c[2], limit, n, x1 + x2, 2)
      <2>1. CutSoFar(scratch_alloc(c[1], x2), limit, n, x1 + x2, 1 + 1)
            <3>1. 1 \in Nat /\ x1 + x2 <= n /\ 1 < 6
                  BY <1>1, <1>2
            <3>2. QED
                  BY <1>10, <1>1, <3>1, OnePiece
      <2>2. QED
            BY <1>9, <2>1
<1>12. CutSoFar(c[3], limit, n, x1 + x2 + x3, 3)
      <2>1. CutSoFar(scratch_alloc(c[2], x3), limit, n, x1 + x2 + x3, 2 + 1)
            <3>1. 2 \in Nat /\ x1 + x2 \in Nat /\ x1 + x2 + x3 <= n /\ 2 < 6
                  BY <1>1, <1>2
            <3>2. QED
                  BY <1>11, <1>1, <3>1, OnePiece
      <2>2. QED
            BY <1>9, <2>1
<1>13. CutSoFar(c[4], limit, n, x1 + x2 + x3 + x4, 4)
      <2>1. CutSoFar(scratch_alloc(c[3], x4), limit, n, x1 + x2 + x3 + x4, 3 + 1)
            <3>1. 3 \in Nat /\ x1 + x2 + x3 \in Nat /\ x1 + x2 + x3 + x4 <= n /\ 3 < 6
                  BY <1>1, <1>2
            <3>2. QED
                  BY <1>12, <1>1, <3>1, OnePiece
      <2>2. QED
            BY <1>9, <2>1
<1>14. CutSoFar(c[5], limit, n, x1 + x2 + x3 + x4 + x5, 5)
      <2>1. CutSoFar(scratch_alloc(c[4], x5), limit, n, x1 + x2 + x3 + x4 + x5, 4 + 1)
            <3>1. 4 \in Nat /\ x1 + x2 + x3 + x4 \in Nat /\ x1 + x2 + x3 + x4 + x5 <= n /\ 4 < 6
                  BY <1>1, <1>2
            <3>2. QED
                  BY <1>13, <1>1, <3>1, OnePiece
      <2>2. QED
            BY <1>9, <2>1
<1>15. CutSoFar(full, limit, n, x1 + x2 + x3 + x4 + x5 + x6, 6)
      <2>1. CutSoFar(scratch_alloc(c[5], x6), limit, n, x1 + x2 + x3 + x4 + x5 + x6, 5 + 1)
            <3>1. 5 \in Nat /\ x1 + x2 + x3 + x4 + x5 \in Nat /\ x1 + x2 + x3 + x4 + x5 + x6 <= n /\ 5 < 6
                  BY <1>1, <1>2
            <3>2. QED
                  BY <1>14, <1>1, <3>1, OnePiece
      <2>2. QED
            BY <1>8, <1>9, <2>1
<1>16. PICK f \in Frame : full = [at |-> "open", max |-> limit, frames |-> <<f>>] /\ f.count = 6
      BY <1>15 DEF CutSoFar
<1>17. full.frames[Len(full.frames)].count = 6
      BY <1>16
<1>18. scratch_deallocate_frame(full) = fresh(limit)
      <2>1. SubSeq(<<f>>, 1, Len(<<f>>) - 1) = <<>>
            <3>1. Len(<<f>>) - 1 = 0
                  OBVIOUS
            <3>2. SubSeq(<<f>>, 1, 0) = <<>>
                  OBVIOUS
            <3>3. QED
                  BY <3>1, <3>2
      <2>2. scratch_deallocate_frame(full) = [at |-> "open", max |-> limit, frames |-> <<>>]
            BY <1>16, <2>1 DEF scratch_deallocate_frame
      <2>3. QED
            BY <2>2, FreshIs
<1>19. QED
      BY <1>17, <1>18 DEF full, s

-------------------------------------------------------------------------------
(* Batches: what a sum of products does to its scratch space.              *)

MultiJob == [endo : BOOLEAN, points : Seq(Nat), scalars : Seq(Nat), ng : Int, limit : Nat, failAt : Nat]

\* The frame of a batch of n points.
frameOf(endo, pippenger, n) ==
    IF pippenger THEN pippenger_scratch_size(endo, n, pippenger_bucket_window(endo, n))
    ELSE strauss_scratch_size(endo, n)

\* b is how a batch of n points ends that has all the memory it wants.
EndsWell(b, job, from, n) ==
    /\ b.s = fresh(job.limit) /\ b.null = FALSE
    /\ b.ok = (job.failAt \notin from .. from + n - 1)

\* A batch whose frame fits gives it back, misses no piece, and fails only by
\* its callback.
LEMMA BatchIs ==
    ASSUME NEW job \in MultiJob, NEW pippenger \in BOOLEAN, NEW from \in Nat, NEW n \in Nat \ {0}, NEW ng,
           frameOf(job.endo, pippenger, n) <= room(job.limit)
    PROVE  EndsWell(batchIn(job, fresh(job.limit), pippenger, pippenger_bucket_window(job.endo, n), from, n, ng),
                    job, from, n)
<1> DEFINE s == fresh(job.limit)
           w == pippenger_bucket_window(job.endo, n)
           ok == job.failAt \notin from .. from + n - 1
           size == IF pippenger THEN pippenger_scratch_size(job.endo, n, w) ELSE strauss_scratch_size(job.endo, n)
           pieces == IF pippenger THEN pippengerPieces(job.endo, n, w) ELSE straussPieces(job.endo, n)
           sum == batchSum(job, pippenger, w, from, n, ng)
           full == cut(scratch_allocate_frame(s, size, 6), pieces)
           b == batchIn(job, s, pippenger, w, from, n, ng)
<1>1. job.endo \in BOOLEAN /\ job.limit \in Nat /\ n \in Nat /\ n # 0
      BY DEF MultiJob
<1>2. w \in Nat \ {0}
      <2>1. w \in 1 .. 12
            BY <1>1, WindowIs
      <2> HIDE DEF w
      <2>2. QED
            BY <2>1
<1>3. size \in Nat /\ pieces \in SixPieces /\ sixOf(pieces) <= size
      <2> HIDE DEF w
      <2>1. CASE pippenger
            <3>1. /\ pippengerPieces(job.endo, n, w) \in SixPieces
                  /\ pippenger_scratch_size(job.endo, n, w) \in Nat
                  /\ sixOf(pippengerPieces(job.endo, n, w)) <= pippenger_scratch_size(job.endo, n, w)
                  BY <1>1, <1>2, PippengerPiecesFit
            <3>2. QED
                  BY <2>1, <3>1
      <2>2. CASE ~pippenger
            <3>1. /\ straussPieces(job.endo, n) \in SixPieces
                  /\ strauss_scratch_size(job.endo, n) \in Nat
                  /\ sixOf(straussPieces(job.endo, n)) = strauss_scratch_size(job.endo, n)
                  BY <1>1, StraussPiecesFit
            <3>2. QED
                  BY <2>2, <3>1
      <2>3. QED
            BY <2>1, <2>2
<1>4. frameFits(s, size, 6)
      BY DEF frameFits, frameOf, room
<1>5. b = IF frameFits(s, size, 6) THEN cutAndReleased(ok, pieces, full, sum)
          ELSE [ok |-> FALSE, null |-> FALSE, s |-> s, sum |-> GejInfinity]
      <2>1. ~(n = 0 /\ ng = NoScalar)
            BY <1>1
      <2>2. b = framedBatch(ok, s, size, pieces, sum)
            BY <2>1, Zenon DEF batchIn
      <2> HIDE DEF b, ok, s, size, pieces, sum
      <2>3. QED
            BY <2>2, Zenon DEF framedBatch, full
<1>6. full.frames[Len(full.frames)].count = 6 /\ scratch_deallocate_frame(full) = s
      <2> HIDE DEF size, pieces
      <2>1. QED
            BY <1>1, <1>3, PiecesAreCut
<1>7. Len(pieces) = 6
      <2> HIDE DEF pieces
      <2> DEFINE x1 == pieces[1]
                 x2 == pieces[2]
                 x3 == pieces[3]
                 x4 == pieces[4]
                 x5 == pieces[5]
                 x6 == pieces[6]
      <2>1. /\ x1 \in Nat /\ x2 \in Nat /\ x3 \in Nat /\ x4 \in Nat /\ x5 \in Nat /\ x6 \in Nat
            /\ pieces = <<x1, x2, x3, x4, x5, x6>>
            BY <1>3, SixAre
      <2> HIDE DEF x1, x2, x3, x4, x5, x6
      <2>2. QED
            BY <2>1
<1>8. b = [ok |-> ok, null |-> full.frames[Len(full.frames)].count < Len(pieces),
           s |-> scratch_deallocate_frame(full), sum |-> sum]
      <2> HIDE DEF b, ok, s, size, pieces, sum, full
      <2>1. QED
            BY <1>4, <1>5, Zenon DEF cutAndReleased
<1>9. b = [ok |-> ok, null |-> FALSE, s |-> s, sum |-> sum]
      <2> HIDE DEF b, ok, s, size, pieces, sum, full
      <2>1. (full.frames[Len(full.frames)].count < Len(pieces)) = FALSE
            BY <1>6, <1>7
      <2>2. QED
            BY <1>6, <1>8, <2>1
<1>10. b.s = s /\ b.null = FALSE /\ b.ok = ok
      <2> HIDE DEF b, ok, s, size, pieces, sum, full
      <2>1. QED
            BY <1>9
<1>11. QED
      <2> HIDE DEF b, ok, s, size, pieces, sum, full
      <2>1. EndsWell(b, job, from, n)
            BY <1>10 DEF EndsWell, ok, s
      <2>2. QED
            BY <2>1 DEF b, s, w

\* The plan of a sum: as many points a batch as both the algorithm and the
\* batches of equal length allow.
Plannable(job, pippenger, per) ==
    /\ per \in Nat \ {0}
    /\ \A n \in 1 .. per : frameOf(job.endo, pippenger, n) <= room(job.limit)

LEMMA PippengerPlan ==
    ASSUME NEW job \in MultiJob, NEW n \in Nat \ {0}, NEW most \in Nat \ {0},
           most <= pippenger_max_points(job.endo, fresh(job.limit))
    PROVE  Plannable(job, TRUE, perBatch(n, most))
<1>1. job.endo \in BOOLEAN /\ job.limit \in Nat
      BY DEF MultiJob
<1>2. perBatch(n, most) \in Nat /\ 1 <= perBatch(n, most) /\ perBatch(n, most) <= most
      BY PerBatchIs
<1>3. room(job.limit) \in Nat
      BY <1>1, FreshIs
<1>4. pippenger_max_points(job.endo, fresh(job.limit)) = pointsUpTo(job.endo, room(job.limit))[12]
      BY DEF pippenger_max_points, room
<1> DEFINE allowed == pointsUpTo(job.endo, room(job.limit))[12]
<1>5. most <= allowed
      BY <1>4
<1>6. ASSUME NEW k \in 1 .. perBatch(n, most) PROVE frameOf(job.endo, TRUE, k) <= room(job.limit)
      <2>1. k \in Nat \ {0} /\ k <= most
            BY <1>2
      <2>2. k <= allowed
            <3>1. allowed \in Nat
                  BY <1>1, <1>3, PointsTyped
            <3> HIDE DEF allowed
            <3>2. QED
                  BY <1>5, <2>1, <3>1
      <2>3. pippenger_scratch_size(job.endo, k, pippenger_bucket_window(job.endo, k)) <= room(job.limit)
            BY <1>1, <1>3, <2>1, <2>2, PippengerFits
      <2>4. QED
            BY <2>3 DEF frameOf
<1>7. QED
      <2> DEFINE per == perBatch(n, most)
      <2>1. per \in Nat \ {0}
            BY <1>2
      <2>2. \A k \in 1 .. per : frameOf(job.endo, TRUE, k) <= room(job.limit)
            BY <1>6
      <2> HIDE DEF per
      <2>3. Plannable(job, TRUE, per)
            BY <2>1, <2>2, Zenon DEF Plannable
      <2>4. QED
            BY <2>3 DEF per

LEMMA StraussPlan ==
    ASSUME NEW job \in MultiJob, NEW n \in Nat \ {0},
           strauss_max_points(job.endo, fresh(job.limit)) # 0
    PROVE  Plannable(job, FALSE, perBatch(n, strauss_max_points(job.endo, fresh(job.limit))))
<1> DEFINE most == strauss_max_points(job.endo, fresh(job.limit))
           one == strauss_scratch_size(job.endo, 1)
<1>1. job.endo \in BOOLEAN /\ job.limit \in Nat
      BY DEF MultiJob
<1>2. room(job.limit) \in Nat
      BY <1>1, FreshIs
<1>3. one \in Nat \ {0}
      BY <1>1, StraussPiecesFit
<1>4. most = room(job.limit) \div one
      BY DEF strauss_max_points, room
<1> HIDE DEF most, one
<1>5. most \in Nat \ {0}
      <2>1. most \in Nat
            BY <1>2, <1>3, <1>4, QuotientIs
      <2>2. QED
            BY <2>1 DEF most
<1>6. perBatch(n, most) \in Nat /\ 1 <= perBatch(n, most) /\ perBatch(n, most) <= most
      BY <1>5, PerBatchIs
<1>7. ASSUME NEW k \in 1 .. perBatch(n, most) PROVE frameOf(job.endo, FALSE, k) <= room(job.limit)
      <2>1. k \in Nat /\ k <= most
            BY <1>5, <1>6
      <2>2. k * one <= room(job.limit)
            BY <1>2, <1>3, <1>4, <2>1, QuotientFits
      <2>3. strauss_scratch_size(job.endo, k) = k * one
            BY <1>1, <2>1, StraussPiecesFit DEF one
      <2>4. QED
            BY <2>2, <2>3 DEF frameOf
<1>8. QED
      <2> DEFINE per == perBatch(n, most)
      <2>1. per \in Nat \ {0}
            BY <1>6
      <2>2. \A k \in 1 .. per : frameOf(job.endo, FALSE, k) <= room(job.limit)
            BY <1>7
      <2> HIDE DEF per
      <2>3. Plannable(job, FALSE, per)
            BY <2>1, <2>2, Zenon DEF Plannable
      <2>4. QED
            BY <2>3 DEF per, most

\* The inductive invariant: on its way a sum has its scratch space as it came,
\* has points left, and a plan whose batches all fit.
OnItsWay ==
    /\ curve \in [at : {"multi", "product", "failed"}, job : MultiJob, s : {curve.s}, done : Nat, null : {FALSE},
                  pippenger : BOOLEAN, per : Nat, r : {curve.r}]
    /\ curve.s = fresh(curve.job.limit)
    /\ curve.at = "failed" => curve.job.failAt \in 1 .. Len(curve.job.points) \/ curve.done = 0
    /\ curve.at = "multi" =>
          /\ curve.done < Len(curve.job.points)
          /\ curve.job.limit > 0 => Plannable(curve.job, curve.pippenger, curve.per)
CurveInv ==
    \/ OnItsWay
    \/ curve.at \in {"idle", "walk", "mapped"}
    \/ \E c : curve = [at |-> "gen", ctx |-> c]

CurveSpec == curve = CurveIdle /\ [][CurveNext]_curve

LEMMA PlanStep ==
    ASSUME NEW job \in MultiJob, NEW pippenger \in BOOLEAN, NEW most \in Nat,
           job.limit > 0 /\ Len(job.points) # 0 /\ most # 0 =>
               Plannable(job, pippenger, perBatch(Len(job.points), most)),
           curve' = planAs(job, fresh(job.limit), Len(job.points), pippenger, most)
    PROVE  OnItsWay'
<1> DEFINE n == Len(job.points)
           per == perBatch(n, most)
           at == IF n = 0 THEN "product" ELSE IF job.limit > 0 /\ most = 0 THEN "failed" ELSE "multi"
           r == IF n > 0 \/ job.ng = NoScalar THEN GejInfinity ELSE ecmult_product(job.endo, GejInfinity, 0, job.ng)
<1>1. n \in Nat /\ job.limit \in Nat
      BY DEF MultiJob
<1>2. per \in Nat
      <2> HIDE DEF n
      <2>1. CASE n = 0 \/ most = 0
            BY <2>1 DEF perBatch
      <2>2. CASE ~(n = 0 \/ most = 0)
            BY <1>1, <2>2, PerBatchIs
      <2>3. QED
            BY <2>1, <2>2
<1>3. curve' = [at |-> at, job |-> job, s |-> fresh(job.limit), done |-> 0, null |-> FALSE,
                pippenger |-> pippenger, per |-> per, r |-> r]
      BY Zenon DEF planAs
<1>4. at \in {"multi", "product", "failed"}
      OBVIOUS
<1>5. at = "multi" => n # 0 /\ (job.limit > 0 => most # 0)
      BY <1>1
<1> HIDE DEF at, n, per, r
<1>6. /\ curve'.at = at /\ curve'.job = job /\ curve'.s = fresh(job.limit) /\ curve'.done = 0
      /\ curve'.null = FALSE /\ curve'.pippenger = pippenger /\ curve'.per = per /\ curve'.r = r
      BY <1>3
<1>7. curve' \in [at : {"multi", "product", "failed"}, job : MultiJob, s : {curve'.s}, done : Nat, null : {FALSE},
                  pippenger : BOOLEAN, per : Nat, r : {curve'.r}]
      BY <1>2, <1>3, <1>4, <1>6
<1>8. curve'.at = "multi" => /\ curve'.done < Len(curve'.job.points)
                             /\ curve'.job.limit > 0 => Plannable(curve'.job, curve'.pippenger, curve'.per)
      <2>1. SUFFICES ASSUME at = "multi"
                     PROVE  0 < n /\ (job.limit > 0 => Plannable(job, pippenger, per))
            BY <1>6 DEF n
      <2>2. 0 < n
            BY <1>1, <1>5, <2>1
      <2>3. job.limit > 0 => Plannable(job, pippenger, per)
            BY <1>5, <2>1 DEF n, per
      <2>4. QED
            BY <2>2, <2>3
<1>9. QED
      BY <1>6, <1>7, <1>8 DEF OnItsWay

LEMMA BeginsMulti ==
    ASSUME NEW job \in MultiJob, MultiBegin(job)
    PROVE  OnItsWay'
<1> DEFINE s == fresh(job.limit)
           n == Len(job.points)
           mostP == lesser(pippenger_max_points(job.endo, s), ECMULT_MAX_POINTS_PER_BATCH(job.endo))
           pippenger == perBatch(n, mostP) >= PippengerThreshold
           most == IF mostP = 0 \/ pippenger THEN mostP ELSE strauss_max_points(job.endo, s)
<1>1. job.endo \in BOOLEAN /\ job.limit \in Nat /\ n \in Nat
      BY DEF MultiJob
<1>2. curve' = planAs(job, s, n, pippenger, most)
      BY Zenon DEF MultiBegin, planned, planFor, fresh
<1>3. room(job.limit) \in Nat
      BY <1>1, FreshIs
<1>4. mostP \in Nat /\ mostP <= pippenger_max_points(job.endo, s)
      <2> DEFINE p == pippenger_max_points(job.endo, s)
                 cap == ECMULT_MAX_POINTS_PER_BATCH(job.endo)
      <2>1. p = pointsUpTo(job.endo, room(job.limit))[12]
            BY DEF pippenger_max_points, room
      <2>2. p \in Nat
            BY <1>1, <1>3, <2>1, PointsTyped
      <2>3. cap \in Nat
            BY DEF ECMULT_MAX_POINTS_PER_BATCH
      <2> HIDE DEF p, cap
      <2>4. QED
            BY <2>2, <2>3 DEF lesser, p, cap
<1> HIDE DEF mostP
<1>5. strauss_max_points(job.endo, s) \in Nat
      <2> DEFINE one == strauss_scratch_size(job.endo, 1)
      <2>1. one \in Nat \ {0}
            BY <1>1, StraussPiecesFit
      <2>2. strauss_max_points(job.endo, s) = room(job.limit) \div one
            BY DEF strauss_max_points, room
      <2> HIDE DEF one
      <2>3. QED
            BY <1>3, <2>1, <2>2, QuotientIs
<1>6. pippenger \in BOOLEAN /\ most \in Nat
      BY <1>4, <1>5
<1>7. n # 0 /\ most # 0 => Plannable(job, pippenger, perBatch(n, most))
      <2>1. SUFFICES ASSUME n # 0, most # 0 PROVE Plannable(job, pippenger, perBatch(n, most))
            OBVIOUS
      <2>2. mostP # 0 /\ mostP \in Nat \ {0} /\ n \in Nat \ {0}
            BY <1>1, <1>4, <2>1
      <2>3. CASE pippenger
            <3>1. most = mostP /\ pippenger = TRUE
                  BY <2>3
            <3>2. Plannable(job, TRUE, perBatch(n, mostP))
                  BY <1>4, <2>2, PippengerPlan
            <3> HIDE DEF pippenger, most
            <3>3. QED
                  BY <3>1, <3>2
      <2>4. CASE ~pippenger
            <3>1. most = strauss_max_points(job.endo, s) /\ pippenger = FALSE
                  BY <2>2, <2>4
            <3>2. strauss_max_points(job.endo, s) # 0
                  BY <2>1, <3>1
            <3>3. Plannable(job, FALSE, perBatch(n, strauss_max_points(job.endo, s)))
                  BY <2>2, <3>2, StraussPlan
            <3> HIDE DEF pippenger, most
            <3>4. QED
                  BY <3>1, <3>3
      <2>5. QED
            BY <2>3, <2>4
<1>8. QED
      <2> HIDE DEF pippenger, most
      <2>1. QED
            BY <1>2, <1>6, <1>7, PlanStep

LEMMA AfterBatchStep ==
    ASSUME OnItsWay, curve.at = "multi", curve.job.limit > 0,
           NEW b, NEW to \in Nat, curve' = afterBatch(b, to),
           b.s = fresh(curve.job.limit), b.null = FALSE, b.ok \in BOOLEAN,
           to <= Len(curve.job.points),
           b.ok \/ curve.job.failAt \in 1 .. Len(curve.job.points)
    PROVE  OnItsWay'
<1> DEFINE at == IF ~b.ok THEN "failed" ELSE IF to = Len(curve.job.points) THEN "product" ELSE "multi"
           r == IF b.ok THEN gej_add_var(curve.r, b.sum) ELSE curve.r
<1>1. curve \in [at : {"multi", "product", "failed"}, job : MultiJob, s : {curve.s}, done : Nat, null : {FALSE},
                 pippenger : BOOLEAN, per : Nat, r : {curve.r}]
      BY DEF OnItsWay
<1>2. curve' = [curve EXCEPT !.s = b.s, !.null = curve.null \/ b.null, !.done = to, !.r = r, !.at = at]
      BY <1>1 DEF afterBatch
<1>3. at \in {"multi", "product", "failed"} /\ (at = "failed" => ~b.ok) /\ (at = "multi" => to # Len(curve.job.points))
      OBVIOUS
<1>4. (curve.null \/ b.null) = FALSE
      BY <1>1
<1> HIDE DEF at, r
<1>5. curve' = [curve EXCEPT !.s = b.s, !.null = FALSE, !.done = to, !.r = r, !.at = at]
      BY <1>2, <1>4
<1>6. /\ curve'.at = at /\ curve'.job = curve.job /\ curve'.s = b.s /\ curve'.done = to
      /\ curve'.null = FALSE /\ curve'.pippenger = curve.pippenger /\ curve'.per = curve.per /\ curve'.r = r
      BY <1>1, <1>5
<1>7. curve' \in [at : {"multi", "product", "failed"}, job : MultiJob, s : {curve'.s}, done : Nat, null : {FALSE},
                  pippenger : BOOLEAN, per : Nat, r : {curve'.r}]
      BY <1>1, <1>3, <1>5, <1>6
<1>8. curve.job.limit > 0 => Plannable(curve.job, curve.pippenger, curve.per)
      BY DEF OnItsWay
<1>9. at = "multi" => to < Len(curve.job.points)
      <2>1. Len(curve.job.points) \in Nat
            BY <1>1 DEF MultiJob
      <2>2. QED
            BY <1>3, <2>1
<1>10. QED
      BY <1>3, <1>6, <1>7, <1>8, <1>9 DEF OnItsWay

LEMMA BatchStep ==
    ASSUME OnItsWay, MultiBatch
    PROVE  OnItsWay'
<1> DEFINE job == curve.job
           n == Len(job.points)
           to == lesser(n, curve.done + curve.per)
           m == to - (curve.done + 1) + 1
           ng == IF curve.done = 0 THEN job.ng ELSE NoScalar
           b == batch(job, curve.s, curve.pippenger, curve.done + 1, to, ng)
<1>1. /\ curve.at = "multi" /\ job.limit > 0 /\ curve' = afterBatch(b, to)
      BY Zenon DEF MultiBatch
<1>2. /\ job \in MultiJob /\ curve.done \in Nat /\ curve.pippenger \in BOOLEAN
      /\ curve.s = fresh(job.limit) /\ curve.done < n /\ Plannable(job, curve.pippenger, curve.per)
      BY <1>1 DEF OnItsWay
<1>3. n \in Nat /\ job.failAt \in Nat
      BY <1>2 DEF MultiJob
<1>4. curve.per \in Nat \ {0} /\ \A k \in 1 .. curve.per : frameOf(job.endo, curve.pippenger, k) <= room(job.limit)
      BY <1>2 DEF Plannable
<1> HIDE DEF job, n
<1>5. to \in Nat /\ to <= n /\ to <= curve.done + curve.per /\ curve.done < to
      BY <1>2, <1>3, <1>4 DEF lesser
<1> HIDE DEF to
<1>6. m \in Nat \ {0} /\ m \in 1 .. curve.per /\ curve.done + 1 \in Nat /\ m = to - curve.done
      BY <1>2, <1>4, <1>5
<1>7. b = batchIn(job, fresh(job.limit), curve.pippenger, pippenger_bucket_window(job.endo, m), curve.done + 1, m, ng)
      BY <1>2, Zenon DEF batch
<1> HIDE DEF m, ng, b
<1>8. /\ b.s = fresh(job.limit) /\ b.null = FALSE
      /\ b.ok = (job.failAt \notin curve.done + 1 .. curve.done + 1 + m - 1)
      <2>1. frameOf(job.endo, curve.pippenger, m) <= room(job.limit)
            BY <1>4, <1>6
      <2> DEFINE from == curve.done + 1
                 pippenger == curve.pippenger
      <2>2. from \in Nat /\ pippenger \in BOOLEAN /\ frameOf(job.endo, pippenger, m) <= room(job.limit)
            BY <1>2, <1>6, <2>1
      <2> HIDE DEF from, pippenger
      <2> DEFINE c == batchIn(job, fresh(job.limit), pippenger, pippenger_bucket_window(job.endo, m), from, m, ng)
      <2>3. EndsWell(c, job, from, m)
            <3>1. job \in MultiJob /\ m \in Nat \ {0}
                  BY <1>2, <1>6
            <3>2. QED
                  BY <2>2, <3>1, BatchIs, Zenon
      <2>4. b = c
            BY <1>7 DEF from, pippenger
      <2> HIDE DEF c
      <2>5. QED
            BY <2>3, <2>4 DEF from, EndsWell
<1>9. b.ok \in BOOLEAN /\ (b.ok \/ job.failAt \in 1 .. n)
      <2>1. \A i \in curve.done + 1 .. curve.done + 1 + m - 1 : i \in 1 .. n
            BY <1>2, <1>3, <1>5, <1>6
      <2> DEFINE those == curve.done + 1 .. curve.done + 1 + m - 1
      <2>2. \A i \in those : i \in 1 .. n
            BY <2>1
      <2>3. b.ok = (job.failAt \notin those)
            BY <1>8
      <2> HIDE DEF those
      <2>4. QED
            BY <2>2, <2>3
<1>10. QED
      BY <1>1, <1>5, <1>8, <1>9, AfterBatchStep DEF job, n

LEMMA SimpleStep ==
    ASSUME OnItsWay, ecmult_multi_var_simple
    PROVE  OnItsWay'
<1>1. curve \in [at : {"multi", "product", "failed"}, job : MultiJob, s : {curve.s}, done : Nat, null : {FALSE},
                 pippenger : BOOLEAN, per : Nat, r : {curve.r}]
      BY DEF OnItsWay
<1>2. \/ /\ curve' = [curve EXCEPT !.at = "failed"] /\ curve.job.failAt \in 1 .. Len(curve.job.points)
      \/ \E r : curve' = [curve EXCEPT !.at = "product", !.r = r]
      BY Zenon DEF ecmult_multi_var_simple
<1>3. CASE curve' = [curve EXCEPT !.at = "failed"] /\ curve.job.failAt \in 1 .. Len(curve.job.points)
      <2>1. /\ curve'.at = "failed" /\ curve'.job = curve.job /\ curve'.s = curve.s /\ curve'.done = curve.done
            /\ curve' \in [at : {"multi", "product", "failed"}, job : MultiJob, s : {curve'.s}, done : Nat,
                           null : {FALSE}, pippenger : BOOLEAN, per : Nat, r : {curve'.r}]
            BY <1>1, <1>3
      <2>2. QED
            BY <1>3, <2>1 DEF OnItsWay
<1>4. ASSUME NEW r, curve' = [curve EXCEPT !.at = "product", !.r = r] PROVE OnItsWay'
      <2>1. /\ curve'.at = "product" /\ curve'.job = curve.job /\ curve'.s = curve.s /\ curve'.done = curve.done
            /\ curve' \in [at : {"multi", "product", "failed"}, job : MultiJob, s : {curve'.s}, done : Nat,
                           null : {FALSE}, pippenger : BOOLEAN, per : Nat, r : {curve'.r}]
            BY <1>1, <1>4
      <2>2. QED
            BY <2>1 DEF OnItsWay
<1>5. QED
      BY <1>2, <1>3, <1>4

\* Every step keeps the invariant.
LEMMA CurveStep ==
    ASSUME CurveInv, [CurveNext]_curve
    PROVE  CurveInv'
<1>1. \A c, k, z : \/ WalkAdd(k, z) \/ WalkAddZinv(k, z) \/ WalkAddAffine(k) \/ WalkAddConst(k) \/ WalkDouble
                   \/ WalkTurn \/ WalkBegin
                   => curve'.at = "walk"
      BY DEF WalkAdd, WalkAddZinv, WalkAddAffine, WalkAddConst, WalkDouble, WalkTurn, WalkBegin, step
<1>2. ASSUME NEW blind, NEW t1, NEW t2, GenerateGenerator(blind, t1, t2) PROVE CurveInv'
      <2>1. \E g : curve' = [at |-> "mapped", blind |-> blind, ts |-> <<t1, t2>>, gen |-> g]
            BY <1>2, Zenon DEF GenerateGenerator
      <2>2. QED
            BY <2>1 DEF CurveInv
<1>3. ASSUME GenContext PROVE CurveInv'
      <2>1. \E c : curve' = [at |-> "gen", ctx |-> c]
            BY <1>3, Zenon DEF GenContext
      <2>2. QED
            BY <2>1 DEF CurveInv
<1>4. ASSUME NEW seed, ContextRandomize(seed) PROVE CurveInv'
      <2>1. curve.at = "gen" /\ \E d : curve' = [curve EXCEPT !.ctx = d]
            BY <1>4, Zenon DEF ContextRandomize
      <2>2. PICK c : curve = [at |-> "gen", ctx |-> c]
            BY <2>1 DEF CurveInv, OnItsWay
      <2>3. \E d : curve' = [at |-> "gen", ctx |-> d]
            BY <2>1, <2>2
      <2>4. QED
            BY <2>3 DEF CurveInv
<1>5. ASSUME NEW job \in MultiJobs, MultiBegin(job) PROVE CurveInv'
      <2>1. job \in MultiJob
            BY EcMultAssumption DEF MultiJob
      <2>2. QED
            BY <1>5, <2>1, BeginsMulti DEF CurveInv
<1>6. curve.at = "multi" => OnItsWay
      BY DEF CurveInv
<1>7. ASSUME MultiBatch \/ ecmult_multi_var_simple PROVE CurveInv'
      <2>1. curve.at = "multi"
            BY <1>7, Zenon DEF MultiBatch, ecmult_multi_var_simple
      <2>2. OnItsWay
            BY <1>6, <2>1
      <2>3. QED
            BY <1>7, <2>2, BatchStep, SimpleStep DEF CurveInv
<1>8. CASE UNCHANGED curve
      BY <1>8 DEF CurveInv, OnItsWay
<1>9. curve'.at = "walk" => CurveInv'
      BY DEF CurveInv
<1>10. QED
      BY <1>1, <1>2, <1>3, <1>4, <1>5, <1>7, <1>8, <1>9, Zenon DEF CurveNext

\* However many points a sum has, whatever the limit of its scratch space and
\* wherever its callback stops it: the scratch space is given back, no batch
\* runs out of memory on the way, and a sum fails only at its callback or before
\* its first batch.
THEOREM BatchesKept == CurveSpec => []BatchesReturnTheirScratch
<1>1. curve = CurveIdle => CurveInv
      BY DEF CurveIdle, CurveInv
<1>2. CurveInv => BatchesReturnTheirScratch
      <2> SUFFICES ASSUME CurveInv, curve.at \in {"multi", "product", "failed"} PROVE BatchesReturnTheirScratch
          BY DEF BatchesReturnTheirScratch
      <2>1. OnItsWay
            BY DEF CurveInv
      <2>2. curve.job.limit \in Nat /\ curve.null = FALSE
            BY <2>1 DEF OnItsWay, MultiJob
      <2>3. curve.s.frames = <<>>
            BY <2>1, <2>2, FreshIs DEF OnItsWay
      <2>4. QED
            BY <2>1, <2>2, <2>3 DEF OnItsWay, BatchesReturnTheirScratch
<1>3. QED
      BY <1>1, <1>2, CurveStep, PTL DEF CurveSpec
-------------------------------------------------------------------------------
(* Scalars are a commutative ring under SAdd and SMul.                     *)

\* In a product a number counts for what is left of it.
LEMMA FactorRest ==
    ASSUME NEW a \in Nat, NEW x \in Nat
    PROVE  (a * (x % Order)) % Order = (a * x) % Order
<1>1. Order \in Nat /\ Order > 2
      BY GroupAssumption
<1> DEFINE q == x \div Order
           m == x % Order
<1>2. q \in Int /\ m \in Nat /\ x = Order * q + m
      <2>1. q \in Int /\ m \in Int /\ m >= 0
            BY <1>1
      <2>2. x = Order * q + m
            BY <1>1
      <2>3. QED
            BY <2>1, <2>2
<1> HIDE DEF q, m
<1> DEFINE s == (a * m) \div Order
           r == (a * m) % Order
<1>3. a * m \in Nat
      BY <1>2
<1>4. s \in Int /\ r \in Scalar /\ a * m = Order * s + r
      <2> DEFINE y == a * m
      <2>1. y \in Nat
            BY <1>3
      <2> HIDE DEF y
      <2>2. y \div Order \in Int /\ y % Order \in Scalar
            BY <1>1, <2>1 DEF Scalar
      <2>3. y = Order * (y \div Order) + (y % Order)
            BY <1>1, <2>1
      <2>4. QED
            BY <2>2, <2>3 DEF y
<1> HIDE DEF s, r
<1>5. a * x = Order * (a * q + s) + r
      <2>1. a * x = a * (Order * q) + a * m
            BY <1>1, <1>2
      <2>2. a * (Order * q) = Order * (a * q)
            BY <1>1, <1>2
      <2>3. Order * (a * q + s) = Order * (a * q) + Order * s
            BY <1>1, <1>2, <1>4
      <2>4. a * q \in Int /\ Order * (a * q) \in Int /\ Order * s \in Int /\ r \in Int
            BY <1>1, <1>2, <1>4 DEF Scalar
      <2>5. QED
            BY <1>4, <2>1, <2>2, <2>3, <2>4
<1>6. (a * x) % Order = r
      <2>1. a * x \in Int /\ a * q + s \in Int
            BY <1>2, <1>4
      <2>2. QED
            BY <1>4, <1>5, <2>1, RestIs
<1>7. QED
      BY <1>6 DEF m, r

LEMMA SMulCommutes == \A a, b \in Scalar : SMul(a, b) = SMul(b, a)
<1>1. ASSUME NEW a \in Scalar, NEW b \in Scalar PROVE SMul(a, b) = SMul(b, a)
      <2>1. a * b = b * a
            BY ZeroAndOne
      <2>2. QED
            BY <2>1 DEF SMul
<1>2. QED
      BY <1>1

LEMMA SMulAssociates == \A a, b, c \in Scalar : SMul(SMul(a, b), c) = SMul(a, SMul(b, c))
<1>1. ASSUME NEW a \in Scalar, NEW b \in Scalar, NEW c \in Scalar
      PROVE  SMul(SMul(a, b), c) = SMul(a, SMul(b, c))
      <2>1. a \in Nat /\ b \in Nat /\ c \in Nat /\ a * b \in Nat /\ b * c \in Nat
            BY ZeroAndOne
      <2>2. SMul(a, SMul(b, c)) = (a * (b * c)) % Order
            BY <2>1, FactorRest DEF SMul
      <2>3. SMul(SMul(a, b), c) = SMul(c, SMul(a, b))
            BY SMulCommutes, SMulIs
      <2>4. SMul(c, SMul(a, b)) = (c * (a * b)) % Order
            BY <2>1, FactorRest DEF SMul
      <2>5. c * (a * b) = a * (b * c)
            BY <2>1
      <2>6. QED
            BY <2>2, <2>3, <2>4, <2>5
<1>2. QED
      BY <1>1

LEMMA SMulDistributes == \A a, b, c \in Scalar : SMul(a, SAdd(b, c)) = SAdd(SMul(a, b), SMul(a, c))
<1>1. ASSUME NEW a \in Scalar, NEW b \in Scalar, NEW c \in Scalar
      PROVE  SMul(a, SAdd(b, c)) = SAdd(SMul(a, b), SMul(a, c))
      <2>1. a \in Nat /\ b \in Nat /\ c \in Nat /\ b + c \in Nat /\ a * b \in Nat /\ a * c \in Nat
            BY ZeroAndOne
      <2>2. SMul(a, SAdd(b, c)) = (a * (b + c)) % Order
            BY <2>1, FactorRest DEF SMul, SAdd
      <2>3. a * (b + c) = a * b + a * c
            BY <2>1
      <2>4. (a * b + a * c) % Order = SAdd(SMul(a, b), SMul(a, c))
            <3> DEFINE u == a * b
                       v == a * c
            <3>1. u \in Nat /\ v \in Nat
                  BY <2>1
            <3>2. SMul(a, b) = u % Order /\ SMul(a, c) = v % Order
                  BY DEF SMul
            <3> HIDE DEF u, v
            <3>3. u % Order \in Scalar /\ v % Order \in Scalar
                  BY <3>1, ZeroAndOne, RestCounts
            <3>4. SAdd(u % Order, v) = SAdd(u % Order, v % Order)
                  BY <3>1, <3>3, RestCounts
            <3>5. SAdd(v, u) = SAdd(v, u % Order)
                  <4> DEFINE r == u % Order
                             q == u \div Order
                             w == (v + r) % Order
                             s == (v + r) \div Order
                  <4>1. Order \in Nat /\ Order > 2
                        BY GroupAssumption
                  <4>2. r \in Nat /\ q \in Int /\ u = Order * q + r
                        <5>1. u \div Order \in Int /\ u % Order \in Int /\ u % Order >= 0
                              BY <3>1, <4>1
                        <5>2. u = Order * (u \div Order) + (u % Order)
                              BY <3>1, <4>1
                        <5>3. QED
                              BY <5>1, <5>2
                  <4> HIDE DEF r, q
                  <4>3. w \in Scalar /\ s \in Int /\ v + r = Order * s + w
                        <5> DEFINE y == v + r
                        <5>1. y \in Nat
                              BY <3>1, <4>2
                        <5> HIDE DEF y
                        <5>2. y \div Order \in Int /\ y % Order \in Scalar
                              BY <4>1, <5>1 DEF Scalar
                        <5>3. y = Order * (y \div Order) + (y % Order)
                              BY <4>1, <5>1
                        <5>4. QED
                              BY <5>2, <5>3 DEF y
                  <4> HIDE DEF w, s
                  <4>4. v + u = Order * (q + s) + w
                        <5>1. Order * (q + s) = Order * q + Order * s
                              BY <4>1, <4>2, <4>3
                        <5>2. Order * q \in Int /\ Order * s \in Int /\ w \in Int
                              BY <4>1, <4>2, <4>3 DEF Scalar
                        <5>3. QED
                              BY <3>1, <4>2, <4>3, <5>1, <5>2
                  <4>5. (v + u) % Order = w
                        <5>1. v + u \in Int /\ q + s \in Int
                              BY <3>1, <4>2, <4>3
                        <5>2. QED
                              BY <4>3, <4>4, <5>1, RestIs
                  <4>6. QED
                        BY <4>5 DEF SAdd, w, r
            <3>6. SAdd(u, v) = SAdd(v, u) /\ SAdd(v, u % Order) = SAdd(u % Order, v)
                  <4>1. u + v = v + u
                        BY <3>1
                  <4>2. SAdd(u, v) = SAdd(v, u)
                        BY <4>1 DEF SAdd
                  <4>3. SAdd(v, u % Order) = SAdd(u % Order, v)
                        <5> DEFINE r == u % Order
                        <5>1. r \in Nat
                              BY <3>3, ZeroAndOne
                        <5> HIDE DEF r
                        <5>2. v + r = r + v
                              BY <3>1, <5>1
                        <5>3. QED
                              BY <5>2 DEF SAdd, r
                  <4>4. QED
                        BY <4>2, <4>3
            <3>7. SAdd(u, v) = SAdd(SMul(a, b), SMul(a, c))
                  BY <3>2, <3>4, <3>5, <3>6
            <3>8. SAdd(u, v) = (a * b + a * c) % Order
                  BY DEF SAdd, u, v
            <3>9. QED
                  BY <3>7, <3>8
      <2>5. QED
            BY <2>2, <2>3, <2>4
<1>2. QED
      BY <1>1

\* What the lemmas below use of the ring of scalars.
LEMMA RingLaws ==
    /\ 0 \in Scalar /\ 1 \in Scalar
    /\ \A a, b \in Scalar : SAdd(a, b) \in Scalar /\ SMul(a, b) \in Scalar
    /\ \A a \in Scalar : SNeg(a) \in Scalar
    /\ \A a, b \in Scalar : SAdd(a, b) = SAdd(b, a) /\ SMul(a, b) = SMul(b, a)
    /\ \A a, b, c \in Scalar : SAdd(SAdd(a, b), c) = SAdd(a, SAdd(b, c))
    /\ \A a, b, c \in Scalar : SMul(SMul(a, b), c) = SMul(a, SMul(b, c))
    /\ \A a, b, c \in Scalar : SMul(a, SAdd(b, c)) = SAdd(SMul(a, b), SMul(a, c))
    /\ \A a, b, c \in Scalar : SMul(SAdd(a, b), c) = SAdd(SMul(a, c), SMul(b, c))
    /\ \A a \in Scalar : SAdd(a, 0) = a /\ SAdd(0, a) = a
    /\ \A a \in Scalar : SMul(a, 0) = 0 /\ SMul(0, a) = 0
    /\ \A a \in Scalar : SMul(a, 1) = a /\ SMul(1, a) = a
    /\ \A a \in Scalar : SAdd(a, SNeg(a)) = 0 /\ SAdd(SNeg(a), a) = 0
    /\ \A a, b \in Scalar : SMul(SNeg(a), b) = SNeg(SMul(a, b)) /\ SMul(a, SNeg(b)) = SNeg(SMul(a, b))
    /\ \A a, b \in Scalar : SNeg(SAdd(a, b)) = SAdd(SNeg(a), SNeg(b))
<1>1. 0 \in Scalar /\ 1 \in Scalar
      BY ZeroAndOne
<1>2. \A a, b \in Scalar : SAdd(a, b) \in Scalar /\ SMul(a, b) \in Scalar
      BY SAddIs, SMulIs
<1>3. \A a \in Scalar : SNeg(a) \in Scalar
      BY SNegIs
<1>4. \A a, b \in Scalar : SAdd(a, b) = SAdd(b, a) /\ SMul(a, b) = SMul(b, a)
      BY SumLaws, SMulCommutes
<1>5. \A a, b, c \in Scalar : SAdd(SAdd(a, b), c) = SAdd(a, SAdd(b, c))
      BY SAddAssociates
<1>6. \A a, b, c \in Scalar : SMul(SAdd(a, b), c) = SAdd(SMul(a, c), SMul(b, c))
      <2>1. ASSUME NEW a \in Scalar, NEW b \in Scalar, NEW c \in Scalar
            PROVE  SMul(SAdd(a, b), c) = SAdd(SMul(a, c), SMul(b, c))
            <3>1. SMul(SAdd(a, b), c) = SMul(c, SAdd(a, b))
                  BY <1>2, <1>4
            <3>2. SMul(c, SAdd(a, b)) = SAdd(SMul(c, a), SMul(c, b))
                  BY SMulDistributes
            <3>3. QED
                  BY <1>4, <3>1, <3>2
      <2>2. QED
            BY <2>1
<1>7. \A a \in Scalar : SAdd(a, 0) = a /\ SAdd(0, a) = a
      BY <1>1, <1>4, SumLaws
<1>8. \A a \in Scalar : SMul(a, 0) = 0 /\ SMul(0, a) = 0 /\ SMul(a, 1) = a /\ SMul(1, a) = a
      BY <1>1, <1>4, SMulIs
<1>9. \A a \in Scalar : SAdd(a, SNeg(a)) = 0 /\ SAdd(SNeg(a), a) = 0
      BY <1>3, <1>4, SumLaws
<1>10. ASSUME NEW a \in Scalar, NEW b \in Scalar
       PROVE  SMul(a, SNeg(b)) = SNeg(SMul(a, b))
      <2> DEFINE u == SMul(a, b)
                 v == SMul(a, SNeg(b))
      <2>1. u \in Scalar /\ v \in Scalar /\ SNeg(u) \in Scalar /\ SNeg(b) \in Scalar
            BY <1>2, <1>3
      <2>2. SAdd(u, v) = 0
            <3>1. SAdd(u, v) = SMul(a, SAdd(b, SNeg(b)))
                  BY <2>1, SMulDistributes
            <3>2. QED
                  BY <1>8, <1>9, <3>1
      <2> HIDE DEF u, v
      <2>3. SAdd(SNeg(u), SAdd(u, v)) = v
            BY <1>5, <1>7, <1>9, <2>1
      <2>4. v = SNeg(u)
            BY <1>7, <2>1, <2>2, <2>3
      <2>5. QED
            BY <2>4 DEF u, v
<1>11. \A a, b \in Scalar : SMul(SNeg(a), b) = SNeg(SMul(a, b)) /\ SMul(a, SNeg(b)) = SNeg(SMul(a, b))
      BY <1>3, <1>4, <1>10
<1>12. \A a, b \in Scalar : SNeg(SAdd(a, b)) = SAdd(SNeg(a), SNeg(b))
      BY SumLaws
<1>13. QED
      BY <1>1, <1>2, <1>3, <1>4, <1>5, <1>6, <1>7, <1>8, <1>9, <1>11, <1>12, SMulAssociates, SMulDistributes, Zenon

\* Four terms in another order.
LEMMA AddFour ==
    \A w, x, y, z \in Scalar : SAdd(SAdd(w, x), SAdd(y, z)) = SAdd(SAdd(w, y), SAdd(x, z))
<1>1. ASSUME NEW w \in Scalar, NEW x \in Scalar, NEW y \in Scalar, NEW z \in Scalar
      PROVE  SAdd(SAdd(w, x), SAdd(y, z)) = SAdd(SAdd(w, y), SAdd(x, z))
      <2>1. SAdd(SAdd(w, x), SAdd(y, z)) = SAdd(w, SAdd(x, SAdd(y, z)))
            BY RingLaws
      <2>2. SAdd(x, SAdd(y, z)) = SAdd(SAdd(x, y), z) /\ SAdd(SAdd(y, x), z) = SAdd(y, SAdd(x, z))
            BY RingLaws
      <2>3. SAdd(x, y) = SAdd(y, x)
            BY RingLaws
      <2>4. SAdd(w, SAdd(y, SAdd(x, z))) = SAdd(SAdd(w, y), SAdd(x, z))
            BY RingLaws
      <2>5. QED
            BY <2>1, <2>2, <2>3, <2>4
<1>2. QED
      BY <1>1

LEMMA WithZero == \A a \in Scalar : SMul(a, 0) = 0 /\ SMul(0, a) = 0 /\ SAdd(a, 0) = a /\ SAdd(0, a) = a
BY RingLaws

LEMMA WithOne == \A a \in Scalar : SMul(a, 1) = a /\ SMul(1, a) = a
BY RingLaws

LEMMA Closed == \A a, b \in Scalar : SAdd(a, b) \in Scalar /\ SMul(a, b) \in Scalar /\ SNeg(a) \in Scalar
BY RingLaws

\* Four factors in another order.
LEMMA MulFour ==
    \A a, d, b, x \in Scalar : SMul(SMul(a, d), SMul(b, x)) = SMul(SMul(d, x), SMul(a, b))
<1>1. ASSUME NEW a \in Scalar, NEW d \in Scalar, NEW b \in Scalar, NEW x \in Scalar
      PROVE  SMul(SMul(a, d), SMul(b, x)) = SMul(SMul(d, x), SMul(a, b))
      <2>1. SMul(a, d) = SMul(d, a) /\ SMul(b, x) = SMul(x, b) /\ SMul(b, x) \in Scalar /\ SMul(a, b) \in Scalar
            BY SMulCommutes, SMulIs
      <2>2. SMul(SMul(d, a), SMul(b, x)) = SMul(d, SMul(a, SMul(b, x)))
            BY <2>1, SMulAssociates
      <2>3. SMul(a, SMul(b, x)) = SMul(SMul(a, b), x)
            BY SMulAssociates
      <2>4. SMul(SMul(a, b), x) = SMul(x, SMul(a, b))
            BY <2>1, SMulCommutes
      <2>5. SMul(d, SMul(x, SMul(a, b))) = SMul(SMul(d, x), SMul(a, b))
            BY <2>1, SMulAssociates
      <2>6. QED
            BY <2>1, <2>2, <2>3, <2>4, <2>5
<1>2. QED
      BY <1>1

\* A factor behind a sum.
LEMMA MulSum == \A a, b, c \in Scalar : SMul(SAdd(a, b), c) = SAdd(SMul(a, c), SMul(b, c))
BY RingLaws

-------------------------------------------------------------------------------
(* Sums over 1 .. n.                                                       *)

Scalars(n) == [1 .. n -> Scalar]

LEMMA SumWalk ==
    ASSUME NEW n \in Nat, NEW s \in Scalars(n)
    PROVE  /\ scalarSums(s) \in [0 .. n -> Scalar] /\ scalarSums(s)[0] = 0
           /\ \A i \in 1 .. n : scalarSums(s)[i] = SAdd(scalarSums(s)[i - 1], s[i])
           /\ SSum(s) = scalarSums(s)[n] /\ SSum(s) \in Scalar
<1>1. s \in Seq(Scalar) /\ Len(s) = n
      BY DEF Scalars
<1>2. s \in Seq(Nat)
      BY <1>1, ZeroAndOne, SeqMonotonic
<1>3. AddsTo(scalarSums(s), s)
      BY <1>2, ScalarSumsAre
<1>4. /\ scalarSums(s) \in [0 .. n -> Scalar] /\ scalarSums(s)[0] = 0
      /\ \A i \in 1 .. n : scalarSums(s)[i] = SAdd(scalarSums(s)[i - 1], s[i])
      BY <1>1, <1>3 DEF AddsTo
<1>5. SSum(s) = scalarSums(s)[n]
      BY <1>1 DEF SSum
<1>6. scalarSums(s)[n] \in Scalar
      BY <1>4
<1>7. QED
      BY <1>4, <1>5, <1>6

\* What starts at 0 and grows by the entries are the sums.
LEMMA SumOnly ==
    ASSUME NEW n \in Nat, NEW s \in Scalars(n), NEW t, t[0] = 0,
           \A i \in 1 .. n : t[i - 1] \in Scalar => t[i] = SAdd(t[i - 1], s[i])
    PROVE  (\A i \in 0 .. n : t[i] = scalarSums(s)[i]) /\ SSum(s) = t[n]
<1> DEFINE a == scalarSums(s)
           good == {i \in 0 .. n : t[i] = a[i]}
<1>1. /\ a \in [0 .. n -> Scalar] /\ a[0] = 0 /\ SSum(s) = a[n]
      /\ \A i \in 1 .. n : a[i] = SAdd(a[i - 1], s[i])
      BY SumWalk
<1> HIDE DEF a
<1>2. 0 \in good
      BY <1>1
<1>3. ASSUME NEW i \in 1 .. n, i - 1 \in good PROVE i \in good
      <2>1. i \in 0 .. n /\ i - 1 \in 0 .. n /\ t[i - 1] = a[i - 1]
            BY <1>3
      <2>2. t[i - 1] \in Scalar
            BY <1>1, <2>1
      <2>3. t[i] = a[i]
            BY <1>1, <2>1, <2>2
      <2>4. QED
            BY <2>1, <2>3
<1>4. \A i \in 0 .. n : i \in good
      <2> HIDE DEF good
      <2>1. QED
            BY <1>2, <1>3, CountUp
<1>5. QED
      BY <1>1, <1>4 DEF a

LEMMA SumOfZeros == ASSUME NEW n \in Nat PROVE SSum([i \in 1 .. n |-> 0]) = 0
<1> DEFINE s == [i \in 1 .. n |-> 0]
           t == [i \in 0 .. n |-> 0]
<1>1. s \in Scalars(n) /\ t[0] = 0 /\ t[n] = 0
      BY RingLaws DEF Scalars
<1>2. ASSUME NEW i \in 1 .. n, t[i - 1] \in Scalar PROVE t[i] = SAdd(t[i - 1], s[i])
      <2>1. i \in 0 .. n /\ i - 1 \in 0 .. n
            OBVIOUS
      <2>2. t[i] = 0 /\ t[i - 1] = 0 /\ s[i] = 0
            BY <2>1
      <2>3. SAdd(0, 0) = 0
            BY RingLaws
      <2>4. QED
            BY <2>2, <2>3
<1> HIDE DEF s, t
<1>3. SSum(s) = t[n]
      BY <1>1, <1>2, SumOnly
<1>4. QED
      BY <1>1, <1>3 DEF s

\* A sum of sums is the sum of both.
LEMMA SumOfSums ==
    ASSUME NEW n \in Nat, NEW a \in Scalars(n), NEW b \in Scalars(n)
    PROVE  SSum([i \in 1 .. n |-> SAdd(a[i], b[i])]) = SAdd(SSum(a), SSum(b))
<1> DEFINE s == [i \in 1 .. n |-> SAdd(a[i], b[i])]
           u == scalarSums(a)
           v == scalarSums(b)
           t == [i \in 0 .. n |-> SAdd(u[i], v[i])]
<1>1. /\ u \in [0 .. n -> Scalar] /\ u[0] = 0 /\ SSum(a) = u[n]
      /\ \A i \in 1 .. n : u[i] = SAdd(u[i - 1], a[i])
      BY SumWalk
<1>2. /\ v \in [0 .. n -> Scalar] /\ v[0] = 0 /\ SSum(b) = v[n]
      /\ \A i \in 1 .. n : v[i] = SAdd(v[i - 1], b[i])
      BY SumWalk
<1> HIDE DEF u, v
<1>3. /\ s \in Scalars(n)
      /\ t[0] = 0 /\ t[n] = SAdd(SSum(a), SSum(b))
      <2>1. \A i \in 1 .. n : a[i] \in Scalar /\ b[i] \in Scalar
            BY DEF Scalars
      <2>2. s \in Scalars(n)
            BY <2>1, RingLaws DEF Scalars
      <2>3. t[0] = SAdd(0, 0) /\ SAdd(0, 0) = 0
            BY <1>1, <1>2, RingLaws
      <2>4. t[n] = SAdd(u[n], v[n])
            OBVIOUS
      <2>5. QED
            BY <1>1, <1>2, <2>2, <2>3, <2>4
<1>4. ASSUME NEW i \in 1 .. n PROVE t[i] = SAdd(t[i - 1], s[i])
      <2>1. i \in 0 .. n /\ i - 1 \in 0 .. n
            OBVIOUS
      <2>2. t[i] = SAdd(SAdd(u[i - 1], a[i]), SAdd(v[i - 1], b[i]))
            BY <1>1, <1>2, <2>1
      <2>3. t[i - 1] = SAdd(u[i - 1], v[i - 1]) /\ s[i] = SAdd(a[i], b[i])
            BY <2>1
      <2>4. u[i - 1] \in Scalar /\ v[i - 1] \in Scalar /\ a[i] \in Scalar /\ b[i] \in Scalar
            BY <1>1, <1>2, <2>1 DEF Scalars
      <2> HIDE DEF t, s
      <2>5. \A w, x, y, z \in Scalar : SAdd(SAdd(w, x), SAdd(y, z)) = SAdd(SAdd(w, y), SAdd(x, z))
            BY AddFour
      <2>6. QED
            BY <2>2, <2>3, <2>4, <2>5
<1> HIDE DEF s, t
<1>5. SSum(s) = t[n]
      BY <1>3, <1>4, SumOnly
<1>6. QED
      BY <1>3, <1>5 DEF s

\* A common factor, and a common sign, come out of a sum.
LEMMA SumOfMultiples ==
    ASSUME NEW n \in Nat, NEW a \in Scalars(n), NEW c \in Scalar
    PROVE  SSum([i \in 1 .. n |-> SMul(c, a[i])]) = SMul(c, SSum(a))
<1> DEFINE s == [i \in 1 .. n |-> SMul(c, a[i])]
           u == scalarSums(a)
           t == [i \in 0 .. n |-> SMul(c, u[i])]
<1>1. /\ u \in [0 .. n -> Scalar] /\ u[0] = 0 /\ SSum(a) = u[n]
      /\ \A i \in 1 .. n : u[i] = SAdd(u[i - 1], a[i])
      BY SumWalk
<1> HIDE DEF u
<1>2. s \in Scalars(n) /\ t[0] = 0 /\ t[n] = SMul(c, SSum(a))
      <2>1. \A i \in 1 .. n : a[i] \in Scalar
            BY DEF Scalars
      <2>2. s \in Scalars(n)
            BY <2>1, RingLaws DEF Scalars
      <2>3. t[0] = SMul(c, 0) /\ SMul(c, 0) = 0
            BY <1>1, RingLaws
      <2>4. t[n] = SMul(c, u[n])
            OBVIOUS
      <2>5. QED
            BY <1>1, <2>2, <2>3, <2>4
<1>3. ASSUME NEW i \in 1 .. n PROVE t[i] = SAdd(t[i - 1], s[i])
      <2>1. i \in 0 .. n /\ i - 1 \in 0 .. n
            OBVIOUS
      <2>2. t[i] = SMul(c, SAdd(u[i - 1], a[i]))
            BY <1>1, <2>1
      <2>3. t[i - 1] = SMul(c, u[i - 1]) /\ s[i] = SMul(c, a[i])
            BY <2>1
      <2>4. u[i - 1] \in Scalar /\ a[i] \in Scalar
            BY <1>1, <2>1 DEF Scalars
      <2> HIDE DEF t, s
      <2>5. SMul(c, SAdd(u[i - 1], a[i])) = SAdd(SMul(c, u[i - 1]), SMul(c, a[i]))
            BY <2>4, SMulDistributes
      <2>6. QED
            BY <2>2, <2>3, <2>5
<1> HIDE DEF s, t
<1>4. SSum(s) = t[n]
      BY <1>2, <1>3, SumOnly
<1>5. QED
      BY <1>2, <1>4 DEF s

LEMMA SumOfNegatives ==
    ASSUME NEW n \in Nat, NEW a \in Scalars(n)
    PROVE  SSum([i \in 1 .. n |-> SNeg(a[i])]) = SNeg(SSum(a))
<1>1. SNeg(1) \in Scalar /\ SSum(a) \in Scalar /\ \A i \in 1 .. n : a[i] \in Scalar
      BY RingLaws, SumWalk DEF Scalars
<1>2. \A x \in Scalar : SMul(SNeg(1), x) = SNeg(x)
      BY RingLaws
<1>3. [i \in 1 .. n |-> SMul(SNeg(1), a[i])] = [i \in 1 .. n |-> SNeg(a[i])]
      BY <1>1, <1>2
<1>4. SSum([i \in 1 .. n |-> SMul(SNeg(1), a[i])]) = SMul(SNeg(1), SSum(a))
      BY <1>1, SumOfMultiples
<1>5. QED
      BY <1>1, <1>2, <1>3, <1>4

\* What is summed twice may be summed in either order.
LEMMA SumSwap ==
    ASSUME NEW n \in Nat, NEW m \in Nat, NEW f \in [1 .. n -> Scalars(m)]
    PROVE  SSum([i \in 1 .. n |-> SSum(f[i])]) = SSum([j \in 1 .. m |-> SSum([i \in 1 .. n |-> f[i][j]])])
<1> DEFINE row == [i \in 1 .. n |-> SSum(f[i])]
           col(j) == [i \in 1 .. n |-> f[i][j]]
           part(i) == [j \in 1 .. m |-> scalarSums(col(j))[i]]
           t == [i \in 0 .. n |-> SSum(part(i))]
<1>1. \A i \in 1 .. n : f[i] \in Scalars(m) /\ \A j \in 1 .. m : f[i][j] \in Scalar
      BY DEF Scalars
<1>2. row \in Scalars(n)
      <2>1. \A i \in 1 .. n : SSum(f[i]) \in Scalar
            BY <1>1, SumWalk
      <2>2. QED
            BY <2>1 DEF Scalars
<1>3. \A j \in 1 .. m :
         /\ col(j) \in Scalars(n)
         /\ scalarSums(col(j)) \in [0 .. n -> Scalar] /\ scalarSums(col(j))[0] = 0
         /\ \A i \in 1 .. n : scalarSums(col(j))[i] = SAdd(scalarSums(col(j))[i - 1], col(j)[i])
         /\ SSum(col(j)) = scalarSums(col(j))[n]
      <2>1. ASSUME NEW j \in 1 .. m PROVE col(j) \in Scalars(n)
            BY <1>1 DEF Scalars
      <2> HIDE DEF col
      <2>2. QED
            BY <2>1, SumWalk
<1>4. t[0] = 0
      <2>1. part(0) = [j \in 1 .. m |-> 0]
            <3> HIDE DEF col
            <3>1. QED
                  BY <1>3
      <2>2. t[0] = SSum(part(0))
            OBVIOUS
      <2> HIDE DEF t, part
      <2>3. QED
            BY <2>1, <2>2, SumOfZeros
<1>5. ASSUME NEW i \in 1 .. n PROVE t[i] = SAdd(t[i - 1], row[i])
      <2>1. i \in 0 .. n /\ i - 1 \in 0 .. n
            OBVIOUS
      <2>2. part(i - 1) \in Scalars(m)
            <3>1. \A j \in 1 .. m : scalarSums(col(j))[i - 1] \in Scalar
                  <4> HIDE DEF col
                  <4>1. QED
                        BY <1>3, <2>1
            <3> HIDE DEF col
            <3>2. QED
                  BY <3>1 DEF Scalars
      <2>3. part(i) = [j \in 1 .. m |-> SAdd(part(i - 1)[j], f[i][j])]
            <3>1. ASSUME NEW j \in 1 .. m
                  PROVE  scalarSums(col(j))[i] = SAdd(part(i - 1)[j], f[i][j])
                  <4>1. col(j)[i] = f[i][j]
                        OBVIOUS
                  <4> HIDE DEF col
                  <4>2. QED
                        BY <1>3, <4>1
            <3> HIDE DEF col
            <3>2. part(i) = [j \in 1 .. m |-> scalarSums(col(j))[i]]
                  OBVIOUS
            <3> HIDE DEF part
            <3>3. QED
                  BY <3>1, <3>2
      <2>4. t[i] = SSum(part(i)) /\ t[i - 1] = SSum(part(i - 1)) /\ row[i] = SSum(f[i])
            BY <2>1
      <2> HIDE DEF t, part, row
      <2>5. SSum(part(i)) = SAdd(SSum(part(i - 1)), SSum(f[i]))
            BY <1>1, <2>2, <2>3, SumOfSums
      <2>6. QED
            BY <2>4, <2>5
<1>6. t[n] = SSum([j \in 1 .. m |-> SSum(col(j))])
      <2>1. part(n) = [j \in 1 .. m |-> SSum(col(j))]
            <3> HIDE DEF col
            <3>1. QED
                  BY <1>3
      <2>2. t[n] = SSum(part(n))
            OBVIOUS
      <2> HIDE DEF t, part, col
      <2>3. QED
            BY <2>1, <2>2
<1>7. SSum(row) = t[n]
      <2> HIDE DEF row, t
      <2>1. QED
            BY <1>2, <1>4, <1>5, SumOnly
<1>8. QED
      BY <1>6, <1>7

\* Of entries of which one alone is not 0 that one is the sum.
LEMMA SumOfOne ==
    ASSUME NEW n \in Nat, NEW a \in Scalars(n), NEW k \in 1 .. n,
           \A i \in 1 .. n : i # k => a[i] = 0
    PROVE  SSum(a) = a[k]
<1> DEFINE t == [i \in 0 .. n |-> IF i < k THEN 0 ELSE a[k]]
<1>1. t[0] = 0 /\ t[n] = a[k] /\ a[k] \in Scalar
      BY DEF Scalars
<1>2. ASSUME NEW i \in 1 .. n PROVE t[i] = SAdd(t[i - 1], a[i])
      <2>1. i \in 0 .. n /\ i - 1 \in 0 .. n
            OBVIOUS
      <2>2. CASE i < k
            <3>1. t[i] = 0 /\ t[i - 1] = 0 /\ a[i] = 0
                  BY <2>1, <2>2
            <3>2. 0 \in Scalar /\ SAdd(0, 0) = 0
                  BY ZeroAndOne, WithZero
            <3> HIDE DEF t
            <3>3. QED
                  BY <3>1, <3>2
      <2>3. CASE i = k
            <3>1. t[i] = a[k] /\ t[i - 1] = 0
                  BY <2>1, <2>3
            <3>2. QED
                  BY <1>1, <2>3, <3>1, RingLaws
      <2>4. CASE i > k
            <3>1. t[i] = a[k] /\ t[i - 1] = a[k] /\ a[i] = 0
                  BY <2>1, <2>4
            <3>2. QED
                  BY <1>1, <3>1, RingLaws
      <2>5. QED
            BY <2>2, <2>3, <2>4
<1> HIDE DEF t
<1>3. SSum(a) = t[n]
      BY <1>1, <1>2, SumOnly
<1>4. QED
      BY <1>1, <1>3

\* A sum is that of the first entries and the last.
LEMMA SumOfLast ==
    ASSUME NEW n \in Nat, NEW a \in Scalars(n + 1)
    PROVE  /\ SSum(a) = SAdd(SSum([i \in 1 .. n |-> a[i]]), a[n + 1])
           /\ SSum([i \in 1 .. n |-> a[i]]) = scalarSums(a)[n]
<1> DEFINE s == [i \in 1 .. n |-> a[i]]
           t == scalarSums(a)
<1>1. s \in Scalars(n) /\ \A i \in 1 .. n : s[i] = a[i]
      BY DEF Scalars
<1>2. /\ n + 1 \in Nat /\ t[0] = 0 /\ SSum(a) = t[n + 1]
      /\ \A i \in 1 .. n + 1 : t[i] = SAdd(t[i - 1], a[i])
      BY SumWalk
<1>3. \A i \in 1 .. n : t[i] = SAdd(t[i - 1], s[i])
      BY <1>1, <1>2
<1> HIDE DEF s, t
<1>4. SSum(s) = t[n]
      BY <1>1, <1>2, <1>3, SumOnly
<1>5. t[n + 1] = SAdd(t[n], a[n + 1])
      <2>1. n + 1 \in 1 .. n + 1 /\ (n + 1) - 1 = n
            OBVIOUS
      <2>2. QED
            BY <1>2, <2>1
<1>6. QED
      BY <1>2, <1>4, <1>5 DEF s, t

-------------------------------------------------------------------------------
(* Multiples of the base point, and what bytes say.                        *)

\* Rows of points.
Points(n) == [1 .. n -> Point]

\* A row of points is a sequence.
LEMMA LengthIs == ASSUME NEW n \in Nat, NEW P \in Points(n) PROVE P \in Seq(Point) /\ Len(P) = n
BY DEF Points

\* A sum of points, in one coordinate.
LEMMA SumInCoordinate ==
    ASSUME NEW P \in Point, NEW R \in Point, NEW k \in 1 .. Dim
    PROVE  GAdd(P, R)[k] = SAdd(P[k], R[k])
<1>1. GAdd(P, R) = [i \in 1 .. Dim |-> SAdd(P[i], R[i])]
      BY GAddIs
<1>2. QED
      BY <1>1

\* What 32 bytes say is a scalar.
LEMMA BytesMakeScalars == ASSUME NEW b \in Bytes32 PROVE ScalarOf(b) \in Scalar /\ b \in Nat
<1>1. b \in Nat /\ 0 \in Scalar
      BY GroupAssumption DEF Bytes32, Scalar
<1>2. b % Order \in Scalar
      BY <1>1, RestCounts
<1>3. QED
      BY <1>1, <1>2 DEF ScalarOf

\* A scalar is 32 bytes and stays itself.
LEMMA ScalarsAreBytes == ASSUME NEW s \in Scalar PROVE s \in Bytes32 /\ ScalarOf(s) = s /\ ~Overflow(s)
<1>1. Order \in Nat /\ Width \in Nat /\ Width >= Order /\ s \in 0 .. Order - 1
      BY GroupAssumption DEF Scalar
<1>2. s \in 0 .. Width - 1 /\ ~(s >= Order)
      BY <1>1
<1>3. s % Order = s
      BY <1>1
<1>4. QED
      BY <1>2, <1>3 DEF Bytes32, ScalarOf, Overflow

\* A multiple of the base point has its factor as its first coordinate.
LEMMA MultipleIs ==
    ASSUME NEW a \in Scalar
    PROVE  GMul(a, G) \in Point /\ GMul(a, G) = [i \in 1 .. Dim |-> IF i = 1 THEN a ELSE 0]
<1>1. G \in Point /\ G = [i \in 1 .. Dim |-> IF i = 1 THEN 1 ELSE 0]
      BY UnitIs DEF G
<1>2. GMul(a, G) = [i \in 1 .. Dim |-> SMul(a, G[i])] /\ GMul(a, G) \in Point
      BY <1>1, GMulIs
<1>3. ASSUME NEW i \in 1 .. Dim PROVE SMul(a, G[i]) = IF i = 1 THEN a ELSE 0
      <2>1. G[i] = IF i = 1 THEN 1 ELSE 0
            BY <1>1
      <2>2. QED
            BY <2>1, WithOne, WithZero
<1>4. QED
      BY <1>2, <1>3

\* Points and scalars: sums, opposites and multiples.
LEMMA MultiplesAdd ==
    ASSUME NEW a \in Scalar, NEW b \in Scalar
    PROVE  /\ GAdd(GMul(a, G), GMul(b, G)) = GMul(SAdd(a, b), G)
           /\ GNeg(GMul(a, G)) = GMul(SNeg(a), G)
           /\ GMul(b, GMul(a, G)) = GMul(SMul(b, a), G)
           /\ GMul(a, G)[1] = a
           /\ GMul(a, G) = GMul(b, G) => a = b
<1> DEFINE P == GMul(a, G)
           R == GMul(b, G)
<1>1. /\ SAdd(a, b) \in Scalar /\ SNeg(a) \in Scalar /\ SMul(b, a) \in Scalar
      /\ SAdd(0, 0) = 0 /\ SNeg(0) = 0 /\ SMul(b, 0) = 0 /\ 1 \in 1 .. Dim
      BY RingLaws, SNegIs, ZeroAndOne
<1>2. /\ P \in Point /\ P = [i \in 1 .. Dim |-> IF i = 1 THEN a ELSE 0]
      /\ R \in Point /\ R = [i \in 1 .. Dim |-> IF i = 1 THEN b ELSE 0]
      BY MultipleIs
<1> HIDE DEF P, R
<1>3. GAdd(P, R) = [i \in 1 .. Dim |-> IF i = 1 THEN SAdd(a, b) ELSE 0]
      <2>1. GAdd(P, R) = [i \in 1 .. Dim |-> SAdd(P[i], R[i])]
            BY <1>2, GAddIs
      <2>2. \A i \in 1 .. Dim : SAdd(P[i], R[i]) = IF i = 1 THEN SAdd(a, b) ELSE 0
            BY <1>1, <1>2
      <2>3. QED
            BY <2>1, <2>2
<1>4. GNeg(P) = [i \in 1 .. Dim |-> IF i = 1 THEN SNeg(a) ELSE 0]
      <2>1. GNeg(P) = [i \in 1 .. Dim |-> SNeg(P[i])]
            BY <1>2, GNegIs
      <2>2. \A i \in 1 .. Dim : SNeg(P[i]) = IF i = 1 THEN SNeg(a) ELSE 0
            BY <1>1, <1>2
      <2>3. QED
            BY <2>1, <2>2
<1>5. GMul(b, P) = [i \in 1 .. Dim |-> IF i = 1 THEN SMul(b, a) ELSE 0]
      <2>1. GMul(b, P) = [i \in 1 .. Dim |-> SMul(b, P[i])]
            BY <1>2, GMulIs
      <2>2. \A i \in 1 .. Dim : SMul(b, P[i]) = IF i = 1 THEN SMul(b, a) ELSE 0
            BY <1>1, <1>2
      <2>3. QED
            BY <2>1, <2>2
<1>6. /\ GMul(SAdd(a, b), G) = GAdd(P, R) /\ GMul(SNeg(a), G) = GNeg(P)
      /\ GMul(SMul(b, a), G) = GMul(b, P)
      BY <1>1, <1>3, <1>4, <1>5, MultipleIs
<1>7. P[1] = a /\ R[1] = b
      BY <1>1, <1>2
<1>8. QED
      BY <1>6, <1>7 DEF P, R

\* No multiple at all of the base point.
LEMMA NoMultiple == Infinity = GMul(0, G)
<1>1. Infinity = [i \in 1 .. Dim |-> 0] /\ GMul(0, G) = [i \in 1 .. Dim |-> IF i = 1 THEN 0 ELSE 0]
      BY InfinityIs, MultipleIs, ZeroAndOne
<1>2. QED
      BY <1>1

\* Sequences put one after the other.
joined(n, cs) == Flat(n, LAMBDA i : cs[i])

\* What is joined is a sequence of numbers.
LEMMA FlatTyped ==
    ASSUME NEW n \in Nat, NEW cs, \A i \in 1 .. n : cs[i] \in Seq(Nat)
    PROVE  joined(n, cs) \in Seq(Nat)
<1> DEFINE move == [p \in Seq(Nat) \X (1 .. n) |-> p[1] \o cs[p[2]]]
           next(t, i) == IF i = 0 THEN <<>> ELSE t[i - 1] \o cs[i]
           u == CHOOSE t : t = [i \in 0 .. n |-> next(t, i)]
<1>1. move \in [Seq(Nat) \X (1 .. n) -> Seq(Nat)]
      <2>1. ASSUME NEW p \in Seq(Nat) \X (1 .. n) PROVE p[1] \o cs[p[2]] \in Seq(Nat)
            <3>1. p[1] \in Seq(Nat) /\ cs[p[2]] \in Seq(Nat)
                  OBVIOUS
            <3>2. QED
                  BY <3>1
      <2>2. QED
            BY <2>1
<1>2. <<>> \in Seq(Nat)
      OBVIOUS
<1>3. PICK t : Walks(t, n, Seq(Nat), <<>>, move)
      <2> HIDE DEF move
      <2>1. QED
            BY <1>1, <1>2, WalkExists
<1>4. /\ t \in [0 .. n -> Seq(Nat)] /\ t[0] = <<>>
      /\ \A i \in 1 .. n : t[i] = t[i - 1] \o cs[i]
      <2>1. /\ t \in [0 .. n -> Seq(Nat)] /\ t[0] = <<>>
            /\ \A i \in 1 .. n : t[i] = move[<<t[i - 1], i>>]
            BY <1>3 DEF Walks
      <2>2. ASSUME NEW i \in 1 .. n PROVE <<t[i - 1], i>> \in Seq(Nat) \X (1 .. n)
            <3>1. i - 1 \in 0 .. n
                  OBVIOUS
            <3>2. QED
                  BY <2>1, <3>1
      <2>3. QED
            BY <2>1, <2>2
<1>5. t = [i \in 0 .. n |-> next(t, i)]
      <2>1. ASSUME NEW i \in 0 .. n PROVE t[i] = next(t, i)
            <3>1. CASE i = 0
                  BY <1>4, <3>1
            <3>2. CASE i # 0
                  <4>1. i \in 1 .. n
                        BY <3>2
                  <4>2. t[i] = t[i - 1] \o cs[i]
                        BY <1>4, <4>1
                  <4>3. QED
                        BY <3>2, <4>2
            <3>3. QED
                  BY <3>1, <3>2
      <2> HIDE DEF next
      <2>2. t = [i \in 0 .. n |-> t[i]]
            BY <1>4
      <2>3. QED
            BY <2>1, <2>2
<1>6. u = [i \in 0 .. n |-> next(u, i)]
      <2> HIDE DEF next
      <2>1. QED
            BY <1>5
<1>7. u[0] = <<>> /\ \A i \in 1 .. n : u[i] = u[i - 1] \o cs[i]
      <2>1. \A i \in 0 .. n : u[i] = next(u, i)
            <3> HIDE DEF u, next
            <3>1. QED
                  BY <1>6
      <2> HIDE DEF u
      <2>2. u[0] = <<>>
            BY <2>1
      <2>3. ASSUME NEW i \in 1 .. n PROVE u[i] = u[i - 1] \o cs[i]
            <3>1. i \in 0 .. n /\ i # 0
                  OBVIOUS
            <3>2. QED
                  BY <2>1, <3>1
      <2>4. QED
            BY <2>2, <2>3
<1>8. joined(n, cs) = u[n]
      BY DEF joined, Flat
<1> HIDE DEF u, next, move
<1>9. \A i \in 0 .. n : u[i] \in Seq(Nat)
      <2> DEFINE good == {i \in 0 .. n : u[i] \in Seq(Nat)}
      <2>1. 0 \in good
            <3> DEFINE e == <<>>
            <3>1. e \in Seq(Nat) /\ u[0] = e
                  BY <1>7
            <3> HIDE DEF e
            <3>2. 0 \in 0 .. n /\ u[0] \in Seq(Nat)
                  BY <3>1
            <3>3. QED
                  BY <3>2
      <2>2. ASSUME NEW i \in 1 .. n, i - 1 \in good PROVE i \in good
            <3>1. i \in 0 .. n /\ u[i - 1] \in Seq(Nat) /\ cs[i] \in Seq(Nat)
                  BY <2>2
            <3>2. u[i - 1] \o cs[i] \in Seq(Nat)
                  BY <3>1
            <3>3. QED
                  BY <1>7, <3>1, <3>2
      <2>3. \A i \in 0 .. n : i \in good
            <3> HIDE DEF good
            <3>1. QED
                  BY <2>1, <2>2, CountUp
      <2>4. QED
            BY <2>3
<1>10. QED
       BY <1>8, <1>9

-------------------------------------------------------------------------------
(* Powers.                                                                 *)

\* The powers up to the n-th.
Raising(c, b, n) ==
    /\ c \in [0 .. n -> Nat]
    /\ c[0] = 1
    /\ \A i \in 1 .. n : c[i] = b * c[i - 1]

\* There are powers up to every exponent.
LEMMA RaisingExists ==
    ASSUME NEW b \in Nat, NEW n \in Nat
    PROVE  \E c : Raising(c, b, n) /\ powerOf(b, n) = c[n]
<1> DEFINE move == [p \in Nat \X (1 .. n) |-> b * p[1]]
           next(t, i) == IF i = 0 THEN 1 ELSE b * t[i - 1]
           u == CHOOSE t : t = [i \in 0 .. n |-> next(t, i)]
<1>1. move \in [Nat \X (1 .. n) -> Nat]
      OBVIOUS
<1>2. PICK t : Walks(t, n, Nat, 1, move)
      <2> HIDE DEF move
      <2>1. QED
            BY <1>1, WalkExists
<1>3. /\ t \in [0 .. n -> Nat] /\ t[0] = 1
      /\ \A i \in 1 .. n : t[i] = b * t[i - 1]
      <2>1. /\ t \in [0 .. n -> Nat] /\ t[0] = 1
            /\ \A i \in 1 .. n : t[i] = move[<<t[i - 1], i>>]
            BY <1>2 DEF Walks
      <2>2. ASSUME NEW i \in 1 .. n PROVE <<t[i - 1], i>> \in Nat \X (1 .. n)
            <3>1. i - 1 \in 0 .. n
                  OBVIOUS
            <3>2. QED
                  BY <2>1, <3>1
      <2>3. QED
            BY <2>1, <2>2
<1>4. t = [i \in 0 .. n |-> next(t, i)]
      BY <1>3
<1>5. u = [i \in 0 .. n |-> next(u, i)]
      <2> HIDE DEF next
      <2>1. QED
            BY <1>4
<1>6. u[0] = 1 /\ \A i \in 1 .. n : u[i] = b * u[i - 1]
      <2>1. \A i \in 0 .. n : u[i] = next(u, i)
            <3> HIDE DEF u, next
            <3>1. QED
                  BY <1>5
      <2> HIDE DEF u
      <2>2. u[0] = 1
            BY <2>1
      <2>3. ASSUME NEW i \in 1 .. n PROVE u[i] = b * u[i - 1]
            <3>1. i \in 0 .. n /\ i # 0
                  OBVIOUS
            <3>2. QED
                  BY <2>1, <3>1
      <2>4. QED
            BY <2>2, <2>3
<1>7. powerOf(b, n) = u[n]
      BY DEF powerOf
<1> HIDE DEF u, next, move
<1>8. \A i \in 0 .. n : u[i] \in Nat
      <2> DEFINE good == {i \in 0 .. n : u[i] \in Nat}
      <2>1. 0 \in good
            BY <1>6
      <2>2. ASSUME NEW i \in 1 .. n, i - 1 \in good PROVE i \in good
            <3>1. i \in 0 .. n /\ u[i - 1] \in Nat
                  BY <2>2
            <3>2. u[i] \in Nat
                  BY <1>6, <3>1
            <3>3. QED
                  BY <3>1, <3>2
      <2>3. \A i \in 0 .. n : i \in good
            <3> HIDE DEF good
            <3>1. QED
                  BY <2>1, <2>2, CountUp
      <2>4. QED
            BY <2>3
<1> DEFINE c == [i \in 0 .. n |-> u[i]]
<1>9. Raising(c, b, n) /\ c[n] = u[n]
      <2>1. c \in [0 .. n -> Nat] /\ c[0] = 1 /\ \A i \in 1 .. n : c[i] = u[i] /\ c[i - 1] = u[i - 1]
            BY <1>6, <1>8
      <2> HIDE DEF c
      <2>2. QED
            BY <1>6, <2>1 DEF Raising, c
<1>10. QED
       BY <1>7, <1>9

\* A power is the base times the power before it.
LEMMA PowerSteps ==
    ASSUME NEW b \in Nat
    PROVE  /\ powerOf(b, 0) = 1
           /\ \A n \in Nat : powerOf(b, n) \in Nat /\ powerOf(b, n + 1) = b * powerOf(b, n)
           /\ b > 0 => \A n \in Nat : powerOf(b, n) > 0
<1>1. powerOf(b, 0) = 1
      <2>1. PICK c : Raising(c, b, 0) /\ powerOf(b, 0) = c[0]
            BY RaisingExists
      <2>2. QED
            BY <2>1 DEF Raising
<1>2. ASSUME NEW n \in Nat
      PROVE  /\ powerOf(b, n) \in Nat /\ powerOf(b, n + 1) = b * powerOf(b, n)
             /\ b > 0 => powerOf(b, n) > 0
      <2>1. PICK c : Raising(c, b, n) /\ powerOf(b, n) = c[n]
            BY RaisingExists
      <2>2. PICK d : Raising(d, b, n + 1) /\ powerOf(b, n + 1) = d[n + 1]
            BY RaisingExists
      <2>3. /\ c \in [0 .. n -> Nat] /\ c[0] = 1 /\ \A i \in 1 .. n : c[i] = b * c[i - 1]
            /\ d[0] = 1 /\ \A i \in 1 .. n + 1 : d[i] = b * d[i - 1]
            BY <2>1, <2>2 DEF Raising
      <2> DEFINE good == {i \in 0 .. n : c[i] = d[i] /\ (b > 0 => c[i] > 0)}
      <2>4. 0 \in good
            BY <2>3
      <2>5. ASSUME NEW i \in 1 .. n, i - 1 \in good PROVE i \in good
            <3>1. i \in 0 .. n /\ i - 1 \in 0 .. n /\ i \in 1 .. n + 1
                  OBVIOUS
            <3>2. c[i - 1] = d[i - 1] /\ (b > 0 => c[i - 1] > 0) /\ c[i - 1] \in Nat
                  BY <2>3, <2>5, <3>1
            <3>3. c[i] = b * c[i - 1] /\ d[i] = b * d[i - 1]
                  BY <2>3, <3>1
            <3> DEFINE a == c[i - 1]
            <3>4. b > 0 /\ a > 0 => b * a > 0
                  <4>1. a \in Nat
                        BY <3>2
                  <4> HIDE DEF a
                  <4>2. QED
                        BY <4>1
            <3>5. QED
                  BY <3>1, <3>2, <3>3, <3>4
      <2>6. n \in good
            <3> HIDE DEF good
            <3>1. n \in 0 .. n
                  OBVIOUS
            <3>2. QED
                  BY <2>4, <2>5, <3>1, CountUp
      <2>7. d[n + 1] = b * d[n]
            <3>1. n + 1 \in 1 .. n + 1 /\ (n + 1) - 1 = n
                  OBVIOUS
            <3>2. QED
                  BY <2>3, <3>1
      <2>8. QED
            BY <2>1, <2>2, <2>3, <2>6, <2>7
<1>3. QED
      BY <1>1, <1>2

\* The product of two powers.
LEMMA PowersAdd ==
    ASSUME NEW b \in Nat, NEW m \in Nat, NEW n \in Nat
    PROVE  powerOf(b, m + n) = powerOf(b, m) * powerOf(b, n)
<1> DEFINE good == {i \in 0 .. n : powerOf(b, m + i) = powerOf(b, m) * powerOf(b, i)}
<1>1. 0 \in good
      <2>1. m + 0 = m /\ powerOf(b, 0) = 1 /\ powerOf(b, m) \in Nat
            BY PowerSteps
      <2>2. QED
            BY <2>1
<1>2. ASSUME NEW i \in 1 .. n, i - 1 \in good PROVE i \in good
      <2> DEFINE j == i - 1
                 x == powerOf(b, m)
                 y == powerOf(b, j)
      <2>1. j \in Nat /\ m + j \in Nat /\ j + 1 = i /\ (m + j) + 1 = m + i /\ i \in 0 .. n
            OBVIOUS
      <2>2. powerOf(b, m + j) = x * y
            BY <1>2
      <2> HIDE DEF j
      <2>3. /\ powerOf(b, m + i) = b * powerOf(b, m + j) /\ powerOf(b, i) = b * y
            /\ x \in Nat /\ y \in Nat
            BY <2>1, PowerSteps
      <2> HIDE DEF x, y
      <2>4. b * (x * y) = x * (b * y)
            BY <2>3
      <2>5. QED
            BY <2>1, <2>2, <2>3, <2>4 DEF x
<1>3. n \in good
      <2> HIDE DEF good
      <2>1. n \in 0 .. n
            OBVIOUS
      <2>2. QED
            BY <1>1, <1>2, <2>1, CountUp
<1>4. QED
      BY <1>3

\* Powers grow.
LEMMA PowersGrow ==
    ASSUME NEW b \in Nat \ {0}, NEW m \in Nat, NEW n \in Nat, m <= n
    PROVE  powerOf(b, m) \in Nat /\ powerOf(b, n) \in Nat /\ powerOf(b, m) > 0 /\ powerOf(b, m) <= powerOf(b, n)
<1> DEFINE d == n - m
<1>1. d \in Nat /\ m + d = n /\ b \in Nat /\ b > 0
      OBVIOUS
<1> HIDE DEF d
<1>2. powerOf(b, n) = powerOf(b, m) * powerOf(b, d)
      BY <1>1, PowersAdd
<1>3. powerOf(b, m) \in Nat /\ powerOf(b, d) \in Nat /\ powerOf(b, m) > 0 /\ powerOf(b, d) > 0 /\ powerOf(b, n) \in Nat
      BY <1>1, PowerSteps
<1> DEFINE x == powerOf(b, m)
           y == powerOf(b, d)
<1>4. x * 1 <= x * y /\ x * 1 = x
      <2>1. x \in Nat /\ y \in Nat /\ 1 <= y
            BY <1>3
      <2> HIDE DEF x, y
      <2>2. QED
            BY <2>1, ProductGrows
<1>5. QED
      BY <1>2, <1>3, <1>4

\* A power of 4 is a power of 2.
LEMMA FoursAreTwos ==
    ASSUME NEW n \in Nat
    PROVE  powerOf(4, n) = powerOf(2, 2 * n)
<1> DEFINE good == {i \in 0 .. n : powerOf(4, i) = powerOf(2, 2 * i)}
<1>1. 0 \in good
      <2>1. powerOf(4, 0) = 1 /\ powerOf(2, 0) = 1 /\ 2 * 0 = 0
            BY PowerSteps
      <2>2. QED
            BY <2>1
<1>2. ASSUME NEW i \in 1 .. n, i - 1 \in good PROVE i \in good
      <2> DEFINE j == i - 1
                 x == powerOf(2, 2 * j)
      <2>1. j \in Nat /\ 2 * j \in Nat /\ 2 * j + 1 \in Nat /\ j + 1 = i /\ (2 * j + 1) + 1 = 2 * i /\ i \in 0 .. n
            OBVIOUS
      <2>2. powerOf(4, j) = x
            BY <1>2
      <2> HIDE DEF j
      <2> DEFINE e == 2 * j
      <2>3. powerOf(4, i) = 4 * powerOf(4, j) /\ powerOf(2, e + 1) = 2 * x /\ x \in Nat
            <3>1. 4 \in Nat /\ 2 \in Nat /\ e \in Nat
                  BY <2>1
            <3> HIDE DEF e
            <3>2. powerOf(4, j + 1) = 4 * powerOf(4, j)
                  BY <2>1, <3>1, PowerSteps, Zenon
            <3>3. powerOf(2, e + 1) = 2 * powerOf(2, e) /\ powerOf(2, e) \in Nat
                  BY <3>1, PowerSteps, Zenon
            <3>4. QED
                  BY <2>1, <3>2, <3>3 DEF e
      <2>4. powerOf(2, 2 * i) = 2 * powerOf(2, e + 1)
            <3>1. 2 \in Nat /\ e + 1 \in Nat
                  BY <2>1
            <3>2. powerOf(2, (e + 1) + 1) = 2 * powerOf(2, e + 1)
                  BY <3>1, PowerSteps, Zenon
            <3>3. QED
                  BY <2>1, <3>2
      <2> HIDE DEF e
      <2> HIDE DEF x
      <2>5. QED
            BY <2>1, <2>2, <2>3, <2>4
<1>3. n \in good
      <2> HIDE DEF good
      <2>1. n \in 0 .. n
            OBVIOUS
      <2>2. QED
            BY <1>1, <1>2, <2>1, CountUp
<1>4. QED
      BY <1>3

\* A quotient is found by the multiples it lies between.
LEMMA QuotientOnly ==
    ASSUME NEW a \in Nat, NEW d \in Nat \ {0}, NEW q \in Nat, d * q <= a, a < d * q + d
    PROVE  a \div d = q
<1> DEFINE x == a \div d
<1>1. x \in Nat /\ d * x <= a /\ a < d * x + d
      BY QuotientIs
<1> HIDE DEF x
<1>2. ~(x + 1 <= q)
      <2>1. ASSUME x + 1 <= q PROVE FALSE
            <3>1. d * (x + 1) <= d * q
                  BY <1>1, <2>1, ProductGrows
            <3>2. d * (x + 1) = d * x + d /\ d * x \in Nat /\ d * q \in Nat
                  BY <1>1
            <3>3. QED
                  BY <1>1, <3>1, <3>2
      <2>2. QED
            BY <2>1
<1>3. ~(q + 1 <= x)
      <2>1. ASSUME q + 1 <= x PROVE FALSE
            <3>1. d * (q + 1) <= d * x
                  BY <1>1, <2>1, ProductGrows
            <3>2. d * (q + 1) = d * q + d /\ d * x \in Nat /\ d * q \in Nat
                  BY <1>1
            <3>3. QED
                  BY <1>1, <3>1, <3>2
      <2>2. QED
            BY <2>1
<1>4. x = q
      BY <1>1, <1>2, <1>3
<1>5. QED
      BY <1>4 DEF x
===============================================================================
