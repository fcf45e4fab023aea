--------------------------- MODULE AlgorithmsProofs ---------------------------
(***************************************************************************)
(* Theorems about two of the algorithms on data: the traversal of JSON     *)
(* values (JsonShape), for values of any number of containers and every    *)
(* nesting limit, and the texts of timestamps (Timestamps), for every base *)
(* and width and any UTC offsets.                                          *)
(***************************************************************************)
EXTENDS JsonShape, Timestamps, SequenceTheorems, WellFoundedInduction, TLAPS

-----------------------------------------------------------------------------
(* JsonShape: the invariant. *)

Frame == [container : Containers, done : Nat]

\* Types, of the stack too.
JsonTypeOK ==
  /\ nesting \in Nat \ {0}
  /\ items \in [Containers -> Seq(Items)]
  /\ stack \in Seq(Frame)
  /\ active \in SUBSET Containers

\* The active calls are a path of references from the value: each container but the
\* innermost has just passed on to the next.
StackIsPath ==
  /\ stack # <<>> => stack[1].container = Root
  /\ \A i \in 1..Depth : stack[i].done <= Len(items[stack[i].container])
  /\ \A i \in 1..(Depth - 1) :
       /\ stack[i].done > 0
       /\ items[stack[i].container][stack[i].done] = stack[i + 1].container

\* An item that a container may have with so many levels left below it.
Passes(item, levels) ==
  item \notin Refused /\ (item \in Containers => IsJson(item, levels))

\* The items a call is done with: not the one that the next call is about.
Behind(i) == IF i = Depth THEN stack[i].done ELSE stack[i].done - 1

\* What is behind a call was found to be JSON.
BehindPasses ==
  \A i \in 1..Depth : \A j \in 1..Behind(i) :
    Passes(items[stack[i].container][j], nesting - i)

\* A verdict ends the traversal.
VerdictEnds == verdict # Undecided => stack = <<>>

ShapeInv ==
  JsonTypeOK /\ ActiveIsPath /\ StackIsPath /\ BehindPasses /\ VerdictEnds /\ VerdictMatches

-----------------------------------------------------------------------------
(* Paths of references. *)

\* A path without its first container is a path from an item of that container.
LEMMA PathTail ==
  ASSUME NEW c \in Containers, NEW n \in Nat, n >= 2, NEW p \in PathsFrom(c, n)
  PROVE  /\ p[2] \in Containers /\ p[2] \in Range(items[c])
         /\ [i \in 1..(n - 1) |-> p[i + 1]] \in PathsFrom(p[2], n - 1)
BY DEF PathsFrom

\* Containers whose items all pass are JSON, with one level more than their items.
LEMMA JsonFromItems ==
  ASSUME JsonTypeOK, NEW c \in Containers, NEW levels \in Nat,
         \A j \in 1..Len(items[c]) : Passes(items[c][j], levels)
  PROVE  IsJson(c, levels + 1)
<1>1. \A item \in Range(items[c]) : Passes(item, levels)
  <2>1. Range(items[c]) = {items[c][j] : j \in 1..Len(items[c])}
    BY DEF Range, JsonTypeOK
  <2> QED BY <2>1
<1>2. ASSUME NEW p \in PathsFrom(c, (levels + 1) + 1) PROVE FALSE
  <2>1. (levels + 1) + 1 \in Nat /\ (levels + 1) + 1 >= 2 /\ ((levels + 1) + 1) - 1 = levels + 1
    OBVIOUS
  <2>2. /\ p[2] \in Containers /\ p[2] \in Range(items[c])
        /\ PathsFrom(p[2], levels + 1) # {}
    BY <2>1, PathTail
  <2> QED BY <1>1, <2>2 DEF Passes, IsJson
<1>3. ASSUME NEW n \in 1..(levels + 1), NEW p \in PathsFrom(c, n)
      PROVE  Range(items[p[n]]) \cap Refused = {}
  <2>1. CASE n = 1
    <3>1. p[n] = c
      BY <2>1 DEF PathsFrom
    <3> QED BY <1>1, <3>1 DEF Passes
  <2>2. CASE n >= 2
    <3> DEFINE q == [i \in 1..(n - 1) |-> p[i + 1]]
    <3>1. IsJson(p[2], levels) /\ q \in PathsFrom(p[2], n - 1)
      BY <1>1, <2>2, PathTail DEF Passes
    <3>2. q[n - 1] = p[n] /\ n - 1 \in 1..levels
      BY <2>2
    <3> HIDE DEF q
    <3> QED BY <3>1, <3>2 DEF IsJson
  <2> QED BY <2>1, <2>2
<1> QED BY <1>2, <1>3 DEF IsJson

\* The containers of the active calls, and the item the innermost is at.
StackPath == [i \in 1..Depth |-> stack[i].container]
ItemPath(item) == [i \in 1..(Depth + 1) |-> IF i <= Depth THEN stack[i].container ELSE item]

\* The active calls are a path.
LEMMA StackPathIsPath ==
  ASSUME JsonTypeOK, StackIsPath, stack # <<>>
  PROVE  StackPath \in PathsFrom(Root, Depth)
<1>1. \A i \in 1..Depth : stack[i] \in Frame
  BY DEF JsonTypeOK, Depth
<1>2. Depth \in Nat \ {0}
  BY DEF JsonTypeOK, Depth
<1>3. ASSUME NEW i \in 1..(Depth - 1)
      PROVE  stack[i + 1].container \in Range(items[stack[i].container])
  <2>1. /\ stack[i].container \in Containers
        /\ stack[i].done \in 1..Len(items[stack[i].container])
        /\ items[stack[i].container][stack[i].done] = stack[i + 1].container
    BY <1>1, <1>2 DEF StackIsPath, Frame
  <2> QED BY <2>1 DEF Range, JsonTypeOK
<1> QED BY <1>1, <1>2, <1>3 DEF PathsFrom, StackPath, StackIsPath, Frame

\* So they are with the item, if it is a container.
LEMMA ItemPathIsPath ==
  ASSUME JsonTypeOK, StackIsPath, stack # <<>>,
         NEW item \in Containers, item \in Range(items[Top.container])
  PROVE  ItemPath(item) \in PathsFrom(Root, Depth + 1)
<1>1. Depth \in Nat \ {0}
  BY DEF JsonTypeOK, Depth
<1>2. StackPath \in PathsFrom(Root, Depth)
  BY StackPathIsPath
<1> QED BY <1>1, <1>2 DEF PathsFrom, StackPath, ItemPath, Top
-----------------------------------------------------------------------------
(* The steps. *)

\* At first there is nothing to be right about.
LEMMA ShapeInit == JsonAssumption /\ JsonInit => ShapeInv
<1> SUFFICES ASSUME JsonAssumption, JsonInit PROVE ShapeInv
  OBVIOUS
<1>1. items \in [Containers -> Seq(Items)] /\ nesting \in Nat \ {0}
  BY DEF JsonAssumption, JsonInit, SeqOf
<1>2. stack = <<>> /\ active = {} /\ verdict = Undecided /\ Depth = 0
  BY DEF JsonInit, NotBegun, Depth
<1> QED
  BY <1>1, <1>2
     DEF ShapeInv, JsonTypeOK, ActiveIsPath, StackIsPath, BehindPasses, VerdictEnds,
         VerdictMatches, JsonAssumption, Undecided, Refused

\* A verdict that holds of the value may be given: nothing stays active.
LEMMA RaiseStep ==
  ASSUME JsonAssumption, ShapeInv, UNCHANGED <<nesting, items>>, NEW why, Raise(why), VerdictMatches'
  PROVE  ShapeInv'
<1>1. stack' = <<>> /\ active' = {} /\ Depth' = 0
  BY DEF Raise, ShapeInv, ActiveIsPath, Depth
<1> QED
  BY <1>1
     DEF ShapeInv, JsonTypeOK, ActiveIsPath, StackIsPath, BehindPasses, VerdictEnds, JsonAssumption

\* The call for the value itself.
LEMMA StartStep == JsonAssumption /\ ShapeInv /\ Start => ShapeInv'
<1> SUFFICES ASSUME JsonAssumption, ShapeInv, Start PROVE ShapeInv'
  OBVIOUS
<1>1. /\ stack' = <<[container |-> Root, done |-> 0]>> /\ active' = {Root}
      /\ verdict = Undecided /\ UNCHANGED <<nesting, items, verdict>>
  BY DEF Start, NotBegun, Enter, ShapeInv, JsonTypeOK, JsonAssumption, Depth
<1>2. Depth' = 1
  BY <1>1 DEF Depth
<1> QED
  BY <1>1, <1>2
     DEF ShapeInv, JsonTypeOK, Frame, ActiveIsPath, StackIsPath, BehindPasses, Behind, VerdictEnds,
         VerdictMatches, JsonAssumption, Undecided, Refused, Items

\* The callers have the item behind them.
LEMMA PassedFrames ==
  ASSUME JsonTypeOK, stack # <<>>, NEW passed, passed = [stack EXCEPT ![Depth].done = @ + 1]
  PROVE  /\ passed \in Seq(Frame) /\ Len(passed) = Depth /\ Depth \in Nat \ {0}
         /\ \A i \in 1..Depth : /\ stack[i] \in Frame
                              /\ passed[i].container = stack[i].container
                              /\ passed[i].done = IF i = Depth THEN stack[i].done + 1
                                                  ELSE stack[i].done
<1>1. Depth \in Nat \ {0} /\ \A i \in 1..Depth : stack[i] \in Frame
  BY DEF JsonTypeOK, Depth
<1>2. /\ DOMAIN passed = 1..Depth
      /\ \A i \in 1..Depth : i # Depth => passed[i] = stack[i]
      /\ passed[Depth] = [stack[Depth] EXCEPT !.done = @ + 1]
  BY <1>1 DEF JsonTypeOK, Depth
<1>3. passed[Depth] = [container |-> stack[Depth].container, done |-> stack[Depth].done + 1]
  BY <1>1, <1>2 DEF Frame
<1>4. \A i \in 1..Depth : passed[i] \in Frame
  BY <1>1, <1>2, <1>3 DEF Frame
<1>5. passed = [i \in 1..Depth |-> passed[i]]
  BY <1>1, <1>2 DEF JsonTypeOK, Depth
<1>6. passed \in Seq(Frame) /\ Len(passed) = Depth
  <2>1. passed \in [1..Depth -> Frame]
    BY <1>4, <1>5
  <2> QED BY <1>1, <2>1
<1> QED BY <1>1, <1>2, <1>3, <1>6

\* What a value is does not change while it is traversed.
LEMMA PassesUnchanged ==
  UNCHANGED <<nesting, items>> => \A item, levels : Passes(item, levels)' <=> Passes(item, levels)
BY DEF Passes, IsJson, PathsFrom

\* Nor do its paths.
LEMMA PathsUnchanged == UNCHANGED <<nesting, items>> => UNCHANGED Paths
BY DEF Paths, PathsFrom

\* An item that is passed by: no container, or one that has been traversed.
LEMMA PassStep ==
  ASSUME JsonAssumption, ShapeInv, stack # <<>>, Top.done < Len(items[Top.container]),
         Passes(items[Top.container][Top.done + 1], nesting - Depth),
         UNCHANGED <<nesting, items, active, verdict>>, stack' = [stack EXCEPT ![Depth].done = @ + 1]
  PROVE  ShapeInv'
<1>1. /\ stack' \in Seq(Frame) /\ Depth' = Depth /\ Depth \in Nat \ {0}
      /\ \A i \in 1..Depth : /\ stack[i] \in Frame
                           /\ stack'[i].container = stack[i].container
                           /\ stack'[i].done = IF i = Depth THEN stack[i].done + 1
                                               ELSE stack[i].done
  BY PassedFrames DEF Depth, ShapeInv
<1>2. stack' # <<>> /\ DOMAIN stack' = 1..Depth /\ DOMAIN stack = 1..Depth
  BY <1>1 DEF ShapeInv, JsonTypeOK, Depth
<1>3. JsonTypeOK'
  BY <1>1 DEF ShapeInv, JsonTypeOK
<1>4. ActiveIsPath'
  BY <1>1, <1>2 DEF ShapeInv, ActiveIsPath, Depth
<1>5. StackIsPath'
  BY <1>1, <1>2 DEF ShapeInv, StackIsPath, Frame, Top
<1>6. BehindPasses'
  <2> SUFFICES ASSUME NEW i \in 1..Depth, NEW j \in 1..Behind(i)'
               PROVE  Passes(items[stack[i].container][j], nesting - i)
    BY <1>1, PassesUnchanged DEF BehindPasses, Depth
  <2>1. CASE j \in 1..Behind(i)
    BY <2>1 DEF ShapeInv, BehindPasses
  <2>2. CASE j \notin 1..Behind(i)
    BY <1>1, <2>2 DEF Behind, Top, Frame
  <2> QED BY <2>1, <2>2
<1>7. VerdictEnds' /\ VerdictMatches'
  BY DEF ShapeInv, VerdictEnds, VerdictMatches, IsJson, PathsFrom, Paths, Refused, Undecided
<1> QED BY <1>3, <1>4, <1>5, <1>6, <1>7 DEF ShapeInv

\* A frame on top of others.
LEMMA AppendFrame ==
  ASSUME NEW s \in Seq(Frame), NEW f \in Frame
  PROVE  /\ Append(s, f) \in Seq(Frame) /\ Len(Append(s, f)) = Len(s) + 1
         /\ DOMAIN Append(s, f) = 1..(Len(s) + 1)
         /\ \A i \in 1..Len(s) : Append(s, f)[i] = s[i]
         /\ Append(s, f)[Len(s) + 1] = f
OBVIOUS

\* A call for an item.
LEMMA CallStep ==
  ASSUME JsonAssumption, ShapeInv, stack # <<>>, Top.done < Len(items[Top.container]),
         NEW item \in Containers, item = items[Top.container][Top.done + 1],
         Depth < nesting, item \notin active,
         NEW passed, passed = [stack EXCEPT ![Depth].done = @ + 1],
         stack' = Append(passed, [container |-> item, done |-> 0]),
         active' = active \cup {item}, UNCHANGED <<nesting, items, verdict>>
  PROVE  ShapeInv'
<1>1. /\ passed \in Seq(Frame) /\ Len(passed) = Depth /\ Depth \in Nat \ {0}
      /\ \A i \in 1..Depth : /\ stack[i] \in Frame
                           /\ passed[i].container = stack[i].container
                           /\ passed[i].done = IF i = Depth THEN stack[i].done + 1
                                               ELSE stack[i].done
  BY PassedFrames DEF ShapeInv
<1>2. /\ stack' \in Seq(Frame) /\ Depth' = Depth + 1 /\ DOMAIN stack' = 1..(Depth + 1)
      /\ \A i \in 1..Depth : stack'[i] = passed[i]
      /\ stack'[Depth + 1] = [container |-> item, done |-> 0]
  <2>1. [container |-> item, done |-> 0] \in Frame
    BY DEF Frame
  <2>2. PICK frame : frame = [container |-> item, done |-> 0]
    OBVIOUS
  <2>3. stack' = Append(passed, frame) /\ frame \in Frame
    BY <2>1, <2>2
  <2>4. /\ stack' \in Seq(Frame) /\ Len(stack') = Depth + 1 /\ DOMAIN stack' = 1..(Depth + 1)
        /\ \A i \in 1..Depth : stack'[i] = passed[i]
        /\ stack'[Depth + 1] = frame
    <3> HIDE DEF Depth
    <3> QED BY ONLY <1>1, <2>3, AppendFrame
  <2> QED BY <2>2, <2>4 DEF Depth
<1>3. DOMAIN stack = 1..Depth
  BY DEF ShapeInv, JsonTypeOK, Depth
<1>4. JsonTypeOK'
  BY <1>2 DEF ShapeInv, JsonTypeOK
<1>5. ActiveIsPath'
  <2>1. \A i \in 1..Depth : stack[i].container # item
    BY <1>3 DEF ShapeInv, ActiveIsPath
  <2>2. \A i \in 1..Depth : stack'[i].container = stack[i].container
    BY <1>1, <1>2
  <2>3. stack'[Depth + 1].container = item /\ Len(stack') = Depth + 1
    BY <1>2 DEF Depth
  <2>4. active' = {stack'[i].container : i \in DOMAIN stack'}
    BY <1>1, <1>2, <1>3, <2>2, <2>3 DEF ShapeInv, ActiveIsPath
  <2>5. \A i, j \in DOMAIN stack' : stack'[i].container = stack'[j].container => i = j
    BY <1>1, <1>2, <1>3, <2>1, <2>2, <2>3 DEF ShapeInv, ActiveIsPath
  <2> QED BY <1>1, <2>3, <2>4, <2>5 DEF ActiveIsPath, ShapeInv, JsonTypeOK, JsonAssumption
<1>6. StackIsPath'
  <2>1. stack'[1].container = Root
    BY <1>1, <1>2 DEF ShapeInv, StackIsPath
  <2>2. \A i \in 1..(Depth + 1) : stack'[i].done <= Len(items[stack'[i].container])
    BY <1>1, <1>2 DEF ShapeInv, JsonTypeOK, StackIsPath, Frame, Top
  <2>3. \A i \in 1..Depth : /\ stack'[i].done > 0
                           /\ items[stack'[i].container][stack'[i].done] = stack'[i + 1].container
    BY <1>1, <1>2 DEF ShapeInv, StackIsPath, Frame, Top
  <2>4. Depth' - 1 = Depth /\ Depth' = Depth + 1 /\ UNCHANGED <<nesting, items>>
    BY <1>1, <1>2
  <2> HIDE DEF Depth
  <2> QED BY <2>1, <2>2, <2>3, <2>4 DEF StackIsPath
<1>7. BehindPasses'
  <2> SUFFICES ASSUME NEW i \in 1..(Depth + 1), NEW j \in 1..Behind(i)'
               PROVE  Passes(items[stack'[i].container][j], nesting - i)
    BY <1>2, PassesUnchanged DEF BehindPasses
  <2>1. i \in 1..Depth /\ j \in 1..Behind(i)
    BY <1>1, <1>2 DEF Behind, Frame
  <2> QED BY <1>1, <1>2, <2>1 DEF ShapeInv, BehindPasses
<1>8. VerdictEnds' /\ VerdictMatches'
  BY DEF ShapeInv, VerdictEnds, VerdictMatches, IsJson, PathsFrom, Paths, Refused, Undecided
<1> QED BY <1>4, <1>5, <1>6, <1>7, <1>8 DEF ShapeInv

\* The loop over the items: a call, an exception or an item passed by.
LEMMA VisitStep == JsonAssumption /\ ShapeInv /\ VisitItem => ShapeInv'
<1> SUFFICES ASSUME JsonAssumption, ShapeInv, VisitItem PROVE ShapeInv'
  OBVIOUS
<1>1. PICK item : item = items[Top.container][Top.done + 1]
  OBVIOUS
<1>2. PICK passed : passed = [stack EXCEPT ![Depth].done = @ + 1]
  OBVIOUS
<1>3. /\ stack # <<>> /\ Top.done < Len(items[Top.container]) /\ UNCHANGED <<nesting, items>>
      /\ IF item \in Containers THEN Enter(item, passed)
         ELSE IF item \in Refused THEN Raise(item)
         ELSE stack' = passed /\ UNCHANGED <<active, verdict>>
  BY <1>1, <1>2 DEF VisitItem
<1>4. /\ Depth \in Nat \ {0} /\ nesting \in Nat /\ Depth <= nesting
      /\ DOMAIN stack = 1..Depth /\ Top \in Frame
  BY <1>3 DEF ShapeInv, JsonTypeOK, ActiveIsPath, Depth, Top
<1>5. item \in Range(items[Top.container])
  BY <1>1, <1>3, <1>4 DEF ShapeInv, JsonTypeOK, Frame, Range
<1>6. CASE item \in Containers /\ Depth >= nesting
  <2>1. Raise("nesting")
    BY <1>3, <1>6 DEF Enter
  <2>2. PathsFrom(Root, nesting + 1) # {}
    BY <1>3, <1>4, <1>5, <1>6, ItemPathIsPath DEF ShapeInv, JsonTypeOK, JsonAssumption
  <2>3. VerdictMatches'
    BY <1>3, <2>1, <2>2 DEF Raise, VerdictMatches, PathsFrom, Refused
  <2> QED BY <1>3, <2>1, <2>3, RaiseStep
<1>7. CASE item \in Containers /\ Depth < nesting /\ item \in active
  <2>1. Raise("cycle")
    BY <1>3, <1>4, <1>7 DEF Enter, ShapeInv, JsonTypeOK, JsonAssumption
  <2>2. ItemPath(item) \in Paths
    <3>1. ItemPath(item) \in PathsFrom(Root, Depth + 1)
      BY <1>3, <1>5, <1>7, ItemPathIsPath DEF ShapeInv
    <3>2. Depth + 1 \in 1..nesting
      BY <1>4, <1>7
    <3> QED BY <3>1, <3>2 DEF Paths
  <2>3. PICK i \in 1..Depth : stack[i].container = item
    BY <1>4, <1>7 DEF ShapeInv, ActiveIsPath
  <2>4. /\ i \in DOMAIN ItemPath(item) /\ Depth + 1 \in DOMAIN ItemPath(item) /\ i # Depth + 1
        /\ ItemPath(item)[i] = ItemPath(item)[Depth + 1]
    BY <1>4, <2>3 DEF ItemPath
  <2>5. VerdictMatches'
    BY <1>3, <2>1, <2>2, <2>4, PathsUnchanged DEF Raise, VerdictMatches, Refused
  <2> QED BY <1>3, <2>1, <2>5, RaiseStep
<1>8. CASE item \in Containers /\ Depth < nesting /\ item \notin active
  <2>1. /\ stack' = Append(passed, [container |-> item, done |-> 0])
        /\ active' = active \cup {item} /\ UNCHANGED <<nesting, items, verdict>>
    BY <1>3, <1>4, <1>8 DEF Enter, ShapeInv, JsonTypeOK, JsonAssumption
  <2> QED BY <1>1, <1>2, <1>3, <1>8, <2>1, CallStep
<1>9. CASE item \notin Containers /\ item \in Refused
  <2>1. Raise(item)
    BY <1>3, <1>9
  <2>2. StackPath \in Paths
    BY <1>3, <1>4, StackPathIsPath DEF ShapeInv, JsonTypeOK, JsonAssumption, Paths
  <2>3. Len(StackPath) = Depth /\ StackPath[Depth] = Top.container
    BY <1>4 DEF StackPath, Top
  <2>4. VerdictMatches'
    BY <1>3, <1>5, <1>9, <2>1, <2>2, <2>3, PathsUnchanged DEF Raise, VerdictMatches, Refused
  <2> QED BY <1>3, <2>1, <2>4, RaiseStep
<1>10. CASE item \notin Containers /\ item \notin Refused
  <2>1. Passes(items[Top.container][Top.done + 1], nesting - Depth)
    BY <1>1, <1>10 DEF Passes
  <2> QED BY <1>2, <1>3, <1>10, <2>1, PassStep
<1> QED BY <1>4, <1>6, <1>7, <1>8, <1>9, <1>10 DEF ShapeInv, JsonTypeOK, JsonAssumption

\* The frames below the top.
LEMMA FrontFrames ==
  ASSUME NEW s \in Seq(Frame), s # <<>>
  PROVE  /\ Front(s) \in Seq(Frame) /\ Len(Front(s)) = Len(s) - 1
         /\ DOMAIN Front(s) = 1..(Len(s) - 1)
         /\ \A i \in 1..(Len(s) - 1) : Front(s)[i] = s[i]
<1>1. PICK n \in Nat : n = Len(s) - 1
  OBVIOUS
<1>2. \A i \in 1..n : s[i] \in Frame
  BY <1>1
<1>3. /\ SubSeq(s, 1, n) \in Seq(Frame)
      /\ Len(SubSeq(s, 1, n)) = IF 1 <= n THEN (n - 1) + 1 ELSE 0
      /\ \A i \in 1..((n - 1) + 1) : SubSeq(s, 1, n)[i] = s[(1 + i) - 1]
  BY ONLY <1>2, SubSeqProperties, n \in Nat, 1 \in Int, n \in Int
<1>4. Front(s) = SubSeq(s, 1, n)
  BY <1>1 DEF Front
<1> QED BY <1>1, <1>3, <1>4

\* A call returns: its container is JSON.
LEMMA LeaveStep == JsonAssumption /\ ShapeInv /\ Leave => ShapeInv'
<1> SUFFICES ASSUME JsonAssumption, ShapeInv, Leave PROVE ShapeInv'
  OBVIOUS
<1>1. /\ stack # <<>> /\ Top.done = Len(items[Top.container])
      /\ active' = active \ {Top.container} /\ stack' = Front(stack)
      /\ verdict' = IF Depth = 1 THEN "accepted" ELSE verdict
      /\ UNCHANGED <<nesting, items>>
  BY DEF Leave
<1>2. /\ Depth \in Nat \ {0} /\ nesting \in Nat /\ Depth <= nesting /\ DOMAIN stack = 1..Depth
      /\ Top \in Frame /\ \A i \in 1..Depth : stack[i] \in Frame
  BY <1>1 DEF ShapeInv, JsonTypeOK, ActiveIsPath, Depth, Top
<1>3. /\ stack' \in Seq(Frame) /\ Depth' = Depth - 1 /\ DOMAIN stack' = 1..(Depth - 1)
      /\ \A i \in 1..(Depth - 1) : stack'[i] = stack[i]
  <2>1. stack \in Seq(Frame)
    BY DEF ShapeInv, JsonTypeOK
  <2> QED BY <1>1, <2>1, FrontFrames DEF Depth
\* All the items of the container pass: so does the container, a level above.
<1>4. IsJson(Top.container, (nesting - Depth) + 1)
  <2>1. nesting - Depth \in Nat /\ Top.container \in Containers
    BY <1>2 DEF ShapeInv, JsonTypeOK, JsonAssumption, Frame
  <2>2. \A j \in 1..Len(items[Top.container]) : Passes(items[Top.container][j], nesting - Depth)
    BY <1>1, <1>2 DEF ShapeInv, BehindPasses, Behind, Top
  <2> QED BY <2>1, <2>2, JsonFromItems DEF ShapeInv
<1>5. JsonTypeOK'
  BY <1>1, <1>3 DEF ShapeInv, JsonTypeOK
<1>6. ActiveIsPath'
  <2>1. \A i \in 1..(Depth - 1) : stack[i].container # Top.container
    BY <1>2 DEF ShapeInv, ActiveIsPath, Top
  <2>2. active' = {stack'[i].container : i \in DOMAIN stack'}
    BY <1>1, <1>2, <1>3, <2>1 DEF ShapeInv, ActiveIsPath, Top
  <2>3. \A i, j \in DOMAIN stack' : stack'[i].container = stack'[j].container => i = j
    BY <1>2, <1>3 DEF ShapeInv, ActiveIsPath
  <2>4. Len(stack') <= nesting
    BY <1>2, <1>3 DEF Depth
  <2> QED BY <1>1, <2>2, <2>3, <2>4 DEF ActiveIsPath
<1>7. StackIsPath'
  <2>1. stack' # <<>> => stack'[1].container = Root
    BY <1>1, <1>2, <1>3 DEF ShapeInv, StackIsPath, Depth
  <2> QED BY <1>1, <1>2, <1>3, <2>1 DEF ShapeInv, StackIsPath
<1>8. BehindPasses'
  <2> SUFFICES ASSUME NEW i \in 1..(Depth - 1), NEW j \in 1..Behind(i)'
               PROVE  Passes(items[stack[i].container][j], nesting - i)
    BY <1>1, <1>3, PassesUnchanged DEF BehindPasses
  <2>1. CASE j \in 1..Behind(i)
    BY <1>2, <2>1 DEF ShapeInv, BehindPasses
  <2>2. CASE j \notin 1..Behind(i)
    <3>1. i = Depth - 1 /\ j = stack[i].done
      BY <1>2, <1>3, <2>2 DEF Behind, Frame
    <3>2. items[stack[i].container][j] = Top.container
      BY <1>2, <3>1 DEF ShapeInv, StackIsPath, Top
    <3>3. nesting - i = (nesting - Depth) + 1
      BY <1>2, <3>1 DEF ShapeInv, JsonTypeOK, JsonAssumption
    <3>4. Top.container \notin Refused
      BY <1>2 DEF ShapeInv, JsonTypeOK, JsonAssumption, Frame
    <3> QED BY <1>4, <3>2, <3>3, <3>4 DEF Passes
  <2> QED BY <2>1, <2>2
<1>9. VerdictEnds'
  <2>1. stack' = <<>> \/ Depth # 1
    BY <1>2, <1>3 DEF Depth
  <2> QED BY <1>1, <2>1 DEF ShapeInv, VerdictEnds
<1>10. VerdictMatches'
  <2>1. CASE Depth = 1
    <3>1. Top.container = Root /\ (nesting - Depth) + 1 = nesting
      BY <1>1, <2>1 DEF ShapeInv, StackIsPath, Top, JsonTypeOK, JsonAssumption
    <3>2. IsJson(Root, nesting)'
      BY <1>1, <1>4, <3>1 DEF IsJson, PathsFrom
    <3> QED BY <1>1, <2>1, <3>2 DEF VerdictMatches, Refused
  <2>2. CASE Depth # 1
    BY <1>1, <2>2 DEF ShapeInv, VerdictEnds, VerdictMatches, Undecided, Refused
  <2> QED BY <2>1, <2>2
<1> QED BY <1>5, <1>6, <1>7, <1>8, <1>9, <1>10 DEF ShapeInv

\* ActiveIsPath and VerdictMatches: _validate_json_shape (_json.py 55-100) accepts a
\* value only if no path of references in it passes MAX_JSON_NESTING containers and
\* every item is JSON, refuses it only for a path that is too long, a cycle or an item
\* that is none, and leaves no container marked active.
THEOREM VerdictCorrect == JsonAssumption => (JsonSpec => []VerdictIsRight)
<1> SUFFICES ASSUME JsonAssumption PROVE JsonSpec => []VerdictIsRight
  OBVIOUS
<1>1. JsonInit => ShapeInv
  BY ShapeInit
<1>2. ShapeInv /\ [JsonNext]_jsonVars => ShapeInv'
  <2> SUFFICES ASSUME ShapeInv, [JsonNext]_jsonVars PROVE ShapeInv'
    OBVIOUS
  <2>1. CASE UNCHANGED jsonVars
    <3>1. UNCHANGED <<nesting, items, stack, active, verdict, Depth, Paths>>
      BY <2>1, PathsUnchanged DEF jsonVars, Depth
    <3>2. JsonTypeOK' /\ ActiveIsPath' /\ StackIsPath' /\ VerdictEnds'
      BY <3>1 DEF ShapeInv, JsonTypeOK, ActiveIsPath, StackIsPath, VerdictEnds
    <3>3. BehindPasses'
      BY <3>1, PassesUnchanged DEF ShapeInv, BehindPasses, Behind
    <3>4. VerdictMatches'
      BY <3>1 DEF ShapeInv, VerdictMatches, IsJson, PathsFrom, Refused
    <3> QED BY <3>2, <3>3, <3>4 DEF ShapeInv
  <2>2. CASE JsonNext
    BY <2>2, StartStep, VisitStep, LeaveStep DEF JsonNext
  <2> QED BY <2>1, <2>2
<1>3. ShapeInv => VerdictIsRight
  BY DEF ShapeInv, VerdictIsRight
<1> QED BY <1>1, <1>2, <1>3, PTL DEF JsonSpec

-----------------------------------------------------------------------------
(* Timestamps: the least number of a set, and the powers of the base. *)

\* A non-empty set of naturals has a least element.
LEMMA LeastExists ==
  ASSUME NEW S \in SUBSET Nat, S # {}
  PROVE  \E m \in S : \A x \in S : m <= x
<1>1. PICK m \in S : \A x \in S : <<x, m>> \notin OpToRel(<, Nat)
  BY NatLessThanWellFounded, WFMin
<1>2. \A x \in S : ~(x < m)
  BY <1>1 DEF OpToRel
<1>3. \A x \in S : x \in Nat /\ m \in Nat
  OBVIOUS
<1>4. \A x \in S : m <= x
  BY <1>2, <1>3
<1> QED BY <1>4

\* The powers exist up to every width: the first width without them would be one
\* more than a width with them.
PowersTo(n) == \E f : f = [k \in 0..n |-> IF k = 0 THEN 1 ELSE Base * f[k - 1]]

LEMMA PowersExist == \A n \in Nat : PowersTo(n)
<1> DEFINE Without == {n \in Nat : ~PowersTo(n)}
<1> SUFFICES ASSUME Without # {} PROVE FALSE
  OBVIOUS
<1>1. PICK n \in Without : \A x \in Without : n <= x
  <2>1. Without \in SUBSET Nat
    OBVIOUS
  <2> HIDE DEF Without
  <2> QED BY <2>1, LeastExists
<1>2. CASE n = 0
  <2> DEFINE one == [k \in 0..0 |-> 1]
  <2>1. one = [k \in 0..0 |-> IF k = 0 THEN 1 ELSE Base * one[k - 1]]
    OBVIOUS
  <2> HIDE DEF one
  <2>2. PowersTo(0)
    BY <2>1 DEF PowersTo
  <2> QED BY <1>2, <2>2
<1>3. CASE n # 0
  <2>1. n - 1 \in Nat /\ PowersTo(n - 1)
    BY <1>1, <1>3
  <2>2. PICK f : f = [k \in 0..(n - 1) |-> IF k = 0 THEN 1 ELSE Base * f[k - 1]]
    BY <2>1 DEF PowersTo
  <2> DEFINE g == [k \in 0..n |-> IF k = n THEN Base * f[n - 1] ELSE f[k]]
  <2>3. \A k \in 0..n : g[k] = IF k = 0 THEN 1 ELSE Base * g[k - 1]
    <3>1. ASSUME NEW k \in 0..(n - 1) PROVE g[k] = IF k = 0 THEN 1 ELSE Base * g[k - 1]
      <4>1. f[k] = IF k = 0 THEN 1 ELSE Base * f[k - 1]
        BY <2>2
      <4> QED BY <4>1
    <3>2. g[n] = Base * g[n - 1]
      BY <1>3
    <3>3. n \in Nat /\ n # 0 /\ \A k \in 0..n : k = n \/ k \in 0..(n - 1)
      BY <1>1, <1>3
    <3> HIDE DEF g
    <3> QED BY <3>1, <3>2, <3>3
  <2>4. g = [k \in 0..n |-> g[k]]
    OBVIOUS
  <2> HIDE DEF g
  <2>5. g = [k \in 0..n |-> IF k = 0 THEN 1 ELSE Base * g[k - 1]]
    BY <2>3, <2>4
  <2>6. PowersTo(n)
    BY <2>5 DEF PowersTo
  <2> QED BY <2>6
<1> QED BY <1>2, <1>3

\* Power is the function its recursion describes.
LEMMA Powers ==
  ASSUME TimestampsAssumption
  PROVE  Power = [n \in 0..(SecondWidth + MicroWidth) |-> IF n = 0 THEN 1 ELSE Base * Power[n - 1]]
<1>1. PowersTo(SecondWidth + MicroWidth)
  BY PowersExist DEF TimestampsAssumption
<1> QED BY <1>1 DEF PowersTo, Power

\* The powers by recursion; they are positive.
LEMMA PowerValues ==
  ASSUME TimestampsAssumption
  PROVE  /\ Power[0] = 1
         /\ \A n \in 1..(SecondWidth + MicroWidth) : Power[n] = Base * Power[n - 1]
         /\ \A n \in 0..(SecondWidth + MicroWidth) : Power[n] \in Nat \ {0}
<1>1. Power[0] = 1
  BY Powers DEF TimestampsAssumption
<1>2. \A n \in 1..(SecondWidth + MicroWidth) : Power[n] = Base * Power[n - 1]
  BY Powers DEF TimestampsAssumption
<1> DEFINE Wrong == {n \in 0..(SecondWidth + MicroWidth) : Power[n] \notin Nat \ {0}}
<1>3. ASSUME Wrong # {} PROVE FALSE
  <2>1. PICK n \in Wrong : \A x \in Wrong : n <= x
    <3>1. Wrong \in SUBSET Nat
      OBVIOUS
    <3> HIDE DEF Wrong
    <3> QED BY <1>3, <3>1, LeastExists
  <2>2. n # 0
    BY <1>1
  <2>3. Power[n - 1] \in Nat \ {0}
    <3>1. n \in Nat \ {0} /\ n - 1 \in 0..(SecondWidth + MicroWidth) /\ ~(n <= n - 1)
      BY <2>1, <2>2 DEF TimestampsAssumption
    <3>2. n - 1 \notin Wrong
      <4> HIDE DEF Wrong
      <4> QED BY <2>1, <3>1
    <3> QED BY <3>1, <3>2
  <2>4. \A b, p \in Nat \ {0} : b * p \in Nat \ {0}
    OBVIOUS
  <2>5. Power[n] \in Nat \ {0}
    BY <1>2, <2>2, <2>3, <2>4 DEF TimestampsAssumption
  <2> QED BY <2>5
<1> QED BY <1>1, <1>2, <1>3

-----------------------------------------------------------------------------
(* Division. *)

\* Quotient and remainder.
LEMMA DivMod ==
  ASSUME NEW a \in Nat, NEW b \in Nat \ {0}
  PROVE  /\ a \div b \in Nat /\ a % b \in 0..(b - 1)
         /\ a = b * (a \div b) + (a % b)
<1>1. a \div b \in Int /\ a % b \in 0..(b - 1) /\ a = b * (a \div b) + (a % b)
  OBVIOUS
<1>2. a \div b >= 0
  OBVIOUS
<1> QED BY <1>1, <1>2

\* Multiplying keeps the order.
LEMMA MulMono ==
  ASSUME NEW a \in Nat, NEW b \in Nat, NEW c \in Nat, a <= b
  PROVE  c * a <= c * b
OBVIOUS

\* The quotient is the only number that leaves a remainder below the divisor.
LEMMA DivUnique ==
  ASSUME NEW a \in Nat, NEW b \in Nat \ {0}, NEW q \in Nat, NEW r \in 0..(b - 1), a = b * q + r
  PROVE  q = a \div b
<1> DEFINE p == a \div b
<1>1. p \in Nat /\ a % b \in 0..(b-1) /\ a = b * p + (a % b)
  BY DivMod
<1> HIDE DEF p
<1>2. ASSUME p >= q + 1 PROVE FALSE
  <2>1. b * p >= b * (q + 1)
    BY <1>1, <1>2, MulMono
  <2>2. b * (q + 1) = b * q + b
    OBVIOUS
  <2> QED BY <1>1, <2>1, <2>2
<1>3. ASSUME q >= p + 1 PROVE FALSE
  <2>1. b * q >= b * (p + 1)
    BY <1>1, <1>3, MulMono
  <2>2. b * (p + 1) = b * p + b
    BY <1>1
  <2> QED BY <1>1, <2>1, <2>2
<1>4. q = p
  BY <1>1, <1>2, <1>3
<1> QED BY <1>4 DEF p

\* Dividing keeps the order.
LEMMA DivMono ==
  ASSUME NEW a \in Nat, NEW c \in Nat, NEW b \in Nat \ {0}, a <= c
  PROVE  a \div b <= c \div b
<1>1. PICK p \in Nat : p = a \div b
  BY DivMod
<1>2. PICK q \in Nat : q = c \div b
  BY DivMod
<1>3. PICK r \in 0..(b - 1) : a = b * p + r
  BY <1>1, DivMod
<1>4. PICK s \in 0..(b - 1) : c = b * q + s
  BY <1>2, DivMod
<1>5. ASSUME p >= q + 1 PROVE FALSE
  <2>1. b * p >= b * (q + 1)
    BY <1>5, MulMono
  <2>2. b * (q + 1) = b * q + b
    OBVIOUS
  <2> QED BY <1>3, <1>4, <2>1, <2>2
<1> QED BY <1>1, <1>2, <1>5

\* Dividing by a product is dividing twice.
LEMMA DivOfDiv ==
  ASSUME NEW a \in Nat, NEW b \in Nat \ {0}, NEW c \in Nat \ {0}
  PROVE  a \div (b * c) = (a \div c) \div b
<1>1. PICK q \in Nat, r \in 0..(c - 1) : q = a \div c /\ a = c * q + r
  BY DivMod
<1>2. PICK p \in Nat, s \in 0..(b - 1) : p = q \div b /\ q = b * p + s
  BY DivMod
<1>3. a = (b * c) * p + (c * s + r)
  <2>1. c * (b * p + s) = (b * c) * p + c * s
    OBVIOUS
  <2>2. a = c * (b * p + s) + r
    BY <1>1, <1>2
  <2>3. (b * c) * p \in Nat /\ c * s \in Nat
    OBVIOUS
  <2>4. \A x, y, z \in Nat : (x + y) + z = x + (y + z)
    OBVIOUS
  <2> QED BY <2>1, <2>2, <2>3, <2>4
<1>4. c * s + r \in 0..(b * c - 1) /\ b * c \in Nat \ {0}
  <2>1. c * s <= c * (b - 1)
    BY MulMono
  <2>2. c * (b - 1) = b * c - c
    OBVIOUS
  <2>3. b * c \in Nat \ {0} /\ c * s \in Nat
    OBVIOUS
  <2> QED BY <2>1, <2>2, <2>3
<1>5. p = a \div (b * c)
  BY <1>3, <1>4, DivUnique
<1> QED BY <1>1, <1>2, <1>5

-----------------------------------------------------------------------------
(* Digits. *)

Widths == 0..(SecondWidth + MicroWidth)

\* What the first i of the digits of n say.
Leading(n, width, i) == n \div Power[width - i]

\* They start from nothing, grow by one digit at a time and end with n.
LEMMA LeadingValues ==
  ASSUME TimestampsAssumption, NEW width \in Widths, NEW n \in 0..(Power[width] - 1)
  PROVE  /\ n \in Nat
         /\ \A i \in 0..width : Leading(n, width, i) \in Nat
         /\ Leading(n, width, 0) = 0
         /\ Leading(n, width, width) = n
         /\ \A i \in 1..width :
              /\ Leading(n, width, i) % Base \in 0..(Base - 1)
              /\ Leading(n, width, i) =
                   Base * Leading(n, width, i - 1) + (Leading(n, width, i) % Base)
<1>1. /\ width \in Nat /\ Base \in Nat \ {0} /\ Power[width] \in Nat \ {0} /\ n \in Nat
      /\ \A i \in 0..width : width - i \in Widths /\ Power[width - i] \in Nat \ {0}
  BY PowerValues DEF TimestampsAssumption, Widths
<1>2. \A i \in 0..width : Leading(n, width, i) \in Nat
  BY <1>1, DivMod DEF Leading
<1>3. Leading(n, width, 0) = 0
  <2>1. n = Power[width] * 0 + n
    BY <1>1
  <2>2. 0 = n \div Power[width]
    BY <1>1, <2>1, DivUnique
  <2> QED BY <1>1, <2>2 DEF Leading
<1>4. Leading(n, width, width) = n
  <2>1. n = 1 * n + 0
    BY <1>1
  <2>2. n = n \div 1
    BY <1>1, <2>1, DivUnique
  <2> QED BY <1>1, <2>2, PowerValues DEF Leading
<1>5. ASSUME NEW i \in 1..width
      PROVE  /\ Leading(n, width, i) % Base \in 0..(Base - 1)
             /\ Leading(n, width, i) =
                  Base * Leading(n, width, i - 1) + (Leading(n, width, i) % Base)
  <2>1. PICK m \in Nat : m = Leading(n, width, i)
    BY <1>2
  <2>2. /\ width - (i - 1) \in 1..(SecondWidth + MicroWidth)
        /\ (width - (i - 1)) - 1 = width - i
    BY <1>1 DEF TimestampsAssumption, Widths
  <2>3. Power[width - (i - 1)] = Base * Power[width - i]
    BY <2>2, PowerValues
  <2>4. Leading(n, width, i - 1) = m \div Base
    BY <1>1, <2>1, <2>3, DivOfDiv DEF Leading
  <2> QED BY <1>1, <2>1, <2>4, DivMod
<1> QED BY <1>1, <1>2, <1>3, <1>4, <1>5

\* So many digits, each the last of what they say with it.
LEMMA DigitsType ==
  ASSUME TimestampsAssumption, NEW width \in Widths, NEW n \in 0..(Power[width] - 1)
  PROVE  /\ Digits(n, width) \in Seq(1..Base) /\ Len(Digits(n, width)) = width
         /\ \A i \in 1..width : Digits(n, width)[i] = (Leading(n, width, i) % Base) + 1
<1>1. width \in Nat /\ Base \in Nat
  BY DEF TimestampsAssumption, Widths
<1>2. Digits(n, width) = [i \in 1..width |-> (Leading(n, width, i) % Base) + 1]
  BY DEF Digits, Digit, Leading
<1>3. \A i \in 1..width : (Leading(n, width, i) % Base) + 1 \in 1..Base
  BY <1>1, LeadingValues
<1>4. Digits(n, width) \in [1..width -> 1..Base]
  BY <1>2, <1>3
<1> QED BY <1>1, <1>2, <1>4

\* Of two numbers of so many digits the smaller has the smaller digit where they
\* first differ.
LEMMA DigitsOrder ==
  ASSUME TimestampsAssumption, NEW width \in Widths,
         NEW m \in 0..(Power[width] - 1), NEW n \in 0..(Power[width] - 1), m < n
  PROVE  \E i \in 1..width :
           /\ Digits(m, width)[i] < Digits(n, width)[i]
           /\ \A j \in 1..(i - 1) : Digits(m, width)[j] = Digits(n, width)[j]
<1>1. width \in Nat /\ Base \in Nat \ {0} /\ m \in Nat /\ n \in Nat
  BY LeadingValues DEF TimestampsAssumption, Widths
<1> DEFINE Differ == {i \in 0..width : Leading(m, width, i) # Leading(n, width, i)}
<1>2. PICK i \in Differ : \A x \in Differ : i <= x
  <2>1. Differ \in SUBSET Nat
    BY <1>1
  <2>2. width \in Differ
    BY <1>1, LeadingValues
  <2> HIDE DEF Differ
  <2> QED BY <2>1, <2>2, LeastExists
<1>3. i \in 1..width
  <2>1. 0 \notin Differ
    BY LeadingValues
  <2> QED BY <1>1, <2>1
<1>4. \A j \in 0..(i - 1) : Leading(m, width, j) = Leading(n, width, j)
  <2>1. \A j \in 0..(i - 1) : j \notin Differ /\ j \in 0..width
    <3> HIDE DEF Differ
    <3> QED BY <1>1, <1>2, <1>3
  <2> QED BY <2>1
<1>5. Leading(m, width, i) < Leading(n, width, i)
  <2>1. /\ width - i \in Widths /\ Power[width - i] \in Nat \ {0}
        /\ Leading(m, width, i) \in Nat /\ Leading(n, width, i) \in Nat
    BY <1>1, <1>3, PowerValues, LeadingValues DEF Widths, TimestampsAssumption
  <2>2. Leading(m, width, i) <= Leading(n, width, i)
    BY <1>1, <2>1, DivMono DEF Leading
  <2>3. Leading(m, width, i) # Leading(n, width, i)
    BY <1>2
  <2> QED BY <2>1, <2>2, <2>3
<1>6. Leading(m, width, i) % Base < Leading(n, width, i) % Base
  <2>1. Leading(m, width, i - 1) = Leading(n, width, i - 1)
    BY <1>3, <1>4
  <2>2. /\ Leading(m, width, i) = Base * Leading(m, width, i - 1) + (Leading(m, width, i) % Base)
        /\ Leading(n, width, i) = Base * Leading(n, width, i - 1) + (Leading(n, width, i) % Base)
        /\ Leading(m, width, i) % Base \in 0..(Base - 1)
        /\ Leading(n, width, i) % Base \in 0..(Base - 1)
    BY <1>3, LeadingValues
  <2>3. Base * Leading(m, width, i - 1) \in Nat
    BY <1>1, <1>3, LeadingValues
  <2>4. \A k, x, y \in Nat : k + x < k + y => x < y
    OBVIOUS
  <2>5. 0..(Base - 1) \subseteq Nat
    BY <1>1
  <2> QED BY <1>5, <2>1, <2>2, <2>3, <2>4, <2>5
<1>7. Digits(m, width)[i] < Digits(n, width)[i]
  BY <1>1, <1>3, <1>6, DigitsType, LeadingValues
<1>8. \A j \in 1..(i - 1) : Digits(m, width)[j] = Digits(n, width)[j]
  BY <1>3, <1>4, DigitsType
<1> QED BY <1>3, <1>7, <1>8

-----------------------------------------------------------------------------
(* Texts. *)

\* What a concatenation holds, and where.
LEMMA ConcatShape ==
  ASSUME NEW s \in Seq(Int), NEW t \in Seq(Int)
  PROVE  /\ s \o t \in Seq(Int) /\ Len(s \o t) = Len(s) + Len(t)
         /\ \A i \in 1..Len(s) : (s \o t)[i] = s[i]
         /\ \A i \in 1..Len(t) : (s \o t)[Len(s) + i] = t[i]
OBVIOUS

Joins(u, s, t) ==
  /\ u \in Seq(Int) 
  /\ Len(u) = Len(s) + Len(t)
  /\ \A i \in 1..Len(s) : u[i] = s[i]
  /\ \A i \in 1..Len(t) : u[Len(s) + i] = t[i]

LEMMA Concat == \A s, t \in Seq(Int) : Joins(s \o t, s, t)
BY ConcatShape DEF Joins

\* The text of a second and a fraction in to_sortable_iso.
Key(second, micro) == Digits(second, SecondWidth) \o Fraction(micro) \o <<Zed>>

\* Its digits, the dot and the Z are at the same places in every such text.
LEMMA KeyShape ==
  ASSUME TimestampsAssumption, NEW second \in Seconds, NEW micro \in Micros
  PROVE  /\ Key(second, micro) \in Seq(Int)
         /\ Len(Key(second, micro)) = SecondWidth + MicroWidth + 2
         /\ \A i \in 1..SecondWidth : Key(second, micro)[i] = Digits(second, SecondWidth)[i]
         /\ Key(second, micro)[SecondWidth + 1] = Dot
         /\ \A i \in 1..MicroWidth :
              Key(second, micro)[SecondWidth + 1 + i] = Digits(micro, MicroWidth)[i]
         /\ Key(second, micro)[SecondWidth + MicroWidth + 2] = Zed
<1>1. SecondWidth \in Widths /\ MicroWidth \in Widths
  BY DEF TimestampsAssumption, Widths
<1>2. PICK a \in Seq(Int) : a = Digits(second, SecondWidth) /\ SecondWidth = Len(a)
  BY <1>1, DigitsType DEF Seconds, TimestampsAssumption
<1>3. PICK b \in Seq(Int) : b = Digits(micro, MicroWidth) /\ MicroWidth = Len(b)
  BY <1>1, DigitsType DEF Micros, TimestampsAssumption
<1>4. <<Dot>> \in Seq(Int) /\ Len(<<Dot>>) = 1 /\ <<Dot>>[1] = Dot
  BY DEF Dot
<1>5. <<Zed>> \in Seq(Int) /\ Len(<<Zed>>) = 1 /\ <<Zed>>[1] = Zed
  BY DEF Zed, TimestampsAssumption
<1>6. PICK dot, zed : dot = <<Dot>> /\ zed = <<Zed>>
  OBVIOUS
<1>7. /\ dot \in Seq(Int) /\ Len(dot) = 1 /\ dot[1] = Dot
      /\ zed \in Seq(Int) /\ Len(zed) = 1 /\ zed[1] = Zed
  BY <1>4, <1>5, <1>6
<1>8. PICK key : key = Key(second, micro)
  OBVIOUS
<1>9. key = (a \o (dot \o b)) \o zed
  BY <1>2, <1>3, <1>6, <1>8 DEF Key, Fraction
<1>10. PICK c \in Seq(Int) : c = dot \o b /\ Joins(c, dot, b)
  BY <1>7, ConcatShape, Concat, Zenon
<1>11. PICK d \in Seq(Int) : d = a \o c /\ Joins(d, a, c)
  BY <1>10, ConcatShape, Concat, Zenon
<1>12. key \in Seq(Int) /\ Joins(key, d, zed)
  <2>1. key = d \o zed
    BY <1>9, <1>10, <1>11, Zenon
  <2> QED BY <1>7, <2>1, Concat, Zenon DEF Joins
<1>13. Joins(c, dot, b) /\ Joins(d, a, c) /\ Joins(key, d, zed)
  BY <1>10, <1>11, <1>12, Zenon
<1>14. PICK m, n \in Nat : m = SecondWidth /\ n = MicroWidth /\ m = Len(a) /\ n = Len(b)
  BY <1>2, <1>3 DEF TimestampsAssumption
<1>15. Len(dot) = 1 /\ Len(zed) = 1
  BY <1>7
<1>16. Len(c) = 1 + n /\ c[1] = dot[1]
  <2>1. \A i \in 1..Len(dot) : c[i] = dot[i]
    BY <1>13 DEF Joins
  <2>2. 1 \in 1..Len(dot)
    BY <1>15
  <2>3. Len(c) = 1 + n
    BY <1>13, <1>14, <1>15 DEF Joins
  <2>4. c[1] = dot[1]
    BY <2>1, <2>2, Zenon
  <2> QED BY <2>3, <2>4
<1>17. \A i \in 1..n : c[1 + i] = b[i]
  BY <1>13, <1>14, <1>15 DEF Joins
<1>18. /\ Len(d) = m + (1 + n)
       /\ \A i \in 1..m : d[i] = a[i]
       /\ \A i \in 1..(1 + n) : d[m + i] = c[i]
  BY <1>7, <1>13, <1>14, <1>16 DEF Joins
<1>19. Len(key) = (m + (1 + n)) + 1 /\ \A i \in 1..(m + (1 + n)) : key[i] = d[i]
  BY <1>13, <1>14, <1>15, <1>18 DEF Joins
<1>20. key[(m + (1 + n)) + 1] = zed[1]
  <2>1. \A i \in 1..Len(zed) : key[Len(d) + i] = zed[i]
    BY <1>13 DEF Joins
  <2>2. 1 \in 1..Len(zed)
    BY <1>15
  <2>3. key[Len(d) + 1] = zed[1]
    BY <2>1, <2>2, Zenon
  <2> QED BY <1>18, <2>3
<1>21. \A i \in 1..m : key[i] = a[i]
  BY ONLY <1>18, <1>19, m \in Nat, n \in Nat
<1>22. key[m + 1] = dot[1]
  BY ONLY <1>16, <1>18, <1>19, m \in Nat, n \in Nat
<1>23. ASSUME NEW i \in 1..n PROVE key[m + 1 + i] = b[i]
  <2>1. 1 + i \in 1..(1 + n) /\ m + (1 + i) \in 1..(m + (1 + n)) /\ m + 1 + i = m + (1 + i)
    OBVIOUS
  <2> QED BY <1>17, <1>18, <1>19, <2>1
<1>24. key[m + n + 2] = zed[1] /\ Len(key) = m + n + 2
  BY ONLY <1>19, <1>20, m \in Nat, n \in Nat
<1> QED BY <1>2, <1>3, <1>7, <1>8, <1>12, <1>14, <1>21, <1>22, <1>23, <1>24, Zenon

\* Seconds and microseconds are naturals; a fraction is less than a second.
LEMMA SecondsMicros ==
  ASSUME TimestampsAssumption
  PROVE  /\ SecondWidth \in Widths /\ MicroWidth \in Widths
         /\ SecondWidth \in Nat \ {0} /\ MicroWidth \in Nat \ {0}
         /\ Seconds \subseteq Nat /\ Micros \subseteq Nat
         /\ Power[MicroWidth] \in Nat \ {0} /\ \A u \in Micros : u < Power[MicroWidth]
<1>1. SecondWidth \in Widths /\ MicroWidth \in Widths
  BY DEF TimestampsAssumption, Widths
<1>2. Power[SecondWidth] \in Nat \ {0} /\ Power[MicroWidth] \in Nat \ {0}
  BY <1>1, PowerValues DEF Widths
<1> QED BY <1>1, <1>2 DEF TimestampsAssumption, Seconds, Micros

\* Of two texts of the same length at most one is before the other.
LEMMA TextLessIsStrict ==
  ASSUME NEW s \in Seq(Int), NEW t \in Seq(Int), Len(s) = Len(t), TextLess(s, t)
  PROVE  ~TextLess(t, s) /\ s # t
<1>1. PICK n \in Nat : n = Len(s) /\ n = Len(t) /\ DOMAIN s = 1..n /\ DOMAIN t = 1..n
  OBVIOUS
<1>2. PICK i \in 1..n : (\A j \in 1..(i - 1) : s[j] = t[j]) /\ s[i] < t[i]
  BY <1>1 DEF TextLess
<1>3. ASSUME TextLess(t, s) PROVE FALSE
  <2>1. PICK k \in 1..n : (\A j \in 1..(k - 1) : t[j] = s[j]) /\ t[k] < s[k]
    BY <1>1, <1>3 DEF TextLess
  <2>2. s[i] \in Int /\ t[i] \in Int /\ s[k] \in Int /\ t[k] \in Int
    BY <1>1
  <2>3. CASE i < k
    BY <1>2, <2>1, <2>2, <2>3
  <2>4. CASE k < i
    BY <1>2, <2>1, <2>2, <2>4
  <2>5. CASE i = k
    BY <1>2, <2>1, <2>2, <2>5
  <2> QED BY <2>3, <2>4, <2>5
<1>4. s # t
  <2>1. s[i] \in Int /\ t[i] \in Int
    BY <1>1
  <2> QED BY <1>2, <2>1
<1> QED BY <1>3, <1>4

\* Texts are in the order of what they say: the second, then the fraction.
LEMMA KeyLess ==
  ASSUME TimestampsAssumption, NEW s \in Seconds, NEW t \in Seconds,
         NEW u \in Micros, NEW v \in Micros, s < t \/ (s = t /\ u < v)
  PROVE  TextLess(Key(s, u), Key(t, v))
<1>1. PICK n \in Nat : n = SecondWidth + MicroWidth + 2
  BY DEF TimestampsAssumption
<1>2. DOMAIN Key(s, u) = 1..n /\ DOMAIN Key(t, v) = 1..n
  BY <1>1, KeyShape
<1>3. SecondWidth \in Nat /\ MicroWidth \in Nat
  BY DEF TimestampsAssumption
<1>4. SUFFICES \E i \in 1..n : /\ \A j \in 1..(i - 1) : Key(s, u)[j] = Key(t, v)[j]
                               /\ Key(s, u)[i] < Key(t, v)[i]
  BY <1>2 DEF TextLess
<1>5. CASE s < t
  <2>1. PICK i \in 1..SecondWidth :
          /\ Digits(s, SecondWidth)[i] < Digits(t, SecondWidth)[i]
          /\ \A j \in 1..(i - 1) : Digits(s, SecondWidth)[j] = Digits(t, SecondWidth)[j]
    BY <1>5, SecondsMicros, DigitsOrder DEF Seconds
  <2>2. Key(s, u)[i] < Key(t, v)[i]
    BY <2>1, KeyShape
  <2>3. \A j \in 1..(i - 1) : Key(s, u)[j] = Key(t, v)[j]
    BY <1>3, <2>1, KeyShape
  <2> QED BY <1>1, <1>3, <2>2, <2>3
<1>6. CASE s = t /\ u < v
  <2>1. PICK i \in 1..MicroWidth :
          /\ Digits(u, MicroWidth)[i] < Digits(v, MicroWidth)[i]
          /\ \A j \in 1..(i - 1) : Digits(u, MicroWidth)[j] = Digits(v, MicroWidth)[j]
    BY <1>6, SecondsMicros, DigitsOrder DEF Micros
  <2>2. Key(s, u)[SecondWidth + 1 + i] < Key(t, v)[SecondWidth + 1 + i]
    BY <2>1, KeyShape
  <2>3. ASSUME NEW j \in 1..((SecondWidth + 1 + i) - 1) PROVE Key(s, u)[j] = Key(t, v)[j]
    <3>1. CASE j \in 1..SecondWidth
      BY <1>6, <3>1, KeyShape
    <3>2. CASE j = SecondWidth + 1
      BY <3>2, KeyShape
    <3>3. CASE j > SecondWidth + 1
      <4>1. PICK k \in 1..(i - 1) : j = SecondWidth + 1 + k
        <5>1. j - (SecondWidth + 1) \in 1..(i - 1) /\ j = SecondWidth + 1 + (j - (SecondWidth + 1))
          BY <1>3, <3>3
        <5> QED BY <5>1
      <4>2. k \in 1..MicroWidth
        BY <1>3
      <4> QED BY <2>1, <4>1, <4>2, KeyShape
    <3> QED BY <1>3, <3>1, <3>2, <3>3
  <2>4. SecondWidth + 1 + i \in 1..n
    BY <1>1, <1>3
  <2> QED BY <2>2, <2>3, <2>4
<1> QED BY <1>5, <1>6

\* How many microseconds a second and a fraction are.
Value(second, micro) == second * Power[MicroWidth] + micro

\* They are in the order of seconds first, as the fraction is less than a second.
LEMMA ValueOrder ==
  ASSUME TimestampsAssumption, NEW s \in Seconds, NEW t \in Seconds,
         NEW u \in Micros, NEW v \in Micros
  PROVE  /\ Value(s, u) \in Nat /\ Value(t, v) \in Nat
         /\ (s < t \/ (s = t /\ u < v)) => Value(s, u) < Value(t, v)
<1>1. PICK p \in Nat \ {0} : p = Power[MicroWidth] /\ u < p /\ v < p
  BY SecondsMicros
<1>2. s \in Nat /\ t \in Nat /\ u \in Nat /\ v \in Nat
  BY SecondsMicros
<1>3. s * p \in Nat /\ t * p \in Nat
  BY <1>2
<1>4. ASSUME s < t PROVE s * p + u < t * p + v
  <2>1. p * (s + 1) <= p * t
    BY <1>2, <1>4, MulMono
  <2>2. p * (s + 1) = s * p + p /\ p * t = t * p
    BY <1>2
  <2> QED BY <1>1, <1>2, <1>3, <2>1, <2>2
<1>5. ASSUME s = t, u < v PROVE s * p + u < t * p + v
  BY <1>2, <1>3, <1>5
<1> QED BY <1>1, <1>2, <1>3, <1>4, <1>5 DEF Value

\* Comparing texts is comparing instants.
LEMMA KeyOrder ==
  ASSUME TimestampsAssumption, NEW s \in Seconds, NEW t \in Seconds,
         NEW u \in Micros, NEW v \in Micros
  PROVE  /\ TextLess(Key(s, u), Key(t, v)) <=> Value(s, u) < Value(t, v)
         /\ (TextLess(Key(s, u), Key(t, v)) \/ Key(s, u) = Key(t, v))
              <=> Value(s, u) <= Value(t, v)
<1>1. /\ Key(s, u) \in Seq(Int) /\ Key(t, v) \in Seq(Int) /\ Len(Key(s, u)) = Len(Key(t, v))
      /\ s \in Nat /\ t \in Nat /\ u \in Nat /\ v \in Nat
  BY KeyShape, SecondsMicros
<1>2. CASE s < t \/ (s = t /\ u < v)
  BY <1>2, KeyLess, ValueOrder
<1>3. CASE t < s \/ (t = s /\ v < u)
  <2>1. TextLess(Key(t, v), Key(s, u))
    BY <1>3, KeyLess
  <2>2. ~TextLess(Key(s, u), Key(t, v)) /\ Key(s, u) # Key(t, v)
    BY <1>1, <2>1, TextLessIsStrict
  <2>3. Value(t, v) < Value(s, u) /\ Value(t, v) \in Nat /\ Value(s, u) \in Nat
    BY <1>3, ValueOrder
  <2> QED BY <2>2, <2>3
<1>4. CASE s = t /\ u = v
  <2>1. ~TextLess(Key(s, u), Key(s, u))
    BY <1>1, TextLessIsStrict
  <2>2. Value(s, u) \in Nat
    BY ValueOrder
  <2> QED BY <1>4, <2>1, <2>2
<1> QED BY <1>1, <1>2, <1>3, <1>4

-----------------------------------------------------------------------------
(* Writing and reading. *)

\* A text without a fraction.
Short(second) == Digits(second, SecondWidth) \o <<Zed>>

\* Its digits and the Z.
LEMMA ShortShape ==
  ASSUME TimestampsAssumption, NEW second \in Seconds
  PROVE  /\ Short(second) \in Seq(Int) /\ Len(Short(second)) = SecondWidth + 1
         /\ \A i \in 1..SecondWidth : Short(second)[i] = Digits(second, SecondWidth)[i]
         /\ Short(second)[SecondWidth + 1] = Zed
<1>1. PICK m \in Nat : m = SecondWidth
  BY DEF TimestampsAssumption
<1>2. PICK a \in Seq(Int) : a = Digits(second, SecondWidth) /\ m = Len(a)
  BY <1>1, SecondsMicros, DigitsType DEF Seconds, TimestampsAssumption
<1>3. PICK zed \in Seq(Int) : zed = <<Zed>> /\ Len(zed) = 1 /\ zed[1] = Zed
  <2>1. <<Zed>> \in Seq(Int) /\ Len(<<Zed>>) = 1 /\ <<Zed>>[1] = Zed
    BY DEF Zed, TimestampsAssumption
  <2> QED BY <2>1, Zenon
<1>4. PICK short \in Seq(Int) : short = a \o zed /\ Joins(short, a, zed)
  BY ConcatShape, Concat, Zenon
<1>5. Joins(short, a, zed)
  BY <1>4
<1>6. short = Short(second)
  BY <1>2, <1>3, <1>4 DEF Short
<1>7. Len(zed) = 1
  BY <1>3
<1>8. Len(short) = m + 1 /\ \A i \in 1..m : short[i] = a[i]
  BY <1>2, <1>5, <1>7 DEF Joins
<1>9. short[m + 1] = zed[1]
  <2>1. \A i \in 1..Len(zed) : short[Len(a) + i] = zed[i]
    BY <1>5 DEF Joins
  <2>2. 1 \in 1..Len(zed)
    BY <1>7
  <2>3. short[Len(a) + 1] = zed[1]
    BY <2>1, <2>2, Zenon
  <2> QED BY <1>2, <2>3
<1> QED BY <1>1, <1>2, <1>3, <1>6, <1>8, <1>9, Zenon

\* Only a text with a fraction has a dot: digits and Z are other characters.
LEMMA Dots ==
  ASSUME TimestampsAssumption, NEW second \in Seconds, NEW micro \in Micros
  PROVE  HasDot(Key(second, micro)) /\ ~HasDot(Short(second))
<1>1. SecondWidth \in Nat /\ MicroWidth \in Nat
  BY DEF TimestampsAssumption
<1>2. HasDot(Key(second, micro))
  <2>1. SecondWidth + 1 \in DOMAIN Key(second, micro)
    BY <1>1, KeyShape
  <2> QED BY <2>1, KeyShape DEF HasDot
<1>3. ASSUME NEW i \in DOMAIN Short(second) PROVE Short(second)[i] # Dot
  <2>1. i \in 1..SecondWidth \/ i = SecondWidth + 1
    BY <1>1, ShortShape
  <2>2. CASE i \in 1..SecondWidth
    <3>1. Digits(second, SecondWidth)[i] \in 1..Base
      <4>1. Leading(second, SecondWidth, i) % Base \in 0..(Base - 1)
        BY <2>2, SecondsMicros, LeadingValues DEF Seconds
      <4>2. Digits(second, SecondWidth)[i] = (Leading(second, SecondWidth, i) % Base) + 1
        BY <2>2, SecondsMicros, DigitsType DEF Seconds
      <4> QED BY <4>1, <4>2 DEF TimestampsAssumption
    <3> QED BY <2>2, <3>1, ShortShape DEF Dot, TimestampsAssumption
  <2>3. CASE i = SecondWidth + 1
    BY <2>3, ShortShape DEF Dot, Zed, TimestampsAssumption
  <2> QED BY <2>1, <2>2, <2>3
<1> QED BY <1>2, <1>3 DEF HasDot

\* to_iso and to_sortable_iso write these texts.
LEMMA Written ==
  ASSUME TimestampsAssumption, NEW x \in Aware, InRange(x)
  PROVE  /\ x.second - x.offset \in Seconds /\ x.micro \in Micros
         /\ ToSortableIso(x) = Key(x.second - x.offset, x.micro)
         /\ x.micro # 0 => ToIso(x) = Key(x.second - x.offset, x.micro)
         /\ x.micro = 0 => ToIso(x) = Short(x.second - x.offset)
<1>1. x.second - x.offset \in Seconds /\ x.micro \in Micros
  BY DEF InRange, Aware
<1>2. PICK s \in Seconds : s = x.second - x.offset
  BY <1>1
<1>3. PICK u \in Micros : u = x.micro
  BY <1>1
<1>4. RequireAware(x).second = s /\ RequireAware(x).micro = u
  BY <1>2, <1>3 DEF RequireAware
<1>5. ToSortableIso(x) = Key(s, u)
  BY <1>4, Zenon DEF ToSortableIso, Key
<1>6. ASSUME u # 0 PROVE ToIso(x) = Key(s, u)
  BY <1>4, <1>6, Zenon DEF ToIso, Key
<1>7. ASSUME u = 0 PROVE ToIso(x) = Short(s)
  <2>1. Digits(s, SecondWidth) \in Seq(1..Base)
    BY SecondsMicros, DigitsType DEF Seconds
  <2>2. Digits(s, SecondWidth) \o <<>> = Digits(s, SecondWidth)
    BY <2>1, ConcatEmptySeq, Zenon
  <2>3. ToIso(x) = Digits(s, SecondWidth) \o <<>> \o <<Zed>>
    BY <1>4, <1>7, Zenon DEF ToIso
  <2> QED BY <2>2, <2>3, Zenon DEF Short
<1> QED BY <1>2, <1>3, <1>5, <1>6, <1>7

\* A part of a text is the digits it holds.
LEMMA PartIsDigits ==
  ASSUME TimestampsAssumption, NEW width \in Widths, NEW n \in 0..(Power[width] - 1),
         NEW s \in Seq(Int), NEW first \in Nat,
         first + width <= Len(s), \A i \in 1..width : s[first + i] = Digits(n, width)[i]
  PROVE  SubSeq(s, first + 1, first + width) = Digits(n, width)
<1>1. width \in Nat
  BY DEF Widths, TimestampsAssumption
<1>2. PICK a \in Seq(Int) : a = Digits(n, width) /\ Len(a) = width
  BY DigitsType DEF TimestampsAssumption
<1>3. PICK from, to \in Int : from = first + 1 /\ to = first + width
  BY <1>1
<1>4. \A i \in from..to : s[i] \in Int
  BY <1>1, <1>3
<1>5. PICK part : part = SubSeq(s, from, to)
  OBVIOUS
<1>6. /\ part \in Seq(Int) /\ Len(part) = IF from <= to THEN to - from + 1 ELSE 0
      /\ \A i \in 1..(to - from + 1) : part[i] = s[from + i - 1]
  BY <1>4, <1>5, SubSeqProperties
<1>7. Len(part) = width /\ \A i \in 1..width : part[i] = s[first + i]
  BY <1>1, <1>3, <1>6
<1>8. part = a
  <2>1. /\ part = [i \in 1..width |-> part[i]]
        /\ a = [i \in 1..width |-> a[i]]
    BY <1>1, <1>2, <1>6, <1>7
  <2>2. \A i \in 1..width : part[i] = a[i]
    BY <1>2, <1>7
  <2> QED BY <2>1, <2>2
<1> QED BY <1>2, <1>3, <1>5, <1>8

\* Reading the digits of a number gives the number.
LEMMA NumberOfDigits ==
  ASSUME TimestampsAssumption, NEW width \in Widths, NEW n \in 0..(Power[width] - 1)
  PROVE  Number(Digits(n, width)) = n
<1>1. width \in Nat /\ Len(Digits(n, width)) = width
  BY DigitsType DEF Widths, TimestampsAssumption
<1> DEFINE Reads(v) == v = [k \in 0..width |->
                              IF k = 0 THEN 0
                              ELSE Base * v[k - 1] + (Digits(n, width)[k] - 1)]
           lead == [k \in 0..width |-> Leading(n, width, k)]
<1>2. \E v : Reads(v)
  <2>1. \A k \in 0..width :
          lead[k] = IF k = 0 THEN 0 ELSE Base * lead[k - 1] + (Digits(n, width)[k] - 1)
    <3>1. lead[0] = 0
      BY <1>1, LeadingValues
    <3>2. ASSUME NEW k \in 1..width
          PROVE  lead[k] = Base * lead[k - 1] + (Digits(n, width)[k] - 1)
      <4>1. /\ Leading(n, width, k) % Base \in 0..(Base - 1)
            /\ Leading(n, width, k) =
                 Base * Leading(n, width, k - 1) + (Leading(n, width, k) % Base)
        BY LeadingValues
      <4>2. Digits(n, width)[k] - 1 = Leading(n, width, k) % Base
        BY <4>1, DigitsType DEF TimestampsAssumption
      <4>3. lead[k] = Leading(n, width, k) /\ lead[k - 1] = Leading(n, width, k - 1)
        BY <1>1
      <4> QED BY <4>1, <4>2, <4>3
    <3> HIDE DEF lead
    <3>3. \A k \in 0..width : k = 0 \/ k \in 1..width
      BY <1>1
    <3> QED BY <3>1, <3>2, <3>3
  <2>2. lead = [k \in 0..width |-> lead[k]]
    OBVIOUS
  <2> HIDE DEF lead
  <2>3. Reads(lead)
    BY <2>1, <2>2
  <2> QED BY <2>3
<1>3. PICK v : Reads(v) /\ Number(Digits(n, width)) = v[width]
  BY <1>1, <1>2 DEF Number
<1> DEFINE Wrong == {k \in 0..width : v[k] # Leading(n, width, k)}
<1>4. ASSUME Wrong # {} PROVE FALSE
  <2>1. PICK k \in Wrong : \A x \in Wrong : k <= x
    <3>1. Wrong \in SUBSET Nat
      BY <1>1
    <3> HIDE DEF Wrong
    <3> QED BY <1>4, <3>1, LeastExists
  <2>2. k \in 1..width
    BY <1>1, <1>3, LeadingValues
  <2>3. v[k - 1] = Leading(n, width, k - 1)
    <3>1. k - 1 \notin Wrong
      <4>1. k \in Nat /\ ~(k <= k - 1)
        BY <2>2
      <4> HIDE DEF Wrong
      <4> QED BY <2>1, <4>1
    <3> QED BY <1>1, <2>2, <3>1
  <2>4. v[k] = Base * v[k - 1] + (Digits(n, width)[k] - 1)
    BY <1>1, <1>3, <2>2
  <2>5. /\ Leading(n, width, k) % Base \in 0..(Base - 1)
        /\ Leading(n, width, k) = Base * Leading(n, width, k - 1) + (Leading(n, width, k) % Base)
        /\ Digits(n, width)[k] = (Leading(n, width, k) % Base) + 1
    BY <2>2, LeadingValues, DigitsType
  <2>6. Digits(n, width)[k] - 1 = Leading(n, width, k) % Base
    BY <2>5 DEF TimestampsAssumption
  <2> QED BY <2>3, <2>4, <2>5, <2>6
<1>5. v[width] = Leading(n, width, width)
  BY <1>1, <1>4
<1> QED BY <1>3, <1>5, LeadingValues

\* from_iso reads what to_iso wrote.
LEMMA ReadBack ==
  ASSUME TimestampsAssumption, NEW x \in Aware, InRange(x)
  PROVE  FromIso(ToIso(x)) = RequireAware(x)
<1>1. PICK s \in Seconds, u \in Micros : s = x.second - x.offset /\ u = x.micro
  BY Written
<1>2. /\ SecondWidth \in Nat /\ MicroWidth \in Nat
      /\ SecondWidth \in Widths /\ MicroWidth \in Widths
      /\ s \in 0..(Power[SecondWidth] - 1) /\ u \in 0..(Power[MicroWidth] - 1)
  BY SecondsMicros DEF Seconds, Micros
<1>3. RequireAware(x) = [second |-> s, micro |-> u, offset |-> 0]
  BY <1>1 DEF RequireAware
<1>4. CASE u # 0
  <2>1. PICK key \in Seq(Int) : key = Key(s, u) /\ ToIso(x) = key /\ HasDot(key)
    BY <1>1, <1>4, KeyShape, Written, Dots
  <2>2. SubSeq(key, 0 + 1, 0 + SecondWidth) = Digits(s, SecondWidth)
    <3>1. 0 + SecondWidth <= Len(key)
      BY <1>2, <2>1, KeyShape
    <3>2. \A i \in 1..SecondWidth : key[0 + i] = Digits(s, SecondWidth)[i]
      BY <1>2, <2>1, KeyShape
    <3> QED
      BY ONLY <1>2, <3>1, <3>2, TimestampsAssumption, PartIsDigits, 0 \in Nat, key \in Seq(Int)
  <2>3. SubSeq(key, (SecondWidth + 1) + 1, (SecondWidth + 1) + MicroWidth) = Digits(u, MicroWidth)
    <3>1. (SecondWidth + 1) + MicroWidth <= Len(key) /\ SecondWidth + 1 \in Nat
      BY <1>2, <2>1, KeyShape
    <3>2. \A i \in 1..MicroWidth : key[(SecondWidth + 1) + i] = Digits(u, MicroWidth)[i]
      BY <1>2, <2>1, KeyShape
    <3> QED BY ONLY <1>2, <3>1, <3>2, TimestampsAssumption, PartIsDigits, key \in Seq(Int)
  <2>4. /\ 0 + 1 = 1 /\ 0 + SecondWidth = SecondWidth
        /\ (SecondWidth + 1) + 1 = SecondWidth + 2
        /\ (SecondWidth + 1) + MicroWidth = Len(key) - 1
    BY <1>2, <2>1, KeyShape
  <2>5. /\ SubSeq(key, 1, SecondWidth) = Digits(s, SecondWidth)
        /\ SubSeq(key, SecondWidth + 2, Len(key) - 1) = Digits(u, MicroWidth)
    BY <2>2, <2>3, <2>4
  <2> QED BY <1>2, <1>3, <2>1, <2>5, NumberOfDigits, Zenon DEF FromIso
<1>5. CASE u = 0
  <2>1. PICK short \in Seq(Int) : short = Short(s) /\ ToIso(x) = short /\ ~HasDot(short)
    BY <1>1, <1>5, ShortShape, Written, Dots
  <2>2. SubSeq(short, 0 + 1, 0 + SecondWidth) = Digits(s, SecondWidth)
    <3>1. 0 + SecondWidth <= Len(short)
      BY <1>2, <2>1, ShortShape
    <3>2. \A i \in 1..SecondWidth : short[0 + i] = Digits(s, SecondWidth)[i]
      BY <1>2, <2>1, ShortShape
    <3> QED
      BY ONLY <1>2, <3>1, <3>2, TimestampsAssumption, PartIsDigits, 0 \in Nat, short \in Seq(Int)
  <2>3. SubSeq(short, 1, SecondWidth) = Digits(s, SecondWidth)
    BY <1>2, <2>2
  <2> QED BY <1>2, <1>3, <1>5, <2>1, <2>3, NumberOfDigits, Zenon DEF FromIso
<1> QED BY <1>4, <1>5

\* _sortable_timestamp_sql makes of a stored text the text to_sortable_iso would write.
LEMMA Sortable ==
  ASSUME TimestampsAssumption, NEW x \in Aware, InRange(x)
  PROVE  SortableTimestampSql(ToIso(x)) = ToSortableIso(x)
<1>1. PICK s \in Seconds, u \in Micros : s = x.second - x.offset /\ u = x.micro
  BY Written
<1>2. SecondWidth \in Nat /\ SecondWidth \in Widths /\ s \in 0..(Power[SecondWidth] - 1)
  BY SecondsMicros DEF Seconds
<1>3. CASE u # 0
  BY <1>1, <1>3, Written, Dots DEF SortableTimestampSql
<1>4. CASE u = 0
  <2>1. PICK short \in Seq(Int) : short = Short(s) /\ ToIso(x) = short /\ ~HasDot(short)
    BY <1>1, <1>4, ShortShape, Written, Dots
  <2>2. SubSeq(short, 0 + 1, 0 + SecondWidth) = Digits(s, SecondWidth)
    <3>1. 0 + SecondWidth <= Len(short)
      BY <1>2, <2>1, ShortShape
    <3>2. \A i \in 1..SecondWidth : short[0 + i] = Digits(s, SecondWidth)[i]
      BY <1>2, <2>1, ShortShape
    <3> QED
      BY ONLY <1>2, <3>1, <3>2, TimestampsAssumption, PartIsDigits, 0 \in Nat, short \in Seq(Int)
  <2>3. SubSeq(short, 1, Len(short) - 1) = Digits(s, SecondWidth)
    <3>1. 0 + 1 = 1 /\ 0 + SecondWidth = Len(short) - 1
      BY <1>2, <2>1, ShortShape
    <3> QED BY <2>2, <3>1
  <2>4. SortableTimestampSql(short) = Digits(s, SecondWidth) \o Fraction(0) \o <<Zed>>
    BY <2>1, <2>3, Zenon DEF SortableTimestampSql
  <2>5. SortableTimestampSql(short) = Key(s, u)
    BY <1>4, <2>4, Zenon DEF Key
  <2> QED BY <1>1, <2>1, <2>5, Written
<1> QED BY <1>3, <1>4

-----------------------------------------------------------------------------
(* The theorem. *)

\* The column and the answer come from the datetimes by the functions of the source.
TimeInv ==
  /\ text # None => written \in Aware /\ InRange(written) /\ text = ToIso(written)
  /\ asked # None =>
       /\ text # None /\ asked \in Aware /\ InRange(asked)
       /\ before <=> TextLess(SortableTimestampSql(text), ToSortableIso(asked))
       /\ due <=> \/ TextLess(SortableTimestampSql(text), ToSortableIso(asked))
                 \/ SortableTimestampSql(text) = ToSortableIso(asked)

\* The instant of a datetime is that of its UTC time.
LEMMA InstantIsValue ==
  ASSUME NEW x \in Aware
  PROVE  Instant(x) = Value(x.second - x.offset, x.micro)
BY DEF Instant, Value

\* It is enough that texts are what their writers made of the datetimes.
LEMMA TimeInvMeans == TimestampsAssumption /\ TimeInv => TextsAreInstants
<1> SUFFICES ASSUME TimestampsAssumption, TimeInv PROVE TextsAreInstants
  OBVIOUS
<1>1. TextsOrderAsInstants
  <2> SUFFICES ASSUME asked # None
               PROVE  /\ before <=> Instant(written) < Instant(asked)
                      /\ due <=> Instant(written) <= Instant(asked)
    BY DEF TextsOrderAsInstants
  <2>1. /\ written \in Aware /\ InRange(written) /\ text = ToIso(written)
        /\ asked \in Aware /\ InRange(asked)
    BY DEF TimeInv
  <2>2. PICK s \in Seconds, u \in Micros :
          /\ s = written.second - written.offset /\ u = written.micro
          /\ SortableTimestampSql(text) = Key(s, u)
    BY <2>1, Written, Sortable
  <2>3. PICK t \in Seconds, v \in Micros :
          t = asked.second - asked.offset /\ v = asked.micro /\ ToSortableIso(asked) = Key(t, v)
    BY <2>1, Written
  <2>4. Instant(written) = Value(s, u) /\ Instant(asked) = Value(t, v)
    BY <2>1, <2>2, <2>3, InstantIsValue
  <2>5. /\ before <=> TextLess(Key(s, u), Key(t, v))
        /\ due <=> TextLess(Key(s, u), Key(t, v)) \/ Key(s, u) = Key(t, v)
    BY <2>2, <2>3 DEF TimeInv
  <2> QED BY <2>4, <2>5, KeyOrder
<1>2. TextsKeepInstants
  <2> SUFFICES ASSUME text # None
               PROVE  /\ Instant(FromIso(text)) = Instant(written)
                      /\ ToIso(FromIso(text)) = text
    BY DEF TextsKeepInstants
  <2>1. written \in Aware /\ InRange(written) /\ text = ToIso(written)
    BY DEF TimeInv
  <2>2. FromIso(text) = RequireAware(written)
    BY <2>1, ReadBack
  <2>3. PICK s \in Nat : s = written.second - written.offset
    BY <2>1, Written, SecondsMicros
  <2>4. RequireAware(written) = [second |-> s, micro |-> written.micro, offset |-> 0]
    BY <2>3 DEF RequireAware
  <2>5. Instant(RequireAware(written)) = Instant(written)
    BY <2>3, <2>4 DEF Instant
  <2>6. RequireAware(RequireAware(written)) = RequireAware(written)
    BY <2>3, <2>4 DEF RequireAware
  <2>7. ToIso(RequireAware(written)) = ToIso(written)
    BY <2>6, Zenon DEF ToIso
  <2> QED BY <2>1, <2>2, <2>5, <2>7
<1> QED BY <1>1, <1>2 DEF TextsAreInstants

\* TextsAreInstants: in every base, of every width and for datetimes of any UTC offset,
\* comparing texts as SQL does (_sortable_timestamp_sql, storage.py) is comparing the
\* instants they were written from (to_iso and to_sortable_iso, _time.py), and from_iso
\* reads a text back as its instant.
THEOREM TextsCorrect == TimestampsAssumption => (TimeSpec => []TextsAreInstants)
<1> SUFFICES ASSUME TimestampsAssumption PROVE TimeSpec => []TextsAreInstants
  OBVIOUS
<1>1. TimeInit => TimeInv
  BY DEF TimeInit, TimeInv
<1>2. TimeInv /\ [TimeNext]_timeVars => TimeInv'
  <2> SUFFICES ASSUME TimeInv, [TimeNext]_timeVars PROVE TimeInv'
    OBVIOUS
  <2>1. CASE Write
    BY <2>1 DEF Write, TimeInv
  <2>2. CASE Select
    <3>1. PICK x \in Aware :
            /\ InRange(x) /\ asked' = x
            /\ before' = TextLess(SortableTimestampSql(text), ToSortableIso(x))
            /\ due' = (\/ TextLess(SortableTimestampSql(text), ToSortableIso(x))
                       \/ SortableTimestampSql(text) = ToSortableIso(x))
      BY <2>2 DEF Select
    <3> QED BY <2>2, <3>1 DEF Select, TimeInv
  <2>3. CASE UNCHANGED timeVars
    BY <2>3 DEF timeVars, TimeInv
  <2> QED BY <2>1, <2>2, <2>3 DEF TimeNext
<1> QED BY <1>1, <1>2, TimeInvMeans, PTL DEF TimeSpec
=============================================================================
