------------------------------ MODULE JsonShape ------------------------------
(***************************************************************************)
(* _validate_json_shape (_json.py): the traversal of a caller's value that *)
(* must accept shared references and refuse reference cycles and too deep  *)
(* nesting.  The recursion is a stack of frames, one for each container    *)
(* being iterated.                                                         *)
(***************************************************************************)
EXTENDS Integers, Sequences, FiniteSets, SequencesExt

CONSTANTS
  Containers,  \* the list and dict objects of a value
  Root,        \* the value itself
  MaxItems,    \* bound: items of a container
  Nestings     \* the values of MAX_JSON_NESTING

\* What an item can be, besides a container: a string, a boolean, a finite number or
\* null; a number that is not finite; a value of another type; or any value under a
\* key that is no string.
Refused == {"infinite", "unsupported", "badKey"}
Items   == Containers \cup {"scalar"} \cup Refused

\* What the constants must satisfy.
JsonAssumption ==
  /\ Root \in Containers
  /\ Containers \cap ({"scalar"} \cup Refused) = {}
  /\ MaxItems \in Nat
  /\ Nestings \subseteq Nat \ {0}

VARIABLES
  nesting,  \* MAX_JSON_NESTING; never changes
  items,    \* the items of each container, in order of iteration; never changes
  stack,    \* the active calls, outermost first: container and items done
  active,   \* active_containers
  verdict   \* Undecided, "accepted", or why it was refused

Undecided == "none"
jsonVars == <<nesting, items, stack, active, verdict>>

NotBegun == stack = <<>> /\ active = {} /\ verdict = Undecided

JsonInit ==
  /\ nesting \in Nestings
  /\ items \in [Containers -> SeqOf(Items, MaxItems)]
  /\ NotBegun

-----------------------------------------------------------------------------
Depth == Len(stack)
Top   == stack[Depth]

\* An exception passes every frame; each `finally' removes its container.
Raise(why) ==
  /\ verdict' = why
  /\ stack' = <<>>
  /\ active' = active \ {stack[i].container : i \in DOMAIN stack}

\* A call for a container: the depth first, then the cycle.  `below' is the stack
\* of the callers, which have the item behind them.
Enter(c, below) ==
  IF Depth >= nesting THEN Raise("nesting")
  ELSE IF c \in active THEN Raise("cycle")
  ELSE /\ stack' = Append(below, [container |-> c, done |-> 0])
       /\ active' = active \cup {c}
       /\ UNCHANGED verdict

Start ==
  /\ NotBegun
  /\ Enter(Root, <<>>)
  /\ UNCHANGED <<nesting, items>>

\* The loop over the items of the innermost container.
VisitItem ==
  /\ stack # <<>>
  /\ Top.done < Len(items[Top.container])
  /\ LET item   == items[Top.container][Top.done + 1]
         passed == [stack EXCEPT ![Depth].done = @ + 1]
     IN  IF item \in Containers THEN Enter(item, passed)
         ELSE IF item \in Refused THEN Raise(item)
         ELSE stack' = passed /\ UNCHANGED <<active, verdict>>
  /\ UNCHANGED <<nesting, items>>

\* Mutant: a container stays active when its call returns.
Leave_StaysActive ==
  /\ stack # <<>>
  /\ Top.done = Len(items[Top.container])
  /\ stack' = Front(stack)
  /\ verdict' = IF Depth = 1 THEN "accepted" ELSE verdict
  /\ UNCHANGED <<nesting, items, active>>

\* The call returns.
Leave ==
  /\ stack # <<>>
  /\ Top.done = Len(items[Top.container])
  /\ active' = active \ {Top.container}
  /\ stack' = Front(stack)
  /\ verdict' = IF Depth = 1 THEN "accepted" ELSE verdict
  /\ UNCHANGED <<nesting, items>>

JsonNext == Start \/ VisitItem \/ Leave

JsonSpec == JsonInit /\ [][JsonNext]_jsonVars

-----------------------------------------------------------------------------
(* The reference: the value as a graph of references. *)

\* The paths of n containers from c, each an item of the one before.
PathsFrom(c, n) ==
  {p \in [1..n -> Containers] :
     p[1] = c /\ \A i \in 1..(n - 1) : p[i + 1] \in Range(items[p[i]])}

\* The paths of a call: it may pass that many containers.
Paths == UNION {PathsFrom(Root, n) : n \in 1..nesting}

\* No path from c has more than so many containers, and all they hold is JSON.
IsJson(c, levels) ==
  /\ PathsFrom(c, levels + 1) = {}
  /\ \A n \in 1..levels : \A p \in PathsFrom(c, n) : Range(items[p[n]]) \cap Refused = {}

\* A value is accepted if and only if no path of references is longer than the limit
\* (so there is no cycle) and every item is JSON; a container that is referred to
\* twice is fine.
VerdictMatches ==
  /\ verdict = "accepted" => IsJson(Root, nesting)
  /\ verdict = "nesting"  => PathsFrom(Root, nesting + 1) # {}
  /\ verdict = "cycle"    => \E p \in Paths : \E i, j \in DOMAIN p : i # j /\ p[i] = p[j]
  /\ verdict \in Refused  => \E p \in Paths : verdict \in Range(items[p[Len(p)]])

\* No container is marked active but those of the calls under way, each once: a
\* traversal that ends, by return or by exception, leaves none.
ActiveIsPath ==
  /\ Len(stack) <= nesting
  /\ active = {stack[i].container : i \in DOMAIN stack}
  /\ \A i, j \in DOMAIN stack : stack[i].container = stack[j].container => i = j

\* _validate_json_shape refuses a value exactly for its nesting, for a cycle or for an
\* item that is no JSON, and leaves no container marked.
VerdictIsRight == VerdictMatches /\ ActiveIsPath
=============================================================================
