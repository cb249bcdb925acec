----------------------------- MODULE ModuleTree -----------------------------
(***************************************************************************)
(* How a message goes through the tree of modules (Animus), and how a      *)
(* child has the walk over the children of its parent stopped or gone on   *)
(* with (the extension Relay).                                             *)
(*                                                                         *)
(* All of it is one thread: a message is a call, and the calls that have   *)
(* not returned are the stack, the running one first.  A frame is          *)
(*   "owner"  a node that has been given a message, its owner or one of    *)
(*            its extensions (Trend, Ramify) running: what they do with it *)
(*            is any sequence of calls;                                    *)
(*   "walk"   to_dextra, calling the child at index `at`;                  *)
(*   "relay"  Relay::laeve, calling the next child before leftgo.          *)
(* The tree is fixed: no session is cloned or destroyed in the meantime,   *)
(* and no two parents refer to one child.                                  *)
(***************************************************************************)
EXTENDS Integers, Sequences

CONSTANTS Animi, NoNode,
          Compactor,   \* the children of a node, in order
          UniqueSub,   \* Animus::unique_sub: -1 (CAN_ALL) or a number
          Relays,      \* the nodes with a Relay
          StopPass,    \* of these, those that pass DMD_STOP_NEXT on (stop_pass)
          GoonPass,    \* of these, those that pass DMD_CONTINUE_NEXT on (goon_pass)
          Subors,      \* values of Pius::subor
          MaxDepth     \* bound: an owner makes no call that brings the stack above it

ASSUME NodesAssumption ==
    /\ NoNode \notin Animi
    /\ \A n \in Animi : Compactor[n] \in Seq(Animi)
    /\ \A n \in Animi : UniqueSub[n] \in Int
    /\ StopPass \cup GoonPass \subseteq Relays /\ Relays \subseteq Animi
    /\ Subors \subseteq Int

\* Every child has one parent and one place.
ASSUME TreeAssumption ==
    \A m, n \in Animi : \A i \in 1 .. Len(Compactor[m]), j \in 1 .. Len(Compactor[n]) :
        Compactor[m][i] = Compactor[n][j] => m = n /\ i = j

VARIABLES stack,   \* the frames, the running one first
          aptus    \* the nodes whose Animus::aptus is set, to their Relay

tree_vars == <<stack, aptus>>

\* `stop`, `again`, `left` are history, of the call the walk is making: a
\* DMD_STOP_NEXT has come that nothing has taken back; since it came, the owner of
\* the node has had its children walked over anew; a walk of the same node, made
\* during this call, has ended with a request it did not look at, and the flag has
\* not been reset since.
Frame == [what : {"owner", "walk", "relay"}, node : Animi, at : Nat, subor : Int,
          stop : BOOLEAN, again : BOOLEAN, left : BOOLEAN]

\* A call that has just been made
Call(what, n, i, sub) == [what |-> what, node |-> n, at |-> i, subor |-> sub,
                          stop |-> FALSE, again |-> FALSE, left |-> FALSE]
Owner(n) == Call("owner", n, 0, -1)
Relay(n) == Call("relay", n, 0, -1)
Walk(n, i, sub) == Call("walk", n, i, sub)
-----------------------------------------------------------------------------
\* The tree

IsChild(n, p) == \E i \in 1 .. Len(Compactor[p]) : Compactor[p][i] = n
Prius(n) == IF \E p \in Animi : IsChild(n, p)
            THEN CHOOSE p \in Animi : IsChild(n, p) ELSE NoNode
Place(n) == CHOOSE i \in 1 .. Len(Compactor[Prius(n)]) : Compactor[Prius(n)][i] = n

\* n and the nodes to the left of it, up to the root: every set that holds n and
\* the prius of each of its nodes holds them.
Above(n) ==
    {m \in Animi : \A S \in SUBSET Animi :
        n \in S /\ (\A k \in S : Prius(k) \in S \cup {NoNode}) => m \in S}
RelaysAbove == [n \in Animi |-> (Above(n) \ {n}) \cap Relays]

\* The node whose Relay takes what n sends to the left, if there is one: a node
\* with no Relay, whose owner does not know these orders, passes them on.
Taker(n) == {p \in RelaysAbove[n] : RelaysAbove[n] = {p} \cup RelaysAbove[p]}

\* The nodes that a DMD_STOP_NEXT from n reaches
Stopped(n) ==
    {p \in RelaysAbove[n] : RelaysAbove[n] \ RelaysAbove[p] \subseteq StopPass \cup {p}}

\* A message with a subor is not for the children that have one of their own.
Skipped(n, sub) == UniqueSub[n] > -1 /\ sub > 0

\* unisub_branch: the place of the child with this subor, the last one if there
\* are several
Branch(n, sub) ==
    {i \in 1 .. Len(Compactor[n]) :
        /\ sub > -1 /\ UniqueSub[Compactor[n][i]] = sub
        /\ \A j \in i + 1 .. Len(Compactor[n]) : UniqueSub[Compactor[n][j]] # sub}

\* (mutant of NextTor) also calls those it should skip
NextTorOfAny(n, from, sub) == {i \in from .. Len(Compactor[n]) : i = from}

\* The place of the first child from `from` on that a walk calls
NextTor(n, from, sub) ==
    {i \in from .. Len(Compactor[n]) :
        /\ ~Skipped(Compactor[n][i], sub)
        /\ \A j \in from .. i - 1 : Skipped(Compactor[n][j], sub)}

TreeTypeOK ==
    /\ stack \in Seq(Frame)
    /\ aptus \subseteq Relays
    \* a walk is calling one of its children, which is not skipped
    /\ \A d \in 1 .. Len(stack) : stack[d].what = "walk" =>
          /\ stack[d].at \in 1 .. Len(Compactor[stack[d].node])
          /\ d > 1 /\ stack[d - 1] = Owner(Compactor[stack[d].node][stack[d].at])
          /\ ~Skipped(stack[d - 1].node, stack[d].subor)
-----------------------------------------------------------------------------
\* The call running, and the frames below it

Running(n) == stack # <<>> /\ Head(stack) = Owner(n)
Below == Tail(stack)
CalledByWalk == Len(stack) > 1 /\ stack[2].what = "walk"
Room(s) == Len(s) <= MaxDepth

IsWalkOf(f, n) == f.what = "walk" /\ f.node = n

\* The frame at d is that of the innermost walk over the children of its node.
Innermost(s, d) ==
    /\ s[d].what = "walk"
    /\ \A k \in 1 .. d - 1 : ~IsWalkOf(s[k], s[d].node)

MarkStop(s, N) ==
    [d \in 1 .. Len(s) |-> IF s[d].node \in N /\ Innermost(s, d)
                           THEN [s[d] EXCEPT !.stop = TRUE, !.again = FALSE] ELSE s[d]]
MarkLeft(s, n) ==
    [d \in 1 .. Len(s) |-> IF s[d].node = n /\ Innermost(s, d)
                           THEN [s[d] EXCEPT !.left = TRUE] ELSE s[d]]
MarkAgain(s, n) ==
    [d \in 1 .. Len(s) |-> IF IsWalkOf(s[d], n)
                           THEN [s[d] EXCEPT !.again = TRUE, !.left = FALSE] ELSE s[d]]
TakeBack(s, n) ==
    [d \in 1 .. Len(s) |-> IF IsWalkOf(s[d], n)
                           THEN [s[d] EXCEPT !.stop = FALSE, !.left = FALSE] ELSE s[d]]

\* The request the walk would end for is its own, or was left by another.
AskedItself(f) == f.stop /\ ~f.again

\* The walk calls the first child from `from` on, or ends.
CallNextTor(n, from, sub, s) ==
    \/ NextTor(n, from, sub) = {} /\ stack' = s
    \/ \E i \in NextTor(n, from, sub) :
          stack' = <<Owner(Compactor[n][i]), Walk(n, i, sub)>> \o s

\* (mutant of ToDextra) does not reset the flag
ToDextraKeepsFlag(n, from, sub, s) ==
    UNCHANGED aptus /\ CallNextTor(n, from, sub, s)

\* to_dextra(pius, from), called with the stack s: the flag is reset, then the
\* first child is called.
ToDextra(n, from, sub, s) ==
    /\ aptus' = IF from <= Len(Compactor[n]) THEN aptus \ {n} ELSE aptus
    /\ CallNextTor(n, from, sub, s)
-----------------------------------------------------------------------------
\* The scheduler, or whatever the owner of n is for, calls it.
Enter(n) ==
    /\ stack = <<>>
    /\ stack' = <<Owner(n)>>
    /\ UNCHANGED aptus

\* aptus->facio(pius): the children are called.
Facio(n, sub) ==
    /\ Running(n) /\ Compactor[n] # <<>>
    /\ ToDextra(n, 1, sub, MarkAgain(stack, n))
    /\ Room(stack')

\* aptus->sponte(pius): the node on the left gets the message.
Sponte(n) ==
    /\ Running(n) /\ Prius(n) # NoNode
    /\ stack' = <<Owner(Prius(n))>> \o stack
    /\ Room(stack')
    /\ UNCHANGED aptus

\* DMD_STOP_NEXT to the left: nothing is called but Relay::laeve, which sets a
\* flag.  (Its want_stop has no effect: the walk throws away what
\* Relay::facio, its only reader, returns.)
DMD_STOP_NEXT(n) ==
    /\ Running(n)
    /\ aptus' = aptus \cup Stopped(n)
    /\ stack' = MarkStop(stack, Stopped(n))

\* (mutant of Continue) resets the flag before it looks for the child
ContinueResetsFirst(p, boy, inv, sub, s) ==
    LET t == (IF p \in GoonPass /\ Prius(p) # NoNode THEN <<Relay(p)>> ELSE <<>>) \o s
        i == Place(boy) + 1
    IN IF Prius(boy) # p \/ i > Len(Compactor[p])
       THEN stack' = t /\ aptus' = aptus \ {p}
       ELSE IF inv
       THEN stack' = <<Owner(Compactor[p][i])>> \o t /\ UNCHANGED aptus
       ELSE ToDextra(p, i, sub, TakeBack(t, p))

\* Relay::laeve for DMD_CONTINUE_NEXT at the node p, for the child boy: the
\* next child is called, to the right or, with inv, to the left; if boy is no
\* child of p nobody is.  Then leftgo, if it is passed on.
Continue(p, boy, inv, sub, s) ==
    LET t == (IF p \in GoonPass /\ Prius(p) # NoNode THEN <<Relay(p)>> ELSE <<>>) \o s
        i == Place(boy) + 1
    IN IF Prius(boy) # p \/ i > Len(Compactor[p])
       THEN stack' = t /\ UNCHANGED aptus
       ELSE IF inv
       THEN stack' = <<Owner(Compactor[p][i])>> \o t /\ UNCHANGED aptus
       ELSE ToDextra(p, i, sub, TakeBack(t, p))

DMD_CONTINUE_NEXT(n, inv, sub) ==
    /\ Running(n)
    /\ \E p \in Taker(n) : Continue(p, n, inv, sub, stack)
    /\ Room(stack')

\* DMD_CONTINUE_SELF: the loop that looks for the child that sent it makes its
\* call in its first round, so it is always the first child that is called,
\* whichever that is (Relay.cpp:164-179).  It is not passed on.
DMD_CONTINUE_SELF(n, inv, sub) ==
    /\ Running(n)
    /\ \E p \in Taker(n) :
          IF inv
          THEN stack' = <<Owner(Compactor[p][1])>> \o stack /\ UNCHANGED aptus
          ELSE ToDextra(p, 1, sub, TakeBack(stack, p))
    /\ Room(stack')

\* leftgo: it is to the right that the parent's next child is called.
Leftgo(sub) ==
    /\ stack # <<>> /\ Head(stack).what = "relay"
    /\ LET q == Head(stack).node
       IN \/ Taker(q) = {} /\ stack' = Below /\ UNCHANGED aptus
          \/ \E p \in Taker(q) : Continue(p, q, FALSE, sub, Below)

\* The owner of n returns to who called it, except to a walk.
Return(n) ==
    /\ Running(n) /\ ~CalledByWalk
    /\ stack' = Below
    /\ UNCHANGED aptus

\* The owner of n returns to a walk.  The message may have another subor now,
\* and if a child has it the walk ends with a call of that child.  It has not
\* looked at the flag: if that is set it stays so, and the walk of the same node
\* in whose call this one was made, if there is one, will find it.
Switch(n, sub) ==
    /\ Running(n) /\ CalledByWalk
    /\ LET w == stack[2]
           rest == Tail(Below)
       IN \E i \in Branch(w.node, sub) :
             stack' = <<Owner(Compactor[w.node][i])>> \o
                (IF w.node \in aptus /\ (AskedItself(w) \/ w.left)
                 THEN MarkLeft(rest, w.node) ELSE rest)
    /\ UNCHANGED aptus

\* Or the flag is set: the walk resets it and ends.
Break(n, sub) ==
    /\ Running(n) /\ CalledByWalk
    /\ Branch(stack[2].node, sub) = {}
    /\ stack[2].node \in aptus
    /\ stack' = Tail(Below)
    /\ aptus' = aptus \ {stack[2].node}

\* Or the next child is called, or there is none.
Onward(n, sub) ==
    /\ Running(n) /\ CalledByWalk
    /\ Branch(stack[2].node, sub) = {}
    /\ stack[2].node \notin aptus
    /\ CallNextTor(stack[2].node, stack[2].at + 1, sub, Tail(Below))
    /\ UNCHANGED aptus

TreeInit == stack = <<>> /\ aptus = {}

TreeNext ==
    \/ \E n \in Animi :
          \/ Enter(n) \/ Sponte(n) \/ DMD_STOP_NEXT(n) \/ Return(n)
          \/ \E sub \in Subors :
                \/ Facio(n, sub) \/ Switch(n, sub) \/ Break(n, sub) \/ Onward(n, sub)
                \/ \E inv \in BOOLEAN :
                      DMD_CONTINUE_NEXT(n, inv, sub) \/ DMD_CONTINUE_SELF(n, inv, sub)
    \/ \E sub \in Subors : Leftgo(sub)

TreeSpec == TreeInit /\ [][TreeNext]_tree_vars
-----------------------------------------------------------------------------
\* A frame of the stack, counted from its bottom, before and after a step
Up(s, d) == s[Len(s) + 1 - d]

\* Walks of which the step calls a further child
GoesOn(d) ==
    /\ d <= Len(stack')
    /\ Up(stack, d).what = "walk" /\ Up(stack', d).what = "walk"
    /\ Up(stack', d).at > Up(stack, d).at

\* A child asks with DMD_STOP_NEXT that the walk that is calling it, or one of
\* its neighbours to the left, end there (Relay.cpp:135-138): no further child
\* is called.
StopIsObeyed ==
    [][\A d \in 1 .. Len(stack) : GoesOn(d) => ~Up(stack, d).stop]_tree_vars

\* So it is unless the owner of the node has sent its children another message
\* since: that walk resets the flag both use.  What else goes on in between, the
\* walks of other nodes, requests that reach this one again or pass through it,
\* calls to any depth, lets none be missed; and what takes a request back is a
\* DMD_CONTINUE_NEXT or DMD_CONTINUE_SELF that walks on at this node, no other.
\* (The child that has the message's subor is called even so: the walk looks for
\* it first, Animus.cpp:828-834.)
StopIsObeyedUnlessWalkedAgain ==
    [][\A d \in 1 .. Len(stack) :
          GoesOn(d) => ~Up(stack, d).stop \/ Up(stack, d).again]_tree_vars

\* A walk that the flag ends was itself asked to end by the child it was calling,
\* and its node has not walked anew since; or else (Animus.cpp:828-832) that child
\* had the same node walk again, and that inner walk was asked to end but ended by
\* calling the child its message is for, before it looked at the flag: then the
\* outer walk is cut short by a request that was not for it.  This is the only
\* way: a request that came when no walk was on, or was for an earlier walk, cuts
\* no walk short, however the calls nest and whatever Relays pass it on.
CutShortOnlyIfAsked ==
    [][\A n \in Animi, sub \in Subors :
          Break(n, sub) => AskedItself(stack[2]) \/ stack[2].left]_tree_vars
=============================================================================
