---------------------------- MODULE AnimusProofs ----------------------------
(***************************************************************************)
(* Proofs about the two halves of the module tree's core, which share no   *)
(* variable: ModuleTree (Animus, Relay) and NostraPool (Nostra).           *)
(***************************************************************************)
EXTENDS ModuleTree, NostraPool, SequenceTheorems, FiniteSetTheorems, TLAPS

(***************************************************************************)
(* ModuleTree: a request to stop a walk is not missed, and another walk    *)
(* obeys it in one case only, for every tree and calls to any depth.       *)
(*                                                                         *)
(* TreeInv relates the flags that are set to the walks under way: the      *)
(* innermost walk of a node whose flag is set was asked to stop, or a walk *)
(* made within it left the flag set; and a walk that was asked, and whose  *)
(* node has not walked again, is innermost and its flag is set.            *)
(***************************************************************************)
\* What follows is said of the frames s and of the set A of flags.
\* The walk at d is calling one of its children, which is not skipped.
CallsItsChild(s, d) ==
    /\ s[d].at \in 1 .. Len(Compactor[s[d].node])
    /\ d > 1 /\ s[d - 1] = Owner(Compactor[s[d].node][s[d].at])
    /\ ~Skipped(s[d - 1].node, s[d].subor)

Calling(s) == \A d \in 1 .. Len(s) : s[d].what = "walk" => CallsItsChild(s, d)

\* The walk that the flag of a node would end, the innermost one, was asked to
\* end and its node has not walked since, or another walk left the flag set.
SetMeansAsked(s, A) ==
    \A d \in 1 .. Len(s) :
        Innermost(s, d) /\ s[d].node \in A => AskedItself(s[d]) \/ s[d].left

\* A walk that was asked to end, and whose node has not walked again since, is
\* the innermost of its node and has the flag to itself.
AskedMeansSet(s, A) ==
    \A d \in 1 .. Len(s) :
        s[d].what = "walk" /\ s[d].stop /\ ~s[d].again => Innermost(s, d) /\ s[d].node \in A

StackOK(s, A) ==
    /\ s \in Seq(Frame)
    /\ Calling(s)
    /\ SetMeansAsked(s, A)
    /\ AskedMeansSet(s, A)

TreeInv == StackOK(stack, aptus) /\ aptus \subseteq Relays
-----------------------------------------------------------------------------
(***************************************************************************)
(* Frames put on the stack and taken from it.                              *)
(***************************************************************************)
LEMMA OwnerFrame ==
  ASSUME NEW n \in Animi
  PROVE  /\ Owner(n) \in Frame /\ Owner(n).what = "owner" /\ Owner(n).node = n
         /\ Relay(n) \in Frame /\ Relay(n).what = "relay" /\ Relay(n).node = n
<1>1. -1 \in Int /\ 0 \in Nat
  OBVIOUS
<1> QED
  BY <1>1 DEF Owner, Relay, Call, Frame

LEMMA WalkFrame ==
  ASSUME NEW n \in Animi, NEW i \in Nat, NEW sub \in Subors
  PROVE  /\ Walk(n, i, sub) \in Frame
         /\ Walk(n, i, sub).what = "walk" /\ Walk(n, i, sub).node = n
         /\ Walk(n, i, sub).at = i /\ Walk(n, i, sub).subor = sub
         /\ ~Walk(n, i, sub).stop /\ ~Walk(n, i, sub).again
  BY NodesAssumption DEF Walk, Call, Frame

LEMMA FrameFields ==
  ASSUME NEW s \in Seq(Frame), NEW d \in 1 .. Len(s)
  PROVE  /\ s[d] \in Frame
         /\ s[d].what \in {"owner", "walk", "relay"} /\ s[d].node \in Animi
         /\ s[d].at \in Nat /\ s[d].subor \in Int
         /\ s[d].stop \in BOOLEAN /\ s[d].again \in BOOLEAN /\ s[d].left \in BOOLEAN
<1>1. s[d] \in Frame
  OBVIOUS
<1> QED
  BY <1>1 DEF Frame

LEMMA PushFrame ==
  ASSUME NEW s \in Seq(Frame), NEW f \in Frame
  PROVE  /\ <<f>> \o s \in Seq(Frame)
         /\ Len(<<f>> \o s) = Len(s) + 1
         /\ (<<f>> \o s)[1] = f
         /\ \A d \in 1 .. Len(s) : (<<f>> \o s)[d + 1] = s[d]
  OBVIOUS

LEMMA PushTwoFrames ==
  ASSUME NEW s \in Seq(Frame), NEW f \in Frame, NEW g \in Frame
  PROVE  /\ <<f, g>> \o s \in Seq(Frame)
         /\ Len(<<f, g>> \o s) = Len(s) + 2
         /\ (<<f, g>> \o s)[1] = f
         /\ (<<f, g>> \o s)[2] = g
         /\ \A d \in 1 .. Len(s) : (<<f, g>> \o s)[d + 2] = s[d]
  OBVIOUS

LEMMA PopFrame ==
  ASSUME NEW s \in Seq(Frame), s # <<>>
  PROVE  /\ Tail(s) \in Seq(Frame)
         /\ Len(Tail(s)) = Len(s) - 1
         /\ \A d \in 1 .. Len(s) - 1 : Tail(s)[d] = s[d + 1]
         /\ Head(s) = s[1] /\ Len(s) \in Nat \ {0}
  OBVIOUS

\* A stack and the same with k frames less on top
Beneath(t, s, k) ==
    /\ Len(t) = Len(s) + k
    /\ \A d \in 1 .. Len(s) : t[d + k] = s[d]

LEMMA InnermostBeneath ==
  ASSUME NEW s \in Seq(Frame), NEW t \in Seq(Frame), NEW k \in Nat, Beneath(t, s, k),
         NEW d \in 1 .. Len(s)
  PROVE  Innermost(t, d + k) <=>
            Innermost(s, d) /\ \A e \in 1 .. k : ~IsWalkOf(t[e], s[d].node)
<1>1. Innermost(t, d + k) <=>
        t[d + k].what = "walk" /\ \A e \in 1 .. (d + k) - 1 : ~IsWalkOf(t[e], t[d + k].node)
  BY DEF Innermost
<1>2. t[d + k] = s[d]
  BY DEF Beneath
<1>3. Innermost(s, d) <=>
        s[d].what = "walk" /\ \A e \in 1 .. d - 1 : ~IsWalkOf(s[e], s[d].node)
  BY DEF Innermost
<1> DEFINE P(f) == IsWalkOf(f, s[d].node)
<1> HIDE DEF P
<1>4. \A e \in 1 .. d - 1 : e + k \in 1 .. (d + k) - 1 /\ t[e + k] = s[e]
  <2>1. 1 .. d - 1 \subseteq 1 .. Len(s)
    OBVIOUS
  <2> QED
    BY <2>1 DEF Beneath
<1>5. \A e \in 1 .. (d + k) - 1 : e \in 1 .. k \/ (e - k \in 1 .. d - 1 /\ e = (e - k) + k)
  OBVIOUS
<1>6. (\A e \in 1 .. (d + k) - 1 : ~P(t[e])) <=>
        (\A e \in 1 .. d - 1 : ~P(s[e])) /\ \A e \in 1 .. k : ~P(t[e])
  <2>1. 1 .. k \subseteq 1 .. (d + k) - 1
    OBVIOUS
  <2>2. ASSUME \A e \in 1 .. (d + k) - 1 : ~P(t[e])
        PROVE  (\A e \in 1 .. d - 1 : ~P(s[e])) /\ \A e \in 1 .. k : ~P(t[e])
    BY <1>4, <2>1, <2>2
  <2>3. ASSUME \A e \in 1 .. d - 1 : ~P(s[e]), \A e \in 1 .. k : ~P(t[e]),
               NEW e \in 1 .. (d + k) - 1
        PROVE  ~P(t[e])
    <3>1. CASE e \in 1 .. k
      BY <2>3, <3>1
    <3>2. CASE e - k \in 1 .. d - 1 /\ e = (e - k) + k
      BY <1>4, <2>3, <3>2
    <3> QED
      BY <1>5, <3>1, <3>2
  <2> QED
    BY <2>2, <2>3
<1> QED
  BY <1>1, <1>2, <1>3, <1>6 DEF P

\* Above the frame at the bottom of the lower stack, the walks are alike.
LEMMA CallingBeneath ==
  ASSUME NEW s \in Seq(Frame), NEW t \in Seq(Frame), NEW k \in Nat, Beneath(t, s, k),
         NEW d \in 2 .. Len(s)
  PROVE  CallsItsChild(t, d + k) <=> CallsItsChild(s, d)
<1>1. d \in 1 .. Len(s) /\ d - 1 \in 1 .. Len(s) /\ d > 1 /\ d + k > 1
  OBVIOUS
<1>2. t[d + k] = s[d] /\ t[(d + k) - 1] = s[d - 1]
  <2>1. t[(d - 1) + k] = s[d - 1]
    BY <1>1 DEF Beneath
  <2>2. (d - 1) + k = (d + k) - 1
    OBVIOUS
  <2> QED
    BY <1>1, <2>1, <2>2 DEF Beneath
<1> QED
  BY <1>1, <1>2 DEF CallsItsChild

\* A place in the upper stack is one of the frames on top or one in the lower stack.
LEMMA PlaceBeneath ==
  ASSUME NEW s \in Seq(Frame), NEW t \in Seq(Frame), NEW k \in Nat, Beneath(t, s, k),
         NEW d \in 1 .. Len(t), d \notin 1 .. k
  PROVE  /\ d - k \in 1 .. Len(s) /\ (d - k) + k = d
         /\ t[d] = s[d - k]
<1>1. d - k \in 1 .. Len(s) /\ (d - k) + k = d
  BY DEF Beneath
<1> QED
  BY <1>1 DEF Beneath

\* A call is made that is no walk.
LEMMA PushCall ==
  ASSUME NEW s, NEW A, StackOK(s, A), NEW f \in Frame, f.what # "walk"
  PROVE  StackOK(<<f>> \o s, A)
<1> DEFINE t == <<f>> \o s
<1>1. /\ s \in Seq(Frame) /\ t \in Seq(Frame)
      /\ Beneath(t, s, 1) /\ t[1] = f
  BY PushFrame DEF StackOK, Beneath
<1> HIDE DEF t
<1>2. \A n : ~IsWalkOf(t[1], n)
  BY <1>1 DEF IsWalkOf
<1>3. \A d \in 1 .. Len(s) : Innermost(t, d + 1) <=> Innermost(s, d)
  <2> TAKE d \in 1 .. Len(s)
  <2>1. Innermost(t, d + 1) <=>
            Innermost(s, d) /\ \A e \in 1 .. 1 : ~IsWalkOf(t[e], s[d].node)
    BY <1>1, InnermostBeneath
  <2> QED
    BY <1>2, <2>1
<1>4. ~Innermost(t, 1)
  BY <1>1 DEF Innermost
<1>5. \A d \in 1 .. Len(t) : d # 1 =>
        d - 1 \in 1 .. Len(s) /\ t[d] = s[d - 1] /\ (Innermost(t, d) <=> Innermost(s, d - 1))
  <2> SUFFICES ASSUME NEW d \in 1 .. Len(t), d # 1
               PROVE  d - 1 \in 1 .. Len(s) /\ t[d] = s[d - 1]
                      /\ (Innermost(t, d) <=> Innermost(s, d - 1))
    OBVIOUS
  <2>1. d \notin 1 .. 1
    OBVIOUS
  <2>2. d - 1 \in 1 .. Len(s) /\ (d - 1) + 1 = d /\ t[d] = s[d - 1]
    BY <1>1, <2>1, PlaceBeneath
  <2> QED
    BY <1>3, <2>2
<1>6. Calling(t)
  <2> SUFFICES ASSUME NEW d \in 1 .. Len(t), t[d].what = "walk"
               PROVE  CallsItsChild(t, d)
    BY DEF Calling
  <2>1. d # 1
    BY <1>1
  <2>2. d - 1 \in 1 .. Len(s) /\ t[d] = s[d - 1]
    BY <1>5, <2>1
  <2>3. CallsItsChild(s, d - 1)
    BY <2>2 DEF StackOK, Calling
  <2>4. d - 1 \in 2 .. Len(s)
    BY <2>2, <2>3 DEF CallsItsChild
  <2>5. CallsItsChild(t, (d - 1) + 1)
    BY <1>1, <2>3, <2>4, CallingBeneath
  <2> QED
    BY <2>5
<1>7. SetMeansAsked(t, A)
  BY <1>4, <1>5 DEF SetMeansAsked, StackOK
<1>8. AskedMeansSet(t, A)
  BY <1>1, <1>5 DEF AskedMeansSet, StackOK
<1>9. StackOK(t, A)
  BY <1>1, <1>6, <1>7, <1>8 DEF StackOK
<1> QED
  BY <1>9 DEF t

\* A call that no walk has made returns.
LEMMA PopCall ==
  ASSUME NEW t, NEW A, StackOK(t, A), t # <<>>, t[1].what # "walk",
         Len(t) > 1 => t[2].what # "walk"
  PROVE  StackOK(Tail(t), A)
<1> DEFINE s == Tail(t)
<1>1. /\ s \in Seq(Frame) /\ t \in Seq(Frame)
      /\ Beneath(t, s, 1) /\ (Len(s) > 0 => s[1] = t[2]) /\ Len(t) = Len(s) + 1
  <2>1. t \in Seq(Frame)
    BY DEF StackOK
  <2> QED
    BY <2>1, PopFrame DEF Beneath
<1> HIDE DEF s
<1>2. \A n : ~IsWalkOf(t[1], n)
  BY DEF IsWalkOf
<1>3. \A d \in 1 .. Len(s) :
        d + 1 \in 1 .. Len(t) /\ t[d + 1] = s[d] /\ (Innermost(t, d + 1) <=> Innermost(s, d))
  <2> TAKE d \in 1 .. Len(s)
  <2>1. Innermost(t, d + 1) <=>
            Innermost(s, d) /\ \A e \in 1 .. 1 : ~IsWalkOf(t[e], s[d].node)
    BY <1>1, InnermostBeneath
  <2>2. d + 1 \in 1 .. Len(t) /\ t[d + 1] = s[d]
    BY <1>1 DEF Beneath
  <2> QED
    BY <1>2, <2>1, <2>2
<1>4. Calling(s)
  <2> SUFFICES ASSUME NEW d \in 1 .. Len(s), s[d].what = "walk"
               PROVE  CallsItsChild(s, d)
    BY DEF Calling
  <2>1. CallsItsChild(t, d + 1)
    BY <1>3 DEF StackOK, Calling
  <2>2. Len(s) > 0 /\ Len(t) > 1
    BY <1>1
  <2>3. d \in 2 .. Len(s)
    BY <1>1, <2>2
  <2> QED
    BY <1>1, <2>1, <2>3, CallingBeneath
<1>5. SetMeansAsked(s, A)
  BY <1>3 DEF SetMeansAsked, StackOK
<1>6. AskedMeansSet(s, A)
  <2> SUFFICES ASSUME NEW d \in 1 .. Len(s), s[d].what = "walk", s[d].stop, ~s[d].again
               PROVE  Innermost(s, d) /\ s[d].node \in A
    BY DEF AskedMeansSet
  <2>1. d + 1 \in 1 .. Len(t) /\ t[d + 1] = s[d] /\ (Innermost(t, d + 1) <=> Innermost(s, d))
    BY <1>3
  <2> QED
    BY <2>1 DEF AskedMeansSet, StackOK
<1> QED
  BY <1>1, <1>4, <1>5, <1>6 DEF StackOK, s

\* A walk calls a child, and the flag of its node is not set.
LEMMA PushWalk ==
  ASSUME NEW s, NEW A, StackOK(s, A), NEW n \in Animi, n \notin A, NEW sub \in Subors,
         NEW i \in 1 .. Len(Compactor[n]), ~Skipped(Compactor[n][i], sub)
  PROVE  StackOK(<<Owner(Compactor[n][i]), Walk(n, i, sub)>> \o s, A)
<1> DEFINE c == Compactor[n][i]
           t == <<Owner(c), Walk(n, i, sub)>> \o s
<1>1. c \in Animi /\ i \in Nat
  BY NodesAssumption
<1>2. /\ Owner(c) \in Frame /\ Owner(c).what = "owner" /\ Owner(c).node = c
      /\ Walk(n, i, sub) \in Frame
      /\ Walk(n, i, sub).what = "walk" /\ Walk(n, i, sub).node = n
      /\ Walk(n, i, sub).at = i /\ Walk(n, i, sub).subor = sub
      /\ ~Walk(n, i, sub).stop /\ ~Walk(n, i, sub).again
  <2> HIDE DEF c
  <2>1. Owner(c) \in Frame /\ Owner(c).what = "owner" /\ Owner(c).node = c
    BY <1>1, OwnerFrame
  <2>2. /\ Walk(n, i, sub) \in Frame
        /\ Walk(n, i, sub).what = "walk" /\ Walk(n, i, sub).node = n
        /\ Walk(n, i, sub).at = i /\ Walk(n, i, sub).subor = sub
        /\ ~Walk(n, i, sub).stop /\ ~Walk(n, i, sub).again
    BY <1>1, WalkFrame
  <2> QED
    BY <2>1, <2>2
<1>3. /\ s \in Seq(Frame) /\ t \in Seq(Frame)
      /\ Beneath(t, s, 2) /\ t[1] = Owner(c) /\ t[2] = Walk(n, i, sub)
  BY <1>2, PushTwoFrames DEF StackOK, Beneath
<1> HIDE DEF t
<1>4. (\A m : ~IsWalkOf(t[1], m)) /\ \A m : IsWalkOf(t[2], m) <=> m = n
  BY <1>2, <1>3 DEF IsWalkOf
<1>5. \A d \in 1 .. Len(s) : Innermost(t, d + 2) <=> Innermost(s, d) /\ s[d].node # n
  <2> TAKE d \in 1 .. Len(s)
  <2>1. Innermost(t, d + 2) <=>
            Innermost(s, d) /\ \A e \in 1 .. 2 : ~IsWalkOf(t[e], s[d].node)
    BY <1>3, InnermostBeneath
  <2>2. \A e \in 1 .. 2 : e = 1 \/ e = 2
    OBVIOUS
  <2>3. 1 \in 1 .. 2 /\ 2 \in 1 .. 2
    OBVIOUS
  <2> QED
    BY <1>4, <2>1, <2>2, <2>3
<1>6. \A d \in 1 .. Len(t) : d \notin 1 .. 2 =>
        /\ d - 2 \in 1 .. Len(s) /\ t[d] = s[d - 2] /\ (d - 2) + 2 = d
        /\ Innermost(t, d) <=> Innermost(s, d - 2) /\ s[d - 2].node # n
  <2> SUFFICES ASSUME NEW d \in 1 .. Len(t), d \notin 1 .. 2
               PROVE  /\ d - 2 \in 1 .. Len(s) /\ t[d] = s[d - 2] /\ (d - 2) + 2 = d
                      /\ Innermost(t, d) <=> Innermost(s, d - 2) /\ s[d - 2].node # n
    OBVIOUS
  <2>1. d - 2 \in 1 .. Len(s) /\ (d - 2) + 2 = d /\ t[d] = s[d - 2]
    BY <1>3, PlaceBeneath
  <2> QED
    BY <1>5, <2>1
<1>7. \A d \in 1 .. Len(t) : t[d].what = "walk" => d = 2 \/ d \notin 1 .. 2
  BY <1>2, <1>3
<1>8. Calling(t)
  <2> SUFFICES ASSUME NEW d \in 1 .. Len(t), t[d].what = "walk"
               PROVE  CallsItsChild(t, d)
    BY DEF Calling
  <2>1. CASE d = 2
    BY <1>2, <1>3, <2>1 DEF CallsItsChild
  <2>2. CASE d \notin 1 .. 2
    <3>1. CallsItsChild(s, d - 2)
      BY <1>6, <2>2 DEF StackOK, Calling
    <3>2. d - 2 \in 2 .. Len(s)
      BY <1>6, <2>2, <3>1 DEF CallsItsChild
    <3>3. CallsItsChild(t, (d - 2) + 2)
      BY <1>3, <3>1, <3>2, CallingBeneath
    <3> QED
      BY <1>6, <2>2, <3>3
  <2> QED
    BY <1>7, <2>1, <2>2
<1>9. SetMeansAsked(t, A)
  <2> SUFFICES ASSUME NEW d \in 1 .. Len(t), Innermost(t, d), t[d].node \in A
               PROVE  AskedItself(t[d]) \/ t[d].left
    BY DEF SetMeansAsked
  <2>1. d # 2
    BY <1>2, <1>3
  <2>2. d \notin 1 .. 2
    BY <1>7, <2>1 DEF Innermost
  <2> QED
    BY <1>6, <2>2 DEF SetMeansAsked, StackOK
<1>10. AskedMeansSet(t, A)
  <2> SUFFICES ASSUME NEW d \in 1 .. Len(t), t[d].what = "walk", t[d].stop, ~t[d].again
               PROVE  Innermost(t, d) /\ t[d].node \in A
    BY DEF AskedMeansSet
  <2>1. d \notin 1 .. 2
    BY <1>2, <1>3, <1>7
  <2>2. Innermost(s, d - 2) /\ s[d - 2].node \in A
    BY <1>6, <2>1 DEF AskedMeansSet, StackOK
  <2> QED
    BY <1>6, <2>1, <2>2
<1>11. StackOK(t, A)
  BY <1>3, <1>8, <1>9, <1>10 DEF StackOK
<1> QED
  BY <1>11 DEF t

\* A walk ends, or is about to call its next child.
LEMMA PopWalk ==
  ASSUME NEW t, NEW A, StackOK(t, A), Len(t) > 1, t[1].what # "walk", t[2].what = "walk"
  PROVE  /\ StackOK(Tail(Tail(t)), A \ {t[2].node})
         /\ Innermost(t, 2)
<1> DEFINE s == Tail(Tail(t))
           n == t[2].node
<1>1. t \in Seq(Frame) /\ t # <<>>
  BY DEF StackOK
<1>2. /\ Tail(t) \in Seq(Frame) /\ Tail(t) # <<>>
      /\ Len(Tail(t)) = Len(t) - 1
      /\ \A d \in 1 .. Len(t) - 1 : Tail(t)[d] = t[d + 1]
  <2>1. /\ Tail(t) \in Seq(Frame) /\ Len(Tail(t)) = Len(t) - 1
        /\ \A d \in 1 .. Len(t) - 1 : Tail(t)[d] = t[d + 1]
    BY <1>1, PopFrame
  <2>2. Tail(t) # <<>>
    <3>1. Len(Tail(t)) > 0 /\ Len(<<>>) = 0
      BY <1>1, <2>1
    <3> QED
      BY <3>1
  <2> QED
    BY <2>1, <2>2
<1>3. /\ s \in Seq(Frame)
      /\ Len(s) = Len(Tail(t)) - 1
      /\ \A d \in 1 .. Len(Tail(t)) - 1 : s[d] = Tail(t)[d + 1]
  BY <1>2, PopFrame
<1>4. Beneath(t, s, 2)
  <2>1. Len(t) = Len(s) + 2
    BY <1>1, <1>2, <1>3
  <2>2. ASSUME NEW d \in 1 .. Len(s)
        PROVE  t[d + 2] = s[d]
    <3>1. d \in 1 .. Len(Tail(t)) - 1 /\ d + 1 \in 1 .. Len(t) - 1 /\ (d + 1) + 1 = d + 2
      BY <1>1, <1>2, <1>3, <2>1
    <3> QED
      BY <1>2, <1>3, <3>1
  <2> QED
    BY <2>1, <2>2 DEF Beneath
<1> HIDE DEF s
<1>5. (\A m : ~IsWalkOf(t[1], m)) /\ \A m : IsWalkOf(t[2], m) <=> m = n
  BY DEF IsWalkOf
<1>6. \A d \in 1 .. Len(s) :
        /\ d + 2 \in 1 .. Len(t) /\ t[d + 2] = s[d]
        /\ Innermost(t, d + 2) <=> Innermost(s, d) /\ s[d].node # n
  <2> TAKE d \in 1 .. Len(s)
  <2>1. Innermost(t, d + 2) <=>
            Innermost(s, d) /\ \A e \in 1 .. 2 : ~IsWalkOf(t[e], s[d].node)
    BY <1>1, <1>3, <1>4, InnermostBeneath
  <2>2. \A e \in 1 .. 2 : e = 1 \/ e = 2
    OBVIOUS
  <2>3. 1 \in 1 .. 2 /\ 2 \in 1 .. 2
    OBVIOUS
  <2>4. d + 2 \in 1 .. Len(t) /\ t[d + 2] = s[d]
    BY <1>3, <1>4 DEF Beneath
  <2> QED
    BY <1>5, <2>1, <2>2, <2>3, <2>4
<1>7. Calling(s)
  <2> SUFFICES ASSUME NEW d \in 1 .. Len(s), s[d].what = "walk"
               PROVE  CallsItsChild(s, d)
    BY DEF Calling
  <2>1. CallsItsChild(t, d + 2)
    BY <1>6 DEF StackOK, Calling
  <2>2. d # 1
    <3> SUFFICES ASSUME d = 1 PROVE FALSE
      OBVIOUS
    <3>1. t[2] = Owner(Compactor[t[3].node][t[3].at])
      BY <2>1 DEF CallsItsChild
    <3>2. t[2].what = "owner"
      BY <3>1 DEF Owner, Call
    <3> QED
      BY <3>2
  <2>3. d \in 2 .. Len(s)
    BY <1>3, <2>2
  <2> QED
    BY <1>1, <1>3, <1>4, <2>1, <2>3, CallingBeneath
<1>8. SetMeansAsked(s, A \ {n})
  BY <1>6 DEF SetMeansAsked, StackOK
<1>9. AskedMeansSet(s, A \ {n})
  <2> SUFFICES ASSUME NEW d \in 1 .. Len(s), s[d].what = "walk", s[d].stop, ~s[d].again
               PROVE  Innermost(s, d) /\ s[d].node \in A \ {n}
    BY DEF AskedMeansSet
  <2>1. Innermost(t, d + 2) /\ s[d].node \in A
    BY <1>6 DEF AskedMeansSet, StackOK
  <2> QED
    BY <1>6, <2>1
<1>10. Innermost(t, 2)
  <2>1. \A k \in 1 .. 2 - 1 : k = 1
    OBVIOUS
  <2> QED
    BY <1>5, <2>1 DEF Innermost
<1> QED
  BY <1>3, <1>7, <1>8, <1>9, <1>10 DEF StackOK, s
-----------------------------------------------------------------------------
(***************************************************************************)
(* The history of the walks.                                               *)
(***************************************************************************)
\* Two stacks that differ in the history of their walks only
Alike(t, s) ==
    /\ Len(t) = Len(s)
    /\ \A d \in 1 .. Len(s) :
          /\ s[d].what # "walk" => t[d] = s[d]
          /\ t[d].what = s[d].what /\ t[d].node = s[d].node
          /\ t[d].at = s[d].at /\ t[d].subor = s[d].subor

LEMMA AlikeStacks ==
  ASSUME NEW s \in Seq(Frame), NEW t \in Seq(Frame), Alike(t, s), Calling(s)
  PROVE  Calling(t) /\ \A d \in 1 .. Len(s) : Innermost(t, d) <=> Innermost(s, d)
<1>1. ASSUME NEW d \in 1 .. Len(t), t[d].what = "walk"
      PROVE  CallsItsChild(t, d)
  <2>1. d \in 1 .. Len(s) /\ CallsItsChild(s, d)
    BY <1>1 DEF Alike, Calling
  <2>2. d - 1 \in 1 .. Len(s)
    BY <2>1 DEF CallsItsChild
  <2>3. s[d - 1].what # "walk"
    BY <2>1 DEF CallsItsChild, Owner, Call
  <2>4. t[d - 1] = s[d - 1]
    BY <2>2, <2>3 DEF Alike
  <2> QED
    BY <2>1, <2>4 DEF Alike, CallsItsChild
<1>2. ASSUME NEW d \in 1 .. Len(s)
      PROVE  Innermost(t, d) <=> Innermost(s, d)
  <2>1. 1 .. d - 1 \subseteq 1 .. Len(s)
    OBVIOUS
  <2>2. t[d].what = s[d].what /\ t[d].node = s[d].node
    BY DEF Alike
  <2>3. \A k \in 1 .. d - 1 : IsWalkOf(t[k], s[d].node) <=> IsWalkOf(s[k], s[d].node)
    BY <2>1 DEF Alike, IsWalkOf
  <2> QED
    BY <2>2, <2>3 DEF Innermost
<1> QED
  BY <1>1, <1>2 DEF Calling

LEMMA FunctionSeq ==
  ASSUME NEW s \in Seq(Frame), NEW t, t = [d \in 1 .. Len(s) |-> t[d]],
         \A d \in 1 .. Len(s) : t[d] \in Frame
  PROVE  t \in Seq(Frame) /\ Len(t) = Len(s)
  OBVIOUS

LEMMA Stopping ==
  ASSUME NEW s \in Seq(Frame), NEW N
  PROVE  /\ MarkStop(s, N) \in Seq(Frame) /\ Alike(MarkStop(s, N), s)
         /\ \A d \in 1 .. Len(s) :
               /\ s[d].node \in N /\ Innermost(s, d) => AskedItself(MarkStop(s, N)[d])
               /\ s[d].node \notin N \/ ~Innermost(s, d) => MarkStop(s, N)[d] = s[d]
<1> DEFINE t == MarkStop(s, N)
<1>1. ASSUME NEW d \in 1 .. Len(s)
      PROVE  /\ t[d] \in Frame
             /\ s[d].what # "walk" => t[d] = s[d]
             /\ t[d].what = s[d].what /\ t[d].node = s[d].node
             /\ t[d].at = s[d].at /\ t[d].subor = s[d].subor
             /\ s[d].node \in N /\ Innermost(s, d) => AskedItself(t[d])
             /\ s[d].node \notin N \/ ~Innermost(s, d) => t[d] = s[d]
  <2>1. s[d] \in Frame
    OBVIOUS
  <2>2. t[d] = IF s[d].node \in N /\ Innermost(s, d)
               THEN [s[d] EXCEPT !.stop = TRUE, !.again = FALSE] ELSE s[d]
    BY DEF MarkStop
  <2> HIDE DEF t
  <2>3. CASE s[d].node \in N /\ Innermost(s, d)
    <3>1. t[d] = [s[d] EXCEPT !.stop = TRUE, !.again = FALSE]
      BY <2>2, <2>3
    <3>2. s[d].what = "walk"
      BY <2>3 DEF Innermost
    <3> QED
      BY <2>1, <2>3, <3>1, <3>2 DEF Frame, AskedItself
  <2>4. CASE ~(s[d].node \in N /\ Innermost(s, d))
    <3>1. t[d] = s[d]
      BY <2>2, <2>4
    <3> QED
      BY <2>1, <2>4, <3>1
  <2> QED
    BY <2>3, <2>4
<1>2. t \in Seq(Frame) /\ Len(t) = Len(s)
  <2>1. t = [d \in 1 .. Len(s) |-> t[d]]
    BY DEF MarkStop
  <2> HIDE DEF t
  <2> QED
    BY <1>1, <2>1, FunctionSeq
<1> HIDE DEF t
<1>3. Alike(t, s)
  BY <1>1, <1>2 DEF Alike
<1>4. \A d \in 1 .. Len(s) :
        /\ s[d].node \in N /\ Innermost(s, d) => AskedItself(t[d])
        /\ s[d].node \notin N \/ ~Innermost(s, d) => t[d] = s[d]
  BY <1>1
<1> QED
  BY <1>2, <1>3, <1>4 DEF t

LEMMA Anew ==
  ASSUME NEW s \in Seq(Frame), NEW n
  PROVE  /\ MarkAgain(s, n) \in Seq(Frame) /\ Alike(MarkAgain(s, n), s)
         /\ \A d \in 1 .. Len(s) :
               /\ IsWalkOf(s[d], n) => MarkAgain(s, n)[d].again
               /\ ~IsWalkOf(s[d], n) => MarkAgain(s, n)[d] = s[d]
<1> DEFINE t == MarkAgain(s, n)
<1>1. ASSUME NEW d \in 1 .. Len(s)
      PROVE  /\ t[d] \in Frame
             /\ s[d].what # "walk" => t[d] = s[d]
             /\ t[d].what = s[d].what /\ t[d].node = s[d].node
             /\ t[d].at = s[d].at /\ t[d].subor = s[d].subor
             /\ IsWalkOf(s[d], n) => t[d].again
             /\ ~IsWalkOf(s[d], n) => t[d] = s[d]
  <2>1. s[d] \in Frame
    OBVIOUS
  <2>2. t[d] = IF IsWalkOf(s[d], n)
               THEN [s[d] EXCEPT !.again = TRUE, !.left = FALSE] ELSE s[d]
    BY DEF MarkAgain
  <2> HIDE DEF t
  <2>3. CASE IsWalkOf(s[d], n)
    <3>1. t[d] = [s[d] EXCEPT !.again = TRUE, !.left = FALSE]
      BY <2>2, <2>3
    <3>2. s[d].what = "walk"
      BY <2>3 DEF IsWalkOf
    <3> QED
      BY <2>1, <2>3, <3>1, <3>2 DEF Frame
  <2>4. CASE ~(IsWalkOf(s[d], n))
    <3>1. t[d] = s[d]
      BY <2>2, <2>4
    <3> QED
      BY <2>1, <2>4, <3>1
  <2> QED
    BY <2>3, <2>4
<1>2. t \in Seq(Frame) /\ Len(t) = Len(s)
  <2>1. t = [d \in 1 .. Len(s) |-> t[d]]
    BY DEF MarkAgain
  <2> HIDE DEF t
  <2> QED
    BY <1>1, <2>1, FunctionSeq
<1> HIDE DEF t
<1>3. Alike(t, s)
  BY <1>1, <1>2 DEF Alike
<1>4. \A d \in 1 .. Len(s) :
        /\ IsWalkOf(s[d], n) => t[d].again
        /\ ~IsWalkOf(s[d], n) => t[d] = s[d]
  BY <1>1
<1> QED
  BY <1>2, <1>3, <1>4 DEF t

LEMMA Taking ==
  ASSUME NEW s \in Seq(Frame), NEW n
  PROVE  /\ TakeBack(s, n) \in Seq(Frame) /\ Alike(TakeBack(s, n), s)
         /\ \A d \in 1 .. Len(s) :
               /\ IsWalkOf(s[d], n) => ~TakeBack(s, n)[d].stop
               /\ ~IsWalkOf(s[d], n) => TakeBack(s, n)[d] = s[d]
<1> DEFINE t == TakeBack(s, n)
<1>1. ASSUME NEW d \in 1 .. Len(s)
      PROVE  /\ t[d] \in Frame
             /\ s[d].what # "walk" => t[d] = s[d]
             /\ t[d].what = s[d].what /\ t[d].node = s[d].node
             /\ t[d].at = s[d].at /\ t[d].subor = s[d].subor
             /\ IsWalkOf(s[d], n) => ~t[d].stop
             /\ ~IsWalkOf(s[d], n) => t[d] = s[d]
  <2>1. s[d] \in Frame
    OBVIOUS
  <2>2. t[d] = IF IsWalkOf(s[d], n)
               THEN [s[d] EXCEPT !.stop = FALSE, !.left = FALSE] ELSE s[d]
    BY DEF TakeBack
  <2> HIDE DEF t
  <2>3. CASE IsWalkOf(s[d], n)
    <3>1. t[d] = [s[d] EXCEPT !.stop = FALSE, !.left = FALSE]
      BY <2>2, <2>3
    <3>2. s[d].what = "walk"
      BY <2>3 DEF IsWalkOf
    <3> QED
      BY <2>1, <2>3, <3>1, <3>2 DEF Frame
  <2>4. CASE ~(IsWalkOf(s[d], n))
    <3>1. t[d] = s[d]
      BY <2>2, <2>4
    <3> QED
      BY <2>1, <2>4, <3>1
  <2> QED
    BY <2>3, <2>4
<1>2. t \in Seq(Frame) /\ Len(t) = Len(s)
  <2>1. t = [d \in 1 .. Len(s) |-> t[d]]
    BY DEF TakeBack
  <2> HIDE DEF t
  <2> QED
    BY <1>1, <2>1, FunctionSeq
<1> HIDE DEF t
<1>3. Alike(t, s)
  BY <1>1, <1>2 DEF Alike
<1>4. \A d \in 1 .. Len(s) :
        /\ IsWalkOf(s[d], n) => ~t[d].stop
        /\ ~IsWalkOf(s[d], n) => t[d] = s[d]
  BY <1>1
<1> QED
  BY <1>2, <1>3, <1>4 DEF t

LEMMA Leaving ==
  ASSUME NEW s \in Seq(Frame), NEW n
  PROVE  /\ MarkLeft(s, n) \in Seq(Frame) /\ Alike(MarkLeft(s, n), s)
         /\ \A d \in 1 .. Len(s) :
               /\ MarkLeft(s, n)[d].stop = s[d].stop /\ MarkLeft(s, n)[d].again = s[d].again
               /\ s[d].node = n /\ Innermost(s, d) => MarkLeft(s, n)[d].left
               /\ s[d].node # n \/ ~Innermost(s, d) => MarkLeft(s, n)[d] = s[d]
<1> DEFINE t == MarkLeft(s, n)
<1>1. ASSUME NEW d \in 1 .. Len(s)
      PROVE  /\ t[d] \in Frame
             /\ s[d].what # "walk" => t[d] = s[d]
             /\ t[d].what = s[d].what /\ t[d].node = s[d].node
             /\ t[d].at = s[d].at /\ t[d].subor = s[d].subor
             /\ t[d].stop = s[d].stop /\ t[d].again = s[d].again
             /\ s[d].node = n /\ Innermost(s, d) => t[d].left
             /\ s[d].node # n \/ ~Innermost(s, d) => t[d] = s[d]
  <2>1. s[d] \in Frame
    OBVIOUS
  <2>2. t[d] = IF s[d].node = n /\ Innermost(s, d)
               THEN [s[d] EXCEPT !.left = TRUE] ELSE s[d]
    BY DEF MarkLeft
  <2> HIDE DEF t
  <2>3. CASE s[d].node = n /\ Innermost(s, d)
    <3>1. t[d] = [s[d] EXCEPT !.left = TRUE]
      BY <2>2, <2>3
    <3>2. s[d].what = "walk"
      BY <2>3 DEF Innermost
    <3> QED
      BY <2>1, <2>3, <3>1, <3>2 DEF Frame
  <2>4. CASE ~(s[d].node = n /\ Innermost(s, d))
    <3>1. t[d] = s[d]
      BY <2>2, <2>4
    <3> QED
      BY <2>1, <2>4, <3>1
  <2> QED
    BY <2>3, <2>4
<1>2. t \in Seq(Frame) /\ Len(t) = Len(s)
  <2>1. t = [d \in 1 .. Len(s) |-> t[d]]
    BY DEF MarkLeft
  <2> HIDE DEF t
  <2> QED
    BY <1>1, <2>1, FunctionSeq
<1> HIDE DEF t
<1>3. Alike(t, s)
  BY <1>1, <1>2 DEF Alike
<1>4. \A d \in 1 .. Len(s) :
        /\ t[d].stop = s[d].stop /\ t[d].again = s[d].again
        /\ s[d].node = n /\ Innermost(s, d) => t[d].left
        /\ s[d].node # n \/ ~Innermost(s, d) => t[d] = s[d]
  BY <1>1
<1> QED
  BY <1>2, <1>3, <1>4 DEF t

\* The request of DMD_STOP_NEXT is noted with the flags it sets.
LEMMA StopKeeps ==
  ASSUME NEW s, NEW A, NEW N, StackOK(s, A)
  PROVE  StackOK(MarkStop(s, N), A \cup N) /\ Alike(MarkStop(s, N), s)
<1> DEFINE t == MarkStop(s, N)
<1>1. s \in Seq(Frame) /\ Calling(s) /\ SetMeansAsked(s, A) /\ AskedMeansSet(s, A)
  BY DEF StackOK
<1>2. /\ t \in Seq(Frame) /\ Alike(t, s)
      /\ \A d \in 1 .. Len(s) :
            /\ s[d].node \in N /\ Innermost(s, d) => AskedItself(t[d])
            /\ s[d].node \notin N \/ ~Innermost(s, d) => t[d] = s[d]
  BY <1>1, Stopping
<1> HIDE DEF t
<1>3. Calling(t) /\ \A d \in 1 .. Len(s) : Innermost(t, d) <=> Innermost(s, d)
  BY <1>1, <1>2, AlikeStacks
<1>4. Len(t) = Len(s) /\ \A d \in 1 .. Len(s) : t[d].what = s[d].what /\ t[d].node = s[d].node
  BY <1>2 DEF Alike
<1>5. SetMeansAsked(t, A \cup N)
  BY <1>1, <1>2, <1>3, <1>4 DEF SetMeansAsked
<1>6. AskedMeansSet(t, A \cup N)
  BY <1>1, <1>2, <1>3, <1>4 DEF AskedMeansSet
<1> QED
  BY <1>2, <1>3, <1>5, <1>6 DEF StackOK, t

\* The flag of n is reset for a walk over its children.
LEMMA AnewKeeps ==
  ASSUME NEW s, NEW A, NEW n, StackOK(s, A)
  PROVE  StackOK(MarkAgain(s, n), A \ {n}) /\ Alike(MarkAgain(s, n), s)
<1> DEFINE t == MarkAgain(s, n)
<1>1. s \in Seq(Frame) /\ Calling(s) /\ SetMeansAsked(s, A) /\ AskedMeansSet(s, A)
  BY DEF StackOK
<1>2. /\ t \in Seq(Frame) /\ Alike(t, s)
      /\ \A d \in 1 .. Len(s) :
            /\ IsWalkOf(s[d], n) => t[d].again
            /\ ~IsWalkOf(s[d], n) => t[d] = s[d]
  BY <1>1, Anew
<1> HIDE DEF t
<1>3. Calling(t) /\ \A d \in 1 .. Len(s) : Innermost(t, d) <=> Innermost(s, d)
  BY <1>1, <1>2, AlikeStacks
<1>4. Len(t) = Len(s) /\ \A d \in 1 .. Len(s) : t[d].what = s[d].what /\ t[d].node = s[d].node
  BY <1>2 DEF Alike
<1>5. SetMeansAsked(t, A \ {n})
  BY <1>1, <1>2, <1>3, <1>4 DEF SetMeansAsked, IsWalkOf
<1>6. AskedMeansSet(t, A \ {n})
  BY <1>1, <1>2, <1>3, <1>4 DEF AskedMeansSet, IsWalkOf
<1> QED
  BY <1>2, <1>3, <1>5, <1>6 DEF StackOK, t

\* DMD_CONTINUE_NEXT and DMD_CONTINUE_SELF take the requests back whose flag they
\* reset.
LEMMA TakingKeeps ==
  ASSUME NEW s, NEW A, NEW n, StackOK(s, A)
  PROVE  StackOK(TakeBack(s, n), A \ {n}) /\ Alike(TakeBack(s, n), s)
<1> DEFINE t == TakeBack(s, n)
<1>1. s \in Seq(Frame) /\ Calling(s) /\ SetMeansAsked(s, A) /\ AskedMeansSet(s, A)
  BY DEF StackOK
<1>2. /\ t \in Seq(Frame) /\ Alike(t, s)
      /\ \A d \in 1 .. Len(s) :
            /\ IsWalkOf(s[d], n) => ~t[d].stop
            /\ ~IsWalkOf(s[d], n) => t[d] = s[d]
  BY <1>1, Taking
<1> HIDE DEF t
<1>3. Calling(t) /\ \A d \in 1 .. Len(s) : Innermost(t, d) <=> Innermost(s, d)
  BY <1>1, <1>2, AlikeStacks
<1>4. Len(t) = Len(s) /\ \A d \in 1 .. Len(s) : t[d].what = s[d].what /\ t[d].node = s[d].node
  BY <1>2 DEF Alike
<1>5. SetMeansAsked(t, A \ {n})
  BY <1>1, <1>2, <1>3, <1>4 DEF SetMeansAsked, IsWalkOf
<1>6. AskedMeansSet(t, A \ {n})
  BY <1>1, <1>2, <1>3, <1>4 DEF AskedMeansSet, IsWalkOf
<1> QED
  BY <1>2, <1>3, <1>5, <1>6 DEF StackOK, t

\* A walk that ends without looking at the flag leaves it to the walk below.
LEMMA LeavingKeeps ==
  ASSUME NEW s, NEW A, NEW n, StackOK(s, A)
  PROVE  StackOK(MarkLeft(s, n), A \cup {n}) /\ Alike(MarkLeft(s, n), s)
<1> DEFINE t == MarkLeft(s, n)
<1>1. s \in Seq(Frame) /\ Calling(s) /\ SetMeansAsked(s, A) /\ AskedMeansSet(s, A)
  BY DEF StackOK
<1>2. /\ t \in Seq(Frame) /\ Alike(t, s)
      /\ \A d \in 1 .. Len(s) :
            /\ t[d].stop = s[d].stop /\ t[d].again = s[d].again
            /\ s[d].node = n /\ Innermost(s, d) => t[d].left
            /\ s[d].node # n \/ ~Innermost(s, d) => t[d] = s[d]
  BY <1>1, Leaving
<1> HIDE DEF t
<1>3. Calling(t) /\ \A d \in 1 .. Len(s) : Innermost(t, d) <=> Innermost(s, d)
  BY <1>1, <1>2, AlikeStacks
<1>4. Len(t) = Len(s) /\ \A d \in 1 .. Len(s) : t[d].what = s[d].what /\ t[d].node = s[d].node
  BY <1>2 DEF Alike
<1>5. SetMeansAsked(t, A \cup {n})
  BY <1>1, <1>2, <1>3, <1>4 DEF SetMeansAsked
<1>6. AskedMeansSet(t, A \cup {n})
  BY <1>1, <1>2, <1>3, <1>4 DEF AskedMeansSet
<1> QED
  BY <1>2, <1>3, <1>5, <1>6 DEF StackOK, t
-----------------------------------------------------------------------------
(***************************************************************************)
(* The frames that stay, counted from the bottom.                          *)
(***************************************************************************)
Over(t, s) ==
    /\ Len(s) <= Len(t)
    /\ \A d \in 1 .. Len(s) : Up(t, d).what = Up(s, d).what /\ Up(t, d).at = Up(s, d).at

LEMMA OverTransitive ==
  ASSUME NEW s \in Seq(Frame), NEW t \in Seq(Frame), NEW u \in Seq(Frame),
         Over(u, t), Over(t, s)
  PROVE  Over(u, s)
<1>1. 1 .. Len(s) \subseteq 1 .. Len(t)
  BY DEF Over
<1> QED
  BY <1>1 DEF Over

LEMMA AlikeOver ==
  ASSUME NEW s \in Seq(Frame), NEW t \in Seq(Frame), Alike(t, s)
  PROVE  Over(t, s)
<1>1. \A d \in 1 .. Len(s) : Len(s) + 1 - d \in 1 .. Len(s)
  OBVIOUS
<1> QED
  BY <1>1 DEF Over, Up, Alike

LEMMA BeneathOver ==
  ASSUME NEW s \in Seq(Frame), NEW t \in Seq(Frame), NEW k \in Nat, Beneath(t, s, k)
  PROVE  Over(t, s) /\ \A d \in 1 .. Len(s) : Up(t, d) = Up(s, d)
<1>1. \A d \in 1 .. Len(s) :
        Len(s) + 1 - d \in 1 .. Len(s) /\ Len(t) + 1 - d = (Len(s) + 1 - d) + k
  BY DEF Beneath
<1>2. \A d \in 1 .. Len(s) : Up(t, d) = Up(s, d)
  BY <1>1 DEF Up, Beneath
<1>3. Len(s) <= Len(t)
  BY DEF Beneath
<1> QED
  BY <1>2, <1>3 DEF Over

LEMMA PushOver ==
  ASSUME NEW s \in Seq(Frame), NEW f \in Frame
  PROVE  Over(<<f>> \o s, s)
<1>1. <<f>> \o s \in Seq(Frame) /\ Beneath(<<f>> \o s, s, 1)
  BY PushFrame DEF Beneath
<1> QED
  BY <1>1, BeneathOver

LEMMA PushTwoOver ==
  ASSUME NEW s \in Seq(Frame), NEW f \in Frame, NEW g \in Frame
  PROVE  Over(<<f, g>> \o s, s)
<1>1. <<f, g>> \o s \in Seq(Frame) /\ Beneath(<<f, g>> \o s, s, 2)
  BY PushTwoFrames DEF Beneath
<1> QED
  BY <1>1, BeneathOver
-----------------------------------------------------------------------------
(***************************************************************************)
(* The tree, and the calls.                                                *)
(***************************************************************************)
LEMMA ParentOf ==
  ASSUME NEW n \in Animi, Prius(n) # NoNode
  PROVE  /\ Prius(n) \in Animi
         /\ Place(n) \in 1 .. Len(Compactor[Prius(n)])
<1>1. \E p \in Animi : IsChild(n, p)
  BY DEF Prius
<1>2. Prius(n) \in Animi /\ IsChild(n, Prius(n))
  BY <1>1 DEF Prius
<1> HIDE DEF Prius
<1> QED
  BY <1>2 DEF IsChild, Place

LEMMA TakenByRelays ==
  ASSUME NEW n \in Animi
  PROVE  Taker(n) \subseteq Relays /\ Stopped(n) \subseteq Relays
  BY DEF Taker, Stopped, RelaysAbove

\* The walk over the children of n, whose flag is not set, calls one or ends.
LEMMA CallsNext ==
  ASSUME NEW s, NEW A, StackOK(s, A), NEW n \in Animi, n \notin A, NEW sub \in Subors,
         NEW from \in Nat \ {0}, CallNextTor(n, from, sub, s)
  PROVE  StackOK(stack', A) /\ Over(stack', s)
<1>0. s \in Seq(Frame)
  BY DEF StackOK
<1>1. CASE stack' = s
  BY <1>0, <1>1 DEF Over
<1>2. ASSUME NEW i \in NextTor(n, from, sub),
             stack' = <<Owner(Compactor[n][i]), Walk(n, i, sub)>> \o s
      PROVE  StackOK(stack', A) /\ Over(stack', s)
  <2>1. i \in 1 .. Len(Compactor[n]) /\ ~Skipped(Compactor[n][i], sub)
    BY <1>2 DEF NextTor
  <2>2. Compactor[n][i] \in Animi /\ i \in Nat
    BY <2>1, NodesAssumption
  <2>3. Owner(Compactor[n][i]) \in Frame /\ Walk(n, i, sub) \in Frame
    BY <2>2, OwnerFrame, WalkFrame
  <2> QED
    BY <1>0, <1>2, <2>1, <2>3, PushWalk, PushTwoOver
<1> QED
  BY <1>1, <1>2 DEF CallNextTor

LEMMA ToDextraKeeps ==
  ASSUME NEW s, NEW n \in Animi, StackOK(s, aptus \ {n}), NEW sub \in Subors,
         NEW from \in 1 .. Len(Compactor[n]), ToDextra(n, from, sub, s)
  PROVE  StackOK(stack', aptus') /\ Over(stack', s) /\ aptus' = aptus \ {n}
<1>1. aptus' = aptus \ {n} /\ CallNextTor(n, from, sub, s)
  BY DEF ToDextra
<1>2. from \in Nat \ {0} /\ n \notin aptus \ {n}
  OBVIOUS
<1> QED
  BY <1>1, <1>2, CallsNext

LEMMA ContinueKeeps ==
  ASSUME NEW s, StackOK(s, aptus), NEW p \in Relays, NEW boy \in Animi,
         NEW inv \in BOOLEAN, NEW sub \in Subors, Continue(p, boy, inv, sub, s)
  PROVE  StackOK(stack', aptus') /\ Over(stack', s) /\ aptus' \subseteq aptus
<1> DEFINE t == (IF p \in GoonPass /\ Prius(p) # NoNode THEN <<Relay(p)>> ELSE <<>>) \o s
           i == Place(boy) + 1
<1>1. p \in Animi /\ p # NoNode
  BY NodesAssumption
<1>2. s \in Seq(Frame)
  BY DEF StackOK
<1>3. StackOK(t, aptus) /\ Over(t, s)
  <2>1. CASE p \in GoonPass /\ Prius(p) # NoNode
    <3>1. t = <<Relay(p)>> \o s
      BY <2>1
    <3>2. Relay(p) \in Frame /\ Relay(p).what # "walk"
      BY <1>1, OwnerFrame
    <3> HIDE DEF t
    <3> QED
      BY <1>2, <3>1, <3>2, PushCall, PushOver
  <2>2. CASE ~(p \in GoonPass /\ Prius(p) # NoNode)
    <3>1. t = <<>> \o s
      BY <2>2
    <3>2. t = s
      BY <1>2, <3>1
    <3> HIDE DEF t
    <3> QED
      BY <1>2, <3>2 DEF Over
  <2> QED
    BY <2>1, <2>2
<1>4. \/ stack' = t /\ aptus' = aptus
      \/ /\ Prius(boy) = p /\ ~(i > Len(Compactor[p]))
         /\ \/ stack' = <<Owner(Compactor[p][i])>> \o t /\ aptus' = aptus
            \/ ToDextra(p, i, sub, TakeBack(t, p))
  <2> HIDE DEF t, i
  <2> QED
    BY DEF Continue, t, i
<1> HIDE DEF t
<1>5. t \in Seq(Frame)
  BY <1>3 DEF StackOK
<1>6. CASE stack' = t /\ aptus' = aptus
  BY <1>3, <1>6
<1>7. CASE Prius(boy) = p /\ ~(i > Len(Compactor[p]))
  <2>1. i \in 1 .. Len(Compactor[p])
    BY <1>1, <1>7, ParentOf
  <2> HIDE DEF i
  <2>2. Compactor[p][i] \in Animi
    BY <1>1, <2>1, NodesAssumption
  <2>3. CASE stack' = <<Owner(Compactor[p][i])>> \o t /\ aptus' = aptus
    <3>1. Owner(Compactor[p][i]) \in Frame /\ Owner(Compactor[p][i]).what # "walk"
      BY <2>2, OwnerFrame
    <3>2. StackOK(stack', aptus') /\ Over(stack', t)
      BY <1>3, <1>5, <2>3, <3>1, PushCall, PushOver
    <3>3. stack' \in Seq(Frame)
      BY <3>2 DEF StackOK
    <3> QED
      BY <1>2, <1>3, <1>5, <2>3, <3>2, <3>3, OverTransitive
  <2>4. CASE ToDextra(p, i, sub, TakeBack(t, p))
    <3>1. StackOK(TakeBack(t, p), aptus \ {p}) /\ Alike(TakeBack(t, p), t)
      BY <1>3, TakingKeeps
    <3>2. TakeBack(t, p) \in Seq(Frame)
      BY <3>1 DEF StackOK
    <3>3. Over(TakeBack(t, p), t)
      BY <1>5, <3>1, <3>2, AlikeOver
    <3>4. StackOK(stack', aptus') /\ Over(stack', TakeBack(t, p)) /\ aptus' = aptus \ {p}
      BY <1>1, <2>1, <2>4, <3>1, ToDextraKeeps
    <3>5. stack' \in Seq(Frame)
      BY <3>4 DEF StackOK
    <3>6. Over(stack', t)
      BY <1>5, <3>2, <3>3, <3>4, <3>5, OverTransitive
    <3> QED
      BY <1>2, <1>3, <1>5, <3>4, <3>5, <3>6, OverTransitive
  <2> QED
    BY <1>4, <1>6, <1>7, <2>3, <2>4
<1> QED
  BY <1>4, <1>6, <1>7
-----------------------------------------------------------------------------
(***************************************************************************)
(* The steps.                                                              *)
(***************************************************************************)
\* What StopIsObeyedUnlessWalkedAgain says of a step
Obeyed == \A d \in 1 .. Len(stack) : GoesOn(d) => ~Up(stack, d).stop \/ Up(stack, d).again

Kept == StackOK(stack', aptus') /\ aptus' \subseteq Relays /\ Obeyed

\* No walk goes on when calls are put on the stack, or on what is below the
\* running one.
LEMMA PushObeys ==
  ASSUME stack \in Seq(Frame), stack' \in Seq(Frame), Over(stack', stack)
  PROVE  Obeyed
<1>1. ASSUME NEW d \in 1 .. Len(stack), GoesOn(d)
      PROVE  FALSE
  <2>1. Up(stack', d).at = Up(stack, d).at
    BY DEF Over
  <2>2. Len(stack) + 1 - d \in 1 .. Len(stack)
    OBVIOUS
  <2>3. Up(stack, d).at \in Nat
    BY <2>2, FrameFields DEF Up
  <2> QED
    BY <1>1, <2>1, <2>3 DEF GoesOn
<1> QED
  BY <1>1 DEF Obeyed

LEMMA PopObeys ==
  ASSUME stack \in Seq(Frame), stack # <<>>, stack[1].what # "walk",
         stack' \in Seq(Frame), Over(stack', Tail(stack))
  PROVE  Obeyed
<1>1. Tail(stack) \in Seq(Frame) /\ Beneath(stack, Tail(stack), 1)
  BY PopFrame DEF Beneath
<1>2. ASSUME NEW d \in 1 .. Len(stack), GoesOn(d)
      PROVE  FALSE
  <2>1. CASE d = Len(stack)
    <3>1. Up(stack, d) = stack[1]
      BY <2>1 DEF Up
    <3> QED
      BY <1>2, <3>1 DEF GoesOn
  <2>2. CASE d # Len(stack)
    <3>1. d \in 1 .. Len(Tail(stack))
      <4> DEFINE u == Tail(stack)
      <4> HIDE DEF u
      <4>1. u \in Seq(Frame) /\ Len(stack) = Len(u) + 1
        BY <1>1 DEF Beneath, u
      <4>2. d \in 1 .. Len(u)
        BY <2>2, <4>1
      <4> QED
        BY <4>2 DEF u
    <3>2. Up(stack, d) = Up(Tail(stack), d)
      BY <1>1, <3>1, BeneathOver
    <3>3. Up(stack', d).at = Up(stack, d).at
      BY <3>1, <3>2 DEF Over
    <3>4. Len(stack) + 1 - d \in 1 .. Len(stack)
      OBVIOUS
    <3>5. Up(stack, d).at \in Nat
      BY <3>4, FrameFields DEF Up
    <3> QED
      BY <1>2, <3>3, <3>5 DEF GoesOn
  <2> QED
    BY <2>1, <2>2
<1> QED
  BY <1>2 DEF Obeyed

\* The stack of which a walk that has called is the second frame
LEMMA PopTwo ==
  ASSUME stack \in Seq(Frame), Len(stack) > 1
  PROVE  /\ Tail(Tail(stack)) \in Seq(Frame)
         /\ Beneath(stack, Tail(Tail(stack)), 2)
<1>0. stack # <<>> /\ Len(stack) > 1 /\ Len(stack) \in Nat
  OBVIOUS
<1>1. /\ Tail(stack) \in Seq(Frame)
      /\ Len(Tail(stack)) = Len(stack) - 1
      /\ \A d \in 1 .. Len(stack) - 1 : Tail(stack)[d] = stack[d + 1]
  BY <1>0, PopFrame
<1>2. Tail(stack) # <<>>
  <2> DEFINE u == Tail(stack)
  <2> HIDE DEF u
  <2>1. u # <<>>
    <3>1. Len(u) > 0 /\ Len(<<>>) = 0
      BY <1>0, <1>1 DEF u
    <3> QED
      BY <3>1
  <2> QED
    BY <2>1 DEF u
<1>3. /\ Tail(Tail(stack)) \in Seq(Frame)
      /\ Len(Tail(Tail(stack))) = Len(Tail(stack)) - 1
      /\ \A d \in 1 .. Len(Tail(stack)) - 1 : Tail(Tail(stack))[d] = Tail(stack)[d + 1]
  BY <1>1, <1>2, PopFrame
<1> DEFINE u == Tail(Tail(stack))
<1> HIDE DEF u
<1>4. ASSUME NEW d \in 1 .. Len(u)
      PROVE  stack[d + 2] = u[d]
  <2>1. d \in 1 .. Len(Tail(stack)) - 1 /\ d + 1 \in 1 .. Len(stack) - 1 /\ (d + 1) + 1 = d + 2
    BY <1>1, <1>3 DEF u
  <2> QED
    BY <1>1, <1>3, <2>1 DEF u
<1>5. Len(stack) = Len(u) + 2
  BY <1>1, <1>3 DEF u
<1> QED
  BY <1>3, <1>4, <1>5 DEF Beneath, u

\* Nor when a walk ends or its node calls some other way: the walk that goes on
\* can only be the one below the running call.
LEMMA OnlyTheCaller ==
  ASSUME stack \in Seq(Frame), Len(stack) > 1, stack[1].what # "walk",
         stack' \in Seq(Frame), Over(stack', Tail(Tail(stack))),
         NEW d \in 1 .. Len(stack), GoesOn(d)
  PROVE  d = Len(stack) - 1 /\ Up(stack, d) = stack[2]
<1> DEFINE u == Tail(Tail(stack))
<1>1. u \in Seq(Frame) /\ Beneath(stack, u, 2) /\ Over(stack', u)
  BY PopTwo
<1> HIDE DEF u
<1>2. d # Len(stack)
  <2> SUFFICES ASSUME d = Len(stack) PROVE FALSE
    OBVIOUS
  <2>1. Up(stack, d) = stack[1]
    BY DEF Up
  <2> QED
    BY <2>1 DEF GoesOn
<1>3. d \notin 1 .. Len(u)
  <2> SUFFICES ASSUME d \in 1 .. Len(u) PROVE FALSE
    OBVIOUS
  <2>1. Up(stack, d) = Up(u, d)
    BY <1>1, BeneathOver
  <2>2. Up(stack', d).at = Up(stack, d).at
    BY <1>1, <2>1 DEF Over
  <2>3. Len(stack) + 1 - d \in 1 .. Len(stack)
    OBVIOUS
  <2>4. Up(stack, d).at \in Nat
    BY <2>3, FrameFields DEF Up
  <2> QED
    BY <2>2, <2>4 DEF GoesOn
<1>4. d = Len(stack) - 1
  <2>1. Len(u) \in Nat /\ Len(stack) = Len(u) + 2
    BY <1>1 DEF Beneath
  <2> QED
    BY <1>2, <1>3, <2>1
<1> QED
  BY <1>4 DEF Up

LEMMA RunningCall ==
  ASSUME StackOK(stack, aptus), NEW n \in Animi, Running(n)
  PROVE  /\ stack \in Seq(Frame) /\ stack # <<>>
         /\ stack[1].what # "walk"
         /\ Below = Tail(stack)
<1>1. Owner(n).what # "walk"
  BY OwnerFrame
<1> QED
  BY <1>1 DEF StackOK, Running, Below

LEMMA EnterKeeps ==
  ASSUME TreeInv, NEW n \in Animi, Enter(n)
  PROVE  Kept
<1>1. stack = <<>> /\ stack' = <<Owner(n)>> \o stack /\ aptus' = aptus
  BY DEF Enter
<1>2. Owner(n) \in Frame /\ Owner(n).what # "walk"
  BY OwnerFrame
<1>3. StackOK(stack', aptus')
  BY <1>1, <1>2, PushCall DEF TreeInv
<1>4. Obeyed
  BY <1>1 DEF Obeyed
<1> QED
  BY <1>1, <1>3, <1>4 DEF Kept, TreeInv

LEMMA SponteKeeps ==
  ASSUME TreeInv, NEW n \in Animi, Sponte(n)
  PROVE  Kept
<1>1. Prius(n) # NoNode /\ stack' = <<Owner(Prius(n))>> \o stack /\ aptus' = aptus
  BY DEF Sponte
<1>2. Owner(Prius(n)) \in Frame /\ Owner(Prius(n)).what # "walk"
  <2>1. Prius(n) \in Animi
    BY <1>1, ParentOf
  <2> QED
    BY <2>1, OwnerFrame
<1>3. StackOK(stack', aptus')
  BY <1>1, <1>2, PushCall DEF TreeInv
<1>4. Obeyed
  BY <1>1, <1>2, <1>3, PushOver, PushObeys DEF TreeInv, StackOK
<1> QED
  BY <1>1, <1>3, <1>4 DEF Kept, TreeInv

LEMMA FacioKeeps ==
  ASSUME TreeInv, NEW n \in Animi, NEW sub \in Subors, Facio(n, sub)
  PROVE  Kept
<1> DEFINE s == MarkAgain(stack, n)
<1>1. Compactor[n] # <<>> /\ ToDextra(n, 1, sub, s)
  BY DEF Facio
<1>2. StackOK(s, aptus \ {n}) /\ Alike(s, stack)
  BY AnewKeeps DEF TreeInv
<1> HIDE DEF s
<1>3. 1 \in 1 .. Len(Compactor[n])
  BY <1>1, NodesAssumption
<1>4. StackOK(stack', aptus') /\ Over(stack', s) /\ aptus' = aptus \ {n}
  BY <1>1, <1>2, <1>3, ToDextraKeeps
<1>5. stack \in Seq(Frame) /\ s \in Seq(Frame) /\ stack' \in Seq(Frame)
  BY <1>2, <1>4 DEF TreeInv, StackOK
<1>6. Over(stack', stack)
  BY <1>2, <1>4, <1>5, AlikeOver, OverTransitive
<1>7. Obeyed
  BY <1>5, <1>6, PushObeys
<1> QED
  BY <1>4, <1>7 DEF Kept, TreeInv

LEMMA StopNextKeeps ==
  ASSUME TreeInv, NEW n \in Animi, DMD_STOP_NEXT(n)
  PROVE  Kept
<1>1. aptus' = aptus \cup Stopped(n) /\ stack' = MarkStop(stack, Stopped(n))
  BY DEF DMD_STOP_NEXT
<1>2. StackOK(stack', aptus') /\ Alike(stack', stack)
  BY <1>1, StopKeeps DEF TreeInv
<1>3. Obeyed
  BY <1>2, AlikeOver, PushObeys DEF TreeInv, StackOK
<1> QED
  BY <1>1, <1>2, <1>3, TakenByRelays DEF Kept, TreeInv

LEMMA ContinueNextKeeps ==
  ASSUME TreeInv, NEW n \in Animi, NEW inv \in BOOLEAN, NEW sub \in Subors,
         DMD_CONTINUE_NEXT(n, inv, sub)
  PROVE  Kept
<1>1. PICK p \in Taker(n) : Continue(p, n, inv, sub, stack)
  BY DEF DMD_CONTINUE_NEXT
<1>2. p \in Relays
  BY TakenByRelays
<1>3. StackOK(stack', aptus') /\ Over(stack', stack) /\ aptus' \subseteq aptus
  BY <1>1, <1>2, ContinueKeeps DEF TreeInv
<1>4. Obeyed
  BY <1>3, PushObeys DEF TreeInv, StackOK
<1> QED
  BY <1>3, <1>4 DEF Kept, TreeInv

\* What is above a node by way of its prius has children.
LEMMA AboveHasChildren ==
  ASSUME NEW n \in Animi, NEW p \in Taker(n)
  PROVE  Compactor[p] # <<>>
<1> DEFINE S == {m \in Animi : m = n \/ Compactor[m] # <<>>}
<1>1. p \in Above(n) /\ p # n
  BY DEF Taker, RelaysAbove
<1>2. \A k \in S : Prius(k) \in S \cup {NoNode}
  <2> SUFFICES ASSUME NEW k \in S, Prius(k) # NoNode PROVE Prius(k) \in S
    OBVIOUS
  <2>1. Prius(k) \in Animi /\ Place(k) \in 1 .. Len(Compactor[Prius(k)])
    BY ParentOf
  <2>2. Compactor[Prius(k)] # <<>>
    BY <2>1
  <2> QED
    BY <2>1, <2>2
<1>3. S \in SUBSET Animi /\ n \in S
  OBVIOUS
<1> HIDE DEF S
<1>4. p \in S
  BY <1>1, <1>2, <1>3 DEF Above
<1> QED
  BY <1>1, <1>4 DEF S

LEMMA ContinueSelfKeeps ==
  ASSUME TreeInv, NEW n \in Animi, NEW inv \in BOOLEAN, NEW sub \in Subors,
         DMD_CONTINUE_SELF(n, inv, sub)
  PROVE  Kept
<1>1. PICK p \in Taker(n) :
        \/ stack' = <<Owner(Compactor[p][1])>> \o stack /\ aptus' = aptus
        \/ ToDextra(p, 1, sub, TakeBack(stack, p))
  BY DEF DMD_CONTINUE_SELF
<1>2. p \in Animi /\ 1 \in 1 .. Len(Compactor[p]) /\ Compactor[p][1] \in Animi
  <2>1. p \in Animi
    BY TakenByRelays, NodesAssumption
  <2>2. Compactor[p] \in Seq(Animi) /\ Compactor[p] # <<>>
    BY <2>1, AboveHasChildren, NodesAssumption
  <2> QED
    BY <2>1, <2>2
<1>3. StackOK(stack, aptus) /\ stack \in Seq(Frame)
  BY DEF TreeInv, StackOK
<1>4. StackOK(stack', aptus') /\ Over(stack', stack) /\ aptus' \subseteq aptus
  <2>1. CASE stack' = <<Owner(Compactor[p][1])>> \o stack /\ aptus' = aptus
    <3>1. Owner(Compactor[p][1]) \in Frame /\ Owner(Compactor[p][1]).what # "walk"
      BY <1>2, OwnerFrame
    <3> QED
      BY <1>3, <2>1, <3>1, PushCall, PushOver
  <2>2. CASE ToDextra(p, 1, sub, TakeBack(stack, p))
    <3> DEFINE t == TakeBack(stack, p)
    <3>1. StackOK(t, aptus \ {p}) /\ Alike(t, stack)
      BY <1>3, TakingKeeps
    <3> HIDE DEF t
    <3>2. t \in Seq(Frame) /\ Over(t, stack)
      BY <1>3, <3>1, AlikeOver DEF StackOK
    <3>3. StackOK(stack', aptus') /\ Over(stack', t) /\ aptus' = aptus \ {p}
      BY <1>2, <2>2, <3>1, ToDextraKeeps DEF t
    <3> QED
      BY <1>3, <3>2, <3>3, OverTransitive DEF StackOK
  <2> QED
    BY <1>1, <2>1, <2>2
<1>5. Obeyed
  BY <1>3, <1>4, PushObeys DEF StackOK
<1> QED
  BY <1>4, <1>5 DEF Kept, TreeInv

LEMMA LeftgoKeeps ==
  ASSUME TreeInv, NEW sub \in Subors, Leftgo(sub)
  PROVE  Kept
<1>1. StackOK(stack, aptus) /\ stack \in Seq(Frame)
  BY DEF TreeInv, StackOK
<1>2. stack # <<>> /\ stack[1].what = "relay" /\ Head(stack) = stack[1]
  BY <1>1 DEF Leftgo
<1>3. stack[1].node \in Animi
  BY <1>1, <1>2, FrameFields
<1>4. Len(stack) > 1 => stack[2].what # "walk"
  <2> SUFFICES ASSUME Len(stack) > 1, stack[2].what = "walk" PROVE FALSE
    OBVIOUS
  <2>1. CallsItsChild(stack, 2)
    BY <1>1 DEF StackOK, Calling
  <2>2. stack[1].what = "owner"
    BY <2>1 DEF CallsItsChild, Owner, Call
  <2> QED
    BY <1>2, <2>2
<1>5. StackOK(Tail(stack), aptus)
  BY <1>1, <1>2, <1>4, PopCall
<1> DEFINE u == Tail(stack)
           q == stack[1].node
<1>6. \/ stack' = u /\ aptus' = aptus
      \/ \E p \in Taker(q) : Continue(p, q, FALSE, sub, u)
  BY <1>2 DEF Leftgo, Below
<1>7. StackOK(u, aptus) /\ u \in Seq(Frame)
  BY <1>5 DEF StackOK
<1> HIDE DEF u, q
<1>8. StackOK(stack', aptus') /\ Over(stack', u) /\ aptus' \subseteq aptus
  <2>1. CASE stack' = u /\ aptus' = aptus
    BY <1>7, <2>1 DEF Over
  <2>2. ASSUME NEW p \in Taker(q), Continue(p, q, FALSE, sub, u)
        PROVE  StackOK(stack', aptus') /\ Over(stack', u) /\ aptus' \subseteq aptus
    <3>1. p \in Relays /\ q \in Animi
      BY <1>3, TakenByRelays DEF q
    <3> QED
      BY <1>7, <2>2, <3>1, ContinueKeeps
  <2> QED
    BY <1>6, <2>1, <2>2
<1>9. Obeyed
  <2>1. stack' \in Seq(Frame) /\ stack[1].what # "walk"
    BY <1>2, <1>8 DEF StackOK
  <2> QED
    BY <1>1, <1>2, <1>8, <2>1, PopObeys DEF u
<1> QED
  BY <1>8, <1>9 DEF Kept, TreeInv

LEMMA ReturnKeeps ==
  ASSUME TreeInv, NEW n \in Animi, Return(n)
  PROVE  Kept
<1>1. StackOK(stack, aptus) /\ stack \in Seq(Frame)
  BY DEF TreeInv, StackOK
<1>2. stack # <<>> /\ stack[1].what # "walk" /\ stack' = Tail(stack) /\ aptus' = aptus
  BY <1>1, RunningCall DEF Return
<1>3. Len(stack) > 1 => stack[2].what # "walk"
  BY DEF Return, CalledByWalk
<1>4. StackOK(Tail(stack), aptus)
  BY <1>1, <1>2, <1>3, PopCall
<1>5. Over(stack', Tail(stack)) /\ stack' \in Seq(Frame)
  BY <1>2, <1>4 DEF StackOK, Over
<1>6. Obeyed
  BY <1>1, <1>2, <1>5, PopObeys
<1> QED
  BY <1>2, <1>4, <1>6 DEF Kept, TreeInv

\* The running call has been made by a walk.
LEMMA CalledBack ==
  ASSUME StackOK(stack, aptus), NEW n \in Animi, Running(n), CalledByWalk
  PROVE  /\ stack \in Seq(Frame) /\ Len(stack) > 1 /\ stack[1].what # "walk"
         /\ Tail(Below) = Tail(Tail(stack))
         /\ StackOK(Tail(Tail(stack)), aptus \ {stack[2].node})
         /\ stack[2].node \in Animi /\ stack[2].at \in Nat
         /\ stack[2].node \in aptus => AskedItself(stack[2]) \/ stack[2].left
         /\ stack[2].node \notin aptus => ~stack[2].stop \/ stack[2].again
<1>1. stack \in Seq(Frame) /\ Len(stack) > 1 /\ stack[2].what = "walk" /\ 2 \in 1 .. Len(stack)
  BY DEF StackOK, CalledByWalk
<1>2. stack[1].what # "walk" /\ Tail(Below) = Tail(Tail(stack))
  BY RunningCall
<1>3. StackOK(Tail(Tail(stack)), aptus \ {stack[2].node}) /\ Innermost(stack, 2)
  BY <1>1, <1>2, PopWalk
<1>4. stack[2].node \in Animi /\ stack[2].at \in Nat
  BY <1>1, FrameFields
<1>5. stack[2].node \in aptus => AskedItself(stack[2]) \/ stack[2].left
  BY <1>1, <1>3 DEF StackOK, SetMeansAsked
<1>6. stack[2].node \notin aptus => ~stack[2].stop \/ stack[2].again
  BY <1>1 DEF StackOK, AskedMeansSet
<1> QED
  BY <1>1, <1>2, <1>3, <1>4, <1>5, <1>6

LEMMA SwitchKeeps ==
  ASSUME TreeInv, NEW n \in Animi, NEW sub \in Subors, Switch(n, sub)
  PROVE  Kept
<1> DEFINE w == stack[2]
           u == Tail(Tail(stack))
           r == IF w.node \in aptus /\ (AskedItself(w) \/ w.left)
                THEN MarkLeft(u, w.node) ELSE u
<1>1. /\ stack \in Seq(Frame) /\ Len(stack) > 1 /\ stack[1].what # "walk"
      /\ Tail(Below) = u /\ StackOK(u, aptus \ {w.node})
      /\ w.node \in Animi /\ (w.node \in aptus => AskedItself(w) \/ w.left)
  BY CalledBack DEF Switch, TreeInv
<1>2. PICK i \in Branch(w.node, sub) : stack' = <<Owner(Compactor[w.node][i])>> \o r
  BY <1>1 DEF Switch
<1>3. aptus' = aptus
  BY DEF Switch
<1>4. StackOK(r, aptus) /\ Over(r, u) /\ Len(r) = Len(u)
  <2>1. u \in Seq(Frame)
    BY <1>1 DEF StackOK
  <2>2. CASE w.node \in aptus
    <3>1. r = MarkLeft(u, w.node)
      BY <1>1, <2>2
    <3>2. (aptus \ {w.node}) \cup {w.node} = aptus
      BY <2>2
    <3> DEFINE A == aptus \ {w.node}
    <3>0. StackOK(u, A)
      BY <1>1
    <3> HIDE DEF w, u, r, A
    <3>3. StackOK(MarkLeft(u, w.node), A \cup {w.node}) /\ Alike(MarkLeft(u, w.node), u)
      BY <3>0, LeavingKeeps
    <3>4. StackOK(r, aptus) /\ Alike(r, u)
      BY <3>1, <3>2, <3>3 DEF A
    <3> QED
      BY <2>1, <3>4, AlikeOver DEF StackOK, Alike
  <2>3. CASE w.node \notin aptus
    <3>1. r = u /\ aptus \ {w.node} = aptus
      BY <2>3
    <3>2. StackOK(u, aptus)
      BY <1>1, <3>1
    <3> HIDE DEF w, u, r
    <3> QED
      BY <2>1, <3>1, <3>2 DEF Over
  <2> QED
    BY <2>2, <2>3
<1>5. Owner(Compactor[w.node][i]) \in Frame /\ Owner(Compactor[w.node][i]).what # "walk"
  <2>1. Compactor[w.node][i] \in Animi
    BY <1>1, <1>2, NodesAssumption DEF Branch
  <2> QED
    BY <2>1, OwnerFrame
<1> DEFINE f == Owner(Compactor[w.node][i])
<1> HIDE DEF r, f
<1>6. StackOK(stack', aptus) /\ Over(stack', r) /\ stack'[1] = f
  <2>1. r \in Seq(Frame)
    BY <1>4 DEF StackOK
  <2>2. f \in Frame /\ f.what # "walk" /\ stack' = <<f>> \o r
    BY <1>2, <1>5 DEF f
  <2> QED
    BY <1>4, <2>1, <2>2, PushCall, PushOver, PushFrame
<1>7. Len(stack') = Len(r) + 1
  BY <1>2, <1>4, <1>5, PushFrame DEF StackOK
<1>8. Obeyed
  <2> SUFFICES ASSUME NEW d \in 1 .. Len(stack), GoesOn(d) PROVE FALSE
    BY DEF Obeyed
  <2>0. u \in Seq(Frame) /\ r \in Seq(Frame) /\ stack' \in Seq(Frame)
    BY <1>1, <1>4, <1>6 DEF StackOK
  <2>1. Over(stack', u)
    <3> HIDE DEF u
    <3> QED
      BY <1>4, <1>6, <2>0, OverTransitive
  <2>2. d = Len(stack) - 1
    BY <1>1, <2>0, <2>1, OnlyTheCaller
  <2>3. Len(stack) = Len(u) + 2
    BY <1>1, PopTwo DEF Beneath
  <2>4. Len(stack') + 1 - d = 1
    <3> HIDE DEF u
    <3> QED
      BY <1>4, <1>7, <2>0, <2>2, <2>3
  <2>5. Up(stack', d) = f
    BY <1>6, <2>4 DEF Up
  <2> QED
    BY <1>5, <2>5 DEF GoesOn, f
<1> QED
  BY <1>3, <1>6, <1>8 DEF Kept, TreeInv

\* A walk that ends early was asked to, or another left the flag set.
LEMMA BreakKeeps ==
  ASSUME TreeInv, NEW n \in Animi, NEW sub \in Subors, Break(n, sub)
  PROVE  Kept /\ (AskedItself(stack[2]) \/ stack[2].left)
<1> DEFINE w == stack[2]
           u == Tail(Tail(stack))
<1>1. /\ stack \in Seq(Frame) /\ Len(stack) > 1 /\ stack[1].what # "walk"
      /\ Tail(Below) = u /\ StackOK(u, aptus \ {w.node})
      /\ (w.node \in aptus => AskedItself(w) \/ w.left)
  BY CalledBack DEF Break, TreeInv
<1>2. w.node \in aptus /\ stack' = u /\ aptus' = aptus \ {w.node}
  BY <1>1 DEF Break
<1>3. u \in Seq(Frame) /\ Len(stack) = Len(u) + 2
  BY <1>1, PopTwo DEF Beneath
<1>4. Obeyed
  <2> SUFFICES ASSUME NEW d \in 1 .. Len(stack), GoesOn(d) PROVE FALSE
    BY DEF Obeyed
  <2>1. Over(stack', u) /\ stack' \in Seq(Frame)
    <3> HIDE DEF u
    <3> QED
      BY <1>2, <1>3 DEF Over
  <2>2. d = Len(stack) - 1
    BY <1>1, <2>1, OnlyTheCaller
  <2> HIDE DEF u
  <2> QED
    BY <1>2, <1>3, <2>2 DEF GoesOn
<1>5. StackOK(stack', aptus')
  BY <1>1, <1>2
<1> HIDE DEF u
<1> QED
  BY <1>1, <1>2, <1>4, <1>5 DEF Kept, TreeInv

\* The walk that goes on was not asked to end, or its node has walked again.
LEMMA OnwardKeeps ==
  ASSUME TreeInv, NEW n \in Animi, NEW sub \in Subors, Onward(n, sub)
  PROVE  Kept
<1> DEFINE w == stack[2]
           u == Tail(Tail(stack))
<1>1. /\ stack \in Seq(Frame) /\ Len(stack) > 1 /\ stack[1].what # "walk"
      /\ Tail(Below) = u /\ StackOK(u, aptus \ {w.node})
      /\ w.node \in Animi /\ w.at \in Nat
      /\ w.node \notin aptus => ~w.stop \/ w.again
  BY CalledBack DEF Onward, TreeInv
<1>2. w.node \notin aptus /\ CallNextTor(w.node, w.at + 1, sub, u) /\ aptus' = aptus
  BY <1>1 DEF Onward
<1>3. StackOK(u, aptus)
  <2>1. aptus \ {w.node} = aptus
    BY <1>2
  <2> QED
    BY <1>1, <2>1
<1>4. StackOK(stack', aptus) /\ Over(stack', u)
  <2> HIDE DEF u, w
  <2>1. w.at + 1 \in Nat \ {0}
    BY <1>1
  <2> QED
    BY <1>1, <1>2, <1>3, <2>1, CallsNext
<1>5. Obeyed
  <2> SUFFICES ASSUME NEW d \in 1 .. Len(stack), GoesOn(d)
               PROVE  ~Up(stack, d).stop \/ Up(stack, d).again
    BY DEF Obeyed
  <2>1. stack' \in Seq(Frame)
    BY <1>4 DEF StackOK
  <2>2. Up(stack, d) = w
    BY <1>1, <1>4, <2>1, OnlyTheCaller
  <2> QED
    BY <1>1, <1>2, <2>2
<1> QED
  BY <1>2, <1>4, <1>5 DEF Kept, TreeInv

LEMMA StepKeeps ==
  TreeInv /\ TreeNext => Kept
<1> SUFFICES ASSUME TreeInv, TreeNext PROVE Kept
  OBVIOUS
<1>1. ASSUME NEW n \in Animi, Enter(n) \/ Sponte(n) \/ DMD_STOP_NEXT(n) \/ Return(n)
      PROVE  Kept
  BY <1>1, EnterKeeps, SponteKeeps, StopNextKeeps, ReturnKeeps
<1>2. ASSUME NEW n \in Animi, NEW sub \in Subors,
             Facio(n, sub) \/ Switch(n, sub) \/ Break(n, sub) \/ Onward(n, sub)
      PROVE  Kept
  BY <1>2, FacioKeeps, SwitchKeeps, BreakKeeps, OnwardKeeps
<1>3. ASSUME NEW n \in Animi, NEW sub \in Subors, NEW inv \in BOOLEAN,
             DMD_CONTINUE_NEXT(n, inv, sub) \/ DMD_CONTINUE_SELF(n, inv, sub)
      PROVE  Kept
  BY <1>3, ContinueNextKeeps, ContinueSelfKeeps
<1>4. ASSUME NEW sub \in Subors, Leftgo(sub)
      PROVE  Kept
  BY <1>4, LeftgoKeeps
<1> QED
  BY <1>1, <1>2, <1>3, <1>4 DEF TreeNext

\* TreeInv holds always.
LEMMA TreeInductive == TreeSpec => []TreeInv
<1>1. TreeInit => TreeInv
  <2> SUFFICES ASSUME TreeInit PROVE TreeInv
    OBVIOUS
  <2>1. stack \in Seq(Frame) /\ Len(stack) = 0 /\ aptus = {}
    BY DEF TreeInit
  <2>2. \A d \in 1 .. Len(stack) : FALSE
    BY <2>1
  <2> QED
    BY <2>1, <2>2 DEF TreeInv, StackOK, Calling, SetMeansAsked, AskedMeansSet
<1>2. TreeInv /\ [TreeNext]_tree_vars => TreeInv'
  <2>1. TreeInv /\ TreeNext => TreeInv'
    BY StepKeeps DEF Kept, TreeInv
  <2>2. TreeInv /\ UNCHANGED tree_vars => TreeInv'
    BY DEF TreeInv, tree_vars
  <2> QED
    BY <2>1, <2>2
<1> QED
  BY <1>1, <1>2, PTL DEF TreeSpec

\* Every frame and every flag is one there can be, and a walk is always at a
\* child of its node that it does not skip: the one it called.
THEOREM TreeTypeCorrect == TreeSpec => []TreeTypeOK
<1>1. TreeInv => TreeTypeOK
  BY DEF TreeInv, StackOK, Calling, CallsItsChild, TreeTypeOK
<1> QED
  BY <1>1, TreeInductive, PTL

\* A request to stop is never missed, in any tree, at any depth of calls, unless
\* the owner of the node has sent its children another message since.
THEOREM StopObeyed == TreeSpec => StopIsObeyedUnlessWalkedAgain
<1>1. TreeInv /\ [TreeNext]_tree_vars =>
        [\A d \in 1 .. Len(stack) :
            GoesOn(d) => ~Up(stack, d).stop \/ Up(stack, d).again]_tree_vars
  BY StepKeeps DEF Kept, Obeyed
<1> QED
  BY <1>1, TreeInductive, PTL DEF TreeSpec, StopIsObeyedUnlessWalkedAgain

\* The flag ends a walk only if a request has come for it while it was calling
\* this child, or if a walk of the same node that this call made was asked to end
\* and found the child its message is for before it looked at the flag
\* (Animus.cpp:828-832): the one way in which a request cuts another walk short.
THEOREM NoWalkCutShort == TreeSpec => CutShortOnlyIfAsked
<1>1. TreeInv /\ [TreeNext]_tree_vars =>
        [\A n \in Animi, sub \in Subors :
            Break(n, sub) => AskedItself(stack[2]) \/ stack[2].left]_tree_vars
  BY BreakKeeps
<1> QED
  BY <1>1, TreeInductive, PTL DEF TreeSpec, CutShortOnlyIfAsked
-----------------------------------------------------------------------------
(***************************************************************************)
(* NostraPool: Nostra keeps its lists complete and implements ObjectPool,  *)
(* whatever the limit, the growth rate and the order in which objects come *)
(* back.                                                                   *)
(*                                                                         *)
(* IInv: the nodes below child_num are distributed over the ring and the   *)
(* stack of nodes, each once; the objects in the ring are distinct, idle   *)
(* and cloned; and that stack is as long as there are objects out.         *)
(***************************************************************************)
\* What is left of a stack when its top is taken.
LEMMA PopSeq ==
  ASSUME NEW S, NEW z \in Seq(S), z # << >>
  PROVE  /\ Len(z) \in Nat \ {0}
         /\ z[Len(z)] \in S
         /\ SubSeq(z, 1, Len(z) - 1) \in Seq(S)
         /\ Len(SubSeq(z, 1, Len(z) - 1)) = Len(z) - 1
         /\ \A a \in 1 .. Len(z) - 1 : SubSeq(z, 1, Len(z) - 1)[a] = z[a]
<1> DEFINE n == Len(z)
           h == SubSeq(z, 1, n - 1)
<1>1. n \in Nat \ {0}
  OBVIOUS
<1>2. \A a \in 1 .. n : z[a] \in S
  OBVIOUS
<1>3. \A a \in 1 .. n - 1 : z[a] \in S
  BY <1>1, <1>2
<1> HIDE DEF n
<1>4. /\ h \in Seq(S)
      /\ Len(h) = IF 1 <= n - 1 THEN n - 1 - 1 + 1 ELSE 0
      /\ \A a \in 1 .. n - 1 - 1 + 1 : h[a] = z[1 + a - 1]
  BY <1>1, <1>3, SubSeqProperties
<1> HIDE DEF h
<1>5. Len(h) = n - 1
  BY <1>1, <1>4
<1>6. ASSUME NEW a \in 1 .. n - 1 PROVE h[a] = z[a]
  <2>1. a \in 1 .. n - 1 - 1 + 1 /\ 1 + a - 1 = a
    BY <1>1
  <2> QED
    BY <2>1, <1>4
<1> QED
  BY <1>1, <1>2, <1>4, <1>5, <1>6 DEF h, n

Injective(s) == \A a, b \in 1 .. Len(s) : s[a] = s[b] => a = b

NodesOnce ==
    /\ Injective(que)
    /\ Injective(filius)
    /\ \A a \in 1 .. Len(que), b \in 1 .. Len(filius) : que[a] # filius[b]
    /\ \A a \in 1 .. Len(que) : que[a] < child_num
    /\ \A b \in 1 .. Len(filius) : filius[b] < child_num

RingIdle ==
    /\ \A a \in 1 .. Len(que) :
          /\ me[que[a]] \in Objs
          /\ me[que[a]] <= child_num
          /\ status[me[que[a]]] = "IDLE"
    /\ \A a, b \in 1 .. Len(que) : me[que[a]] = me[que[b]] => a = b

References ==
    /\ \A o \in Objs : status[o] = "IDLE" => refs[o] = 0
    /\ \A o \in Objs : status[o] = "RECLAIM" => refs[o] > 0
    /\ \A o \in Objs : o > child_num => status[o] = "IDLE"

IInv ==
    /\ TypeOK
    /\ NodesOnce
    /\ NodesAccounted
    /\ RingIdle
    /\ References
    /\ RoomForEachLoan

USE MaxiumAssumption, GrowthAssumption, SeedAssumption, RefBoundAssumption

(***************************************************************************)
(* Counting the objects that are out.                                      *)
(***************************************************************************)
LEMMA OutFinite == IsFiniteSet(Out) /\ Cardinality(Out) \in Nat
<1>1. IsFiniteSet(Objs)
  BY FS_Interval DEF Objs
<1>2. Out \in SUBSET Objs
  BY DEF Out
<1> QED
  BY <1>1, <1>2, FS_Subset, FS_CardinalityType

LEMMA OneMoreOut ==
    ASSUME TypeOK, NEW o \in Objs, status[o] = "IDLE", NEW st \in {"BUSY", "RECLAIM"},
           status' = [status EXCEPT ![o] = st]
    PROVE  Cardinality(Out') = Cardinality(Out) + 1
<1>1. Out' = Out \cup {o} /\ o \notin Out
  BY DEF TypeOK, Out
<1> QED
  BY <1>1, OutFinite, FS_AddElement

LEMMA OneLessOut ==
    ASSUME TypeOK, NEW o \in Objs, status[o] # "IDLE",
           status' = [status EXCEPT ![o] = "IDLE"]
    PROVE  Cardinality(Out') = Cardinality(Out) - 1
<1>1. Out' = Out \ {o} /\ o \in Out
  BY DEF TypeOK, Out
<1> QED
  BY <1>1, OutFinite, FS_RemoveElement

LEMMA SameOut ==
    ASSUME TypeOK, NEW o \in Objs, status[o] # "IDLE",
           status' = [status EXCEPT ![o] = "RECLAIM"]
    PROVE  Out' = Out
BY DEF TypeOK, Out

LEMMA InitIInv == Init => IInv
<1> SUFFICES ASSUME Init PROVE IInv
  OBVIOUS
<1> DEFINE n == IF radical THEN AtMost(seed, maxium) - 1 ELSE 0
<1>1. n \in 0 .. maxium - 1
  BY DEF AtMost
<1>2. /\ que = [k \in 1 .. n |-> k - 1]
      /\ me = [d \in Nodes |-> IF d < n THEN d + 1 ELSE NoObj]
      /\ filius = << >>
      /\ child_num = n
      /\ status = [o \in Objs |-> "IDLE"]
      /\ refs = [o \in Objs |-> 0]
      /\ indic = NoObj
  BY DEF Init
<1> HIDE DEF n
<1>3. que \in Seq(Nodes) /\ Len(que) = n
  BY <1>1, <1>2 DEF Nodes
<1>4. \A k \in 1 .. n : que[k] = k - 1 /\ que[k] \in Nodes /\ me[que[k]] = k
  BY <1>1, <1>2 DEF Nodes
<1>5. TypeOK
  BY <1>1, <1>2, <1>3 DEF TypeOK, Nodes, Objs, NoObj
<1>6. NodesOnce
  BY <1>1, <1>2, <1>3, <1>4 DEF NodesOnce, Injective
<1>7. NodesAccounted
  <2>1. ASSUME NEW d \in Nodes, d < child_num PROVE \E k \in 1 .. Len(que) : que[k] = d
    <3>1. d + 1 \in 1 .. n /\ que[d + 1] = d
      BY <1>1, <1>2, <1>4, <2>1 DEF Nodes
    <3> QED
      BY <3>1, <1>3
  <2> QED
    BY <2>1, <1>1, <1>2, <1>3, <1>4 DEF NodesAccounted
<1>8. RingIdle
  BY <1>1, <1>2, <1>3, <1>4 DEF RingIdle, Objs
<1>9. References
  BY <1>2 DEF References
<1>10. RoomForEachLoan
  <2>1. Out = {}
    BY <1>2 DEF Out
  <2> QED
    BY <2>1, <1>2, FS_EmptySet DEF RoomForEachLoan
<1> QED
  BY <1>5, <1>6, <1>7, <1>8, <1>9, <1>10 DEF IInv

(***************************************************************************)
(* Borrowing.                                                              *)
(***************************************************************************)
LEMMA AllocIdleKeeps == IInv /\ AllocIdle => IInv'
<1> SUFFICES ASSUME IInv, AllocIdle PROVE IInv'
  OBVIOUS
<1> DEFINE d == Head(que)
           o == me[d]
<1>1. /\ que # << >> /\ que' = Tail(que)
      /\ filius' = Append(filius, d)
      /\ status' = [status EXCEPT ![o] = "BUSY"]
      /\ indic' = o
      /\ UNCHANGED <<me, child_num, refs>>
  BY DEF AllocIdle, Get
<1>2. /\ que \in Seq(Nodes) /\ filius \in Seq(Nodes)
      /\ Len(que) >= 1 /\ d = que[1] /\ d \in Nodes
  BY <1>1 DEF IInv, TypeOK
<1>3. o \in Objs /\ o <= child_num /\ status[o] = "IDLE"
  BY <1>2 DEF IInv, RingIdle
<1> HIDE DEF d, o
<1>4. /\ Len(que') = Len(que) - 1
      /\ \A k \in 1 .. Len(que') : que'[k] = que[k + 1] /\ k + 1 \in 1 .. Len(que)
      /\ que' \in Seq(Nodes)
  BY <1>1, <1>2
<1>5. /\ Len(filius') = Len(filius) + 1
      /\ \A k \in 1 .. Len(filius) : filius'[k] = filius[k]
      /\ filius'[Len(filius) + 1] = d
      /\ filius' \in Seq(Nodes)
  BY <1>1, <1>2
<1>6. TypeOK'
  <2>1. Len(filius') <= maxium
    BY <1>2, <1>5 DEF IInv, TypeOK, NodesAccounted
  <2>2. status' \in [Objs -> {"IDLE", "BUSY", "RECLAIM"}]
    BY <1>1, <1>3 DEF IInv, TypeOK
  <2> QED
    BY <2>1, <2>2, <1>1, <1>3, <1>4, <1>5 DEF IInv, TypeOK
<1>7. NodesOnce'
  <2>1. Injective(que)' /\ \A a \in 1 .. Len(que') : que'[a] < child_num' /\ que'[a] # d
    BY <1>1, <1>2, <1>4 DEF IInv, NodesOnce, Injective
  <2>2. Injective(filius)' /\ \A b \in 1 .. Len(filius') : filius'[b] < child_num'
    BY <1>1, <1>2, <1>5 DEF IInv, NodesOnce, Injective
  <2>3. ASSUME NEW a \in 1 .. Len(que'), NEW b \in 1 .. Len(filius')
        PROVE  que'[a] # filius'[b]
    <3>1. CASE b = Len(filius) + 1
      BY <3>1, <2>1, <1>5
    <3>2. CASE b \in 1 .. Len(filius)
      BY <3>2, <1>4, <1>5 DEF IInv, NodesOnce
    <3> QED
      BY <3>1, <3>2, <1>2, <1>5
  <2> QED
    BY <2>1, <2>2, <2>3 DEF NodesOnce
<1>8. NodesAccounted'
  <2>1. Len(que') + Len(filius') = child_num'
    BY <1>1, <1>2, <1>4, <1>5 DEF IInv, NodesAccounted
  <2>2. ASSUME NEW e \in Nodes, e < child_num'
        PROVE  (\E k \in 1 .. Len(que') : que'[k] = e) \/ (\E k \in 1 .. Len(filius') : filius'[k] = e)
    <3>1. CASE e = d
      BY <3>1, <1>2, <1>5
    <3>2. CASE \E k \in 1 .. Len(filius) : filius[k] = e
      BY <3>2, <1>2, <1>5
    <3>3. ASSUME NEW k \in 1 .. Len(que), que[k] = e, e # d
          PROVE  \E l \in 1 .. Len(que') : que'[l] = e
      <4>1. k - 1 \in 1 .. Len(que') /\ que'[k - 1] = que[k]
        BY <3>3, <1>2, <1>4
      <4> QED
        BY <4>1, <3>3
    <3>4. (\E k \in 1 .. Len(que) : que[k] = e) \/ (\E k \in 1 .. Len(filius) : filius[k] = e)
      BY <2>2, <1>1 DEF IInv, NodesAccounted
    <3> QED
      BY <3>1, <3>2, <3>3, <3>4
  <2>3. /\ \A k \in 1 .. Len(que') : que'[k] < child_num'
        /\ \A k \in 1 .. Len(filius') : filius'[k] < child_num'
    BY <1>7 DEF NodesOnce
  <2> QED
    BY <2>1, <2>2, <2>3 DEF NodesAccounted
<1>9. RingIdle'
  <2>1. ASSUME NEW a \in 1 .. Len(que')
        PROVE  me'[que'[a]] \in Objs /\ me'[que'[a]] <= child_num' /\ me'[que'[a]] # o
    BY <1>1, <1>2, <1>4 DEF IInv, RingIdle, o
  <2>2. ASSUME NEW a \in 1 .. Len(que') PROVE status'[me'[que'[a]]] = "IDLE"
    <3>1. status[me[que[a + 1]]] = "IDLE"
      BY <1>4 DEF IInv, RingIdle
    <3> QED
      BY <2>1, <3>1, <1>1, <1>4 DEF IInv, TypeOK
  <2>3. ASSUME NEW a \in 1 .. Len(que'), NEW b \in 1 .. Len(que'), me'[que'[a]] = me'[que'[b]]
        PROVE  a = b
    BY <2>3, <1>1, <1>2, <1>4 DEF IInv, RingIdle
  <2> QED
    BY <2>1, <2>2, <2>3 DEF RingIdle
<1>10. References'
  BY <1>1, <1>3 DEF IInv, TypeOK, References, Objs
<1>11. RoomForEachLoan'
  BY <1>1, <1>2, <1>3, <1>5, OneMoreOut, OutFinite DEF IInv, RoomForEachLoan
<1> QED
  BY <1>6, <1>7, <1>8, <1>9, <1>10, <1>11 DEF IInv

LEMMA AllocGrownKeeps == IInv /\ AllocGrown => IInv'
<1> SUFFICES ASSUME IInv, AllocGrown PROVE IInv'
  OBVIOUS
<1> DEFINE n == HereNum
<1>1. /\ n \in 1 .. maxium /\ child_num + n <= maxium
      /\ child_num \in 0 .. maxium /\ child_num \in Nodes
  BY DEF AllocGrown, HereNum, AtMost, IInv, TypeOK, Nodes
<1> DEFINE q == Queued(n)
           m == Stored(n)
           o == child_num + 1
<1>2. /\ q \in Seq(Nodes) /\ Len(q) = n /\ q # << >>
      /\ \A k \in 1 .. n : q[k] = child_num + k - 1
      /\ Head(q) = child_num
  BY <1>1 DEF Queued, Nodes
<1>3. /\ m \in [Nodes -> Objs \cup {NoObj}]
      /\ \A e \in child_num .. child_num + n - 1 : e \in Nodes /\ m[e] = e + 1
      /\ m[child_num] = o /\ o \in Objs
  BY <1>1 DEF Stored, Nodes, Objs, NoObj, IInv, TypeOK
<1>4. /\ que = << >> /\ que' = Tail(q)
      /\ filius' = Append(filius, Head(q))
      /\ status' = [status EXCEPT ![m[Head(q)]] = "BUSY"]
      /\ indic' = m[Head(q)]
      /\ me' = m /\ child_num' = child_num + n /\ UNCHANGED refs
  BY DEF AllocGrown, Get
<1>5. status' = [status EXCEPT ![o] = "BUSY"] /\ indic' = o /\ filius' = Append(filius, child_num)
  BY <1>2, <1>3, <1>4
<1> HIDE DEF n, q, m
<1>6. /\ que' \in Seq(Nodes) /\ Len(que') = n - 1
      /\ \A k \in 1 .. Len(que') : que'[k] = child_num + k /\ me'[que'[k]] = child_num + k + 1
  <2>1. que' \in Seq(Nodes) /\ Len(que') = n - 1 /\ \A k \in 1 .. Len(que') : que'[k] = q[k + 1]
    BY <1>1, <1>2, <1>4
  <2>2. \A k \in 1 .. Len(que') : que'[k] = child_num + k
    BY <2>1, <1>1, <1>2
  <2> QED
    BY <2>1, <2>2, <1>1, <1>3, <1>4
<1>7. /\ filius \in Seq(Nodes) /\ Len(filius) = child_num
      /\ filius' \in Seq(Nodes) /\ Len(filius') = child_num + 1
      /\ \A k \in 1 .. Len(filius) : filius'[k] = filius[k] /\ filius[k] < child_num
      /\ filius'[child_num + 1] = child_num
  <2>1. filius \in Seq(Nodes) /\ Len(filius) = child_num
    BY <1>4, <1>1 DEF IInv, TypeOK, NodesAccounted
  <2> QED
    BY <2>1, <1>1, <1>5 DEF IInv, NodesOnce
<1>8. status[o] = "IDLE" /\ refs[o] = 0
  BY <1>1, <1>3 DEF IInv, References
<1>9. TypeOK'
  <2>1. status' \in [Objs -> {"IDLE", "BUSY", "RECLAIM"}]
    BY <1>3, <1>5 DEF IInv, TypeOK
  <2> QED
    BY <2>1, <1>1, <1>3, <1>4, <1>5, <1>6, <1>7 DEF IInv, TypeOK
<1>10. NodesOnce'
  <2>1. Injective(que)' /\ \A a \in 1 .. Len(que') : que'[a] < child_num' /\ que'[a] > child_num
    BY <1>1, <1>4, <1>6 DEF Injective
  <2>2. \A b \in 1 .. Len(filius') : filius'[b] < child_num' /\ filius'[b] <= child_num
    BY <1>1, <1>4, <1>7 DEF Nodes
  <2>3. Injective(filius)'
    BY <1>1, <1>7 DEF IInv, NodesOnce, Injective, Nodes
  <2>4. ASSUME NEW a \in 1 .. Len(que'), NEW b \in 1 .. Len(filius')
        PROVE  que'[a] # filius'[b]
    <3>1. que'[a] \in Int /\ filius'[b] \in Int
      BY <1>6, <1>7 DEF Nodes
    <3> QED
      BY <3>1, <2>1, <2>2, <1>1
  <2> QED
    BY <2>1, <2>2, <2>3, <2>4 DEF NodesOnce
<1>11. NodesAccounted'
  <2>1. ASSUME NEW e \in Nodes, e < child_num'
        PROVE  (\E k \in 1 .. Len(que') : que'[k] = e) \/ (\E k \in 1 .. Len(filius') : filius'[k] = e)
    <3>1. CASE e < child_num
      <4>1. PICK k \in 1 .. Len(filius) : filius[k] = e
        BY <3>1, <1>4 DEF IInv, NodesAccounted
      <4> QED
        BY <4>1, <1>1, <1>7
    <3>2. CASE e = child_num
      BY <3>2, <1>1, <1>7
    <3>3. CASE e > child_num
      <4>1. e \in Int /\ e < child_num + n
        BY <2>1, <1>1, <1>4 DEF Nodes
      <4>2. e - child_num \in 1 .. Len(que')
        BY <4>1, <3>3, <1>1, <1>6
      <4>3. que'[e - child_num] = child_num + (e - child_num)
        BY <4>2, <1>6
      <4>4. que'[e - child_num] = e
        BY <4>1, <4>3, <1>1
      <4> QED
        BY <4>2, <4>4
    <3> QED
      BY <3>1, <3>2, <3>3, <1>1 DEF Nodes
  <2>2. Len(que') + Len(filius') = child_num'
    <3>1. Len(que') = n - 1 /\ Len(filius') = child_num + 1 /\ child_num' = child_num + n
      BY <1>4, <1>6, <1>7
    <3>2. n \in Int /\ child_num \in Int
      BY <1>1
    <3> QED
      BY <3>1, <3>2
  <2>3. /\ \A k \in 1 .. Len(que') : que'[k] < child_num'
        /\ \A k \in 1 .. Len(filius') : filius'[k] < child_num'
    BY <1>10 DEF NodesOnce
  <2>4. ASSUME NEW e \in Nodes
        PROVE  e < child_num' <=>
               (\E k \in 1 .. Len(que') : que'[k] = e) \/ (\E k \in 1 .. Len(filius') : filius'[k] = e)
    BY <2>1, <2>3
  <2> QED
    BY <2>2, <2>4 DEF NodesAccounted
<1>12. RingIdle'
  <2>1. ASSUME NEW a \in 1 .. Len(que')
        PROVE  /\ me'[que'[a]] = child_num + a + 1
               /\ child_num + a + 1 \in Objs
               /\ child_num + a + 1 <= child_num'
               /\ status'[child_num + a + 1] = "IDLE"
    <3>1. child_num + a + 1 \in Objs /\ child_num + a + 1 > child_num /\ child_num + a + 1 # o
      BY <1>1, <1>6 DEF Objs
    <3>2. status[child_num + a + 1] = "IDLE"
      BY <3>1 DEF IInv, References
    <3> QED
      BY <3>1, <3>2, <1>1, <1>4, <1>5, <1>6 DEF IInv, TypeOK
  <2> QED
    BY <2>1, <1>1 DEF RingIdle
<1>13. References'
  BY <1>1, <1>3, <1>4, <1>5, <1>8 DEF IInv, TypeOK, References, Objs
<1>14. RoomForEachLoan'
  BY <1>1, <1>3, <1>5, <1>7, <1>8, OneMoreOut, OutFinite DEF IInv, RoomForEachLoan
<1> QED
  BY <1>9, <1>10, <1>11, <1>12, <1>13, <1>14 DEF IInv

(***************************************************************************)
(* Giving back.  The object takes the node on top of the stack, whosever   *)
(* it was.                                                                 *)
(***************************************************************************)
LEMMA PutBackEffect ==
    ASSUME IInv, NEW o \in Objs, status[o] # "IDLE", PutBack(o)
    PROVE  /\ filius \in Seq(Nodes) /\ Len(filius) >= 1
           /\ filius' \in Seq(Nodes) /\ Len(filius') = Len(filius) - 1
           /\ \A k \in 1 .. Len(filius') : filius'[k] = filius[k] /\ k \in 1 .. Len(filius)
           /\ que \in Seq(Nodes)
           /\ que' \in Seq(Nodes) /\ Len(que') = Len(que) + 1
           /\ \A k \in 1 .. Len(que) : que'[k] = que[k] /\ me'[que'[k]] = me[que[k]]
           /\ que'[Len(que) + 1] = filius[Len(filius)]
           /\ me'[que'[Len(que) + 1]] = o
           /\ me' \in [Nodes -> Objs \cup {NoObj}]
<1> DEFINE top == Len(filius)
<1>1. /\ filius \in Seq(Nodes) /\ top >= 1 /\ filius[top] \in Nodes
      /\ filius' = SubSeq(filius, 1, top - 1)
  BY DEF PutBack, IInv, TypeOK
<1>2. /\ filius' \in Seq(Nodes) /\ Len(filius') = top - 1
      /\ \A k \in 1 .. Len(filius') : filius'[k] = filius[k] /\ k \in 1 .. top
  BY <1>1, PopSeq, EmptySeq
<1>3. que \in Seq(Nodes) /\ que' = Append(que, filius[top])
  BY DEF PutBack, IInv, TypeOK
<1>4. /\ que' \in Seq(Nodes) /\ Len(que') = Len(que) + 1
      /\ \A k \in 1 .. Len(que) : que'[k] = que[k]
      /\ que'[Len(que) + 1] = filius[top]
  BY <1>1, <1>3
<1>5. me' = [me EXCEPT ![filius[top]] = o] /\ me \in [Nodes -> Objs \cup {NoObj}]
  BY DEF PutBack, IInv, TypeOK
<1>6. ASSUME NEW k \in 1 .. Len(que) PROVE me'[que'[k]] = me[que[k]]
  <2>1. que[k] # filius[top] /\ que[k] \in Nodes
    BY <1>1, <1>3 DEF IInv, NodesOnce
  <2> QED
    BY <2>1, <1>4, <1>5
<1> QED
  BY <1>1, <1>2, <1>3, <1>4, <1>5, <1>6

LEMMA PutBackKeeps ==
    ASSUME IInv, NEW o \in Objs, status[o] # "IDLE", PutBack(o),
           UNCHANGED <<child_num, indic>>,
           refs' \in [Objs -> 0 .. RefBound],
           refs'[o] = 0, \A x \in Objs \ {o} : refs'[x] = refs[x]
    PROVE  IInv'
<1> DEFINE top == Len(filius)
<1>1. /\ filius \in Seq(Nodes) /\ top >= 1
      /\ filius' \in Seq(Nodes) /\ Len(filius') = top - 1
      /\ \A k \in 1 .. Len(filius') : filius'[k] = filius[k] /\ k \in 1 .. top
      /\ que \in Seq(Nodes)
      /\ que' \in Seq(Nodes) /\ Len(que') = Len(que) + 1
      /\ \A k \in 1 .. Len(que) : que'[k] = que[k] /\ me'[que'[k]] = me[que[k]]
      /\ que'[Len(que) + 1] = filius[top]
      /\ me'[que'[Len(que) + 1]] = o
      /\ me' \in [Nodes -> Objs \cup {NoObj}]
  BY PutBackEffect
<1>2. status' = [status EXCEPT ![o] = "IDLE"]
  BY DEF PutBack
<1>3. child_num' = child_num /\ child_num \in 0 .. maxium /\ indic' = indic
  BY DEF IInv, TypeOK
<1>4. \A k \in 1 .. Len(que') : k \in 1 .. Len(que) \/ k = Len(que) + 1
  BY <1>1
<1>5. TypeOK'
  <2>1. status' \in [Objs -> {"IDLE", "BUSY", "RECLAIM"}]
    BY <1>2 DEF IInv, TypeOK
  <2> QED
    BY <2>1, <1>1, <1>3 DEF IInv, TypeOK
<1>6. NodesOnce'
  <2>1. \A k \in 1 .. top - 1 : filius[k] # filius[top]
    BY <1>1 DEF IInv, NodesOnce, Injective
  <2>6. \A a \in 1 .. Len(que) : que[a] # filius[top]
    BY <1>1 DEF IInv, NodesOnce
  <2>2. ASSUME NEW a \in 1 .. Len(que'), NEW b \in 1 .. Len(que'), que'[a] = que'[b]
        PROVE  a = b
    <3>1. CASE a \in 1 .. Len(que) /\ b \in 1 .. Len(que)
      BY <3>1, <2>2, <1>1 DEF IInv, NodesOnce, Injective
    <3>2. CASE a = Len(que) + 1 /\ b \in 1 .. Len(que)
      BY <3>2, <2>2, <2>6, <1>1
    <3>3. CASE b = Len(que) + 1 /\ a \in 1 .. Len(que)
      BY <3>3, <2>2, <2>6, <1>1
    <3> QED
      BY <3>1, <3>2, <3>3, <1>4
  <2>3. ASSUME NEW a \in 1 .. Len(filius'), NEW b \in 1 .. Len(filius'), filius'[a] = filius'[b]
        PROVE  a = b
    <3>1. filius[a] = filius[b] /\ a \in 1 .. top /\ b \in 1 .. top
      BY <2>3, <1>1
    <3> QED
      BY <3>1 DEF IInv, NodesOnce, Injective
  <2>4. ASSUME NEW a \in 1 .. Len(que'), NEW b \in 1 .. Len(filius')
        PROVE  que'[a] # filius'[b]
    <3>1. CASE a \in 1 .. Len(que)
      BY <3>1, <1>1 DEF IInv, NodesOnce
    <3>2. CASE a = Len(que) + 1
      BY <3>2, <2>1, <1>1
    <3> QED
      BY <3>1, <3>2, <1>4
  <2>5. /\ \A a \in 1 .. Len(que') : que'[a] < child_num'
        /\ \A b \in 1 .. Len(filius') : filius'[b] < child_num'
    <3>1. \A b \in 1 .. Len(filius') : filius'[b] < child_num'
      BY <1>1, <1>3 DEF IInv, NodesOnce
    <3>2. ASSUME NEW a \in 1 .. Len(que') PROVE que'[a] < child_num'
      <4>1. CASE a \in 1 .. Len(que)
        BY <4>1, <1>1, <1>3 DEF IInv, NodesOnce
      <4>2. CASE a = Len(que) + 1
        <5>1. filius[top] < child_num
          BY <1>1 DEF IInv, NodesOnce
        <5> QED
          BY <4>2, <5>1, <1>1, <1>3
      <4> QED
        BY <4>1, <4>2, <1>4
    <3> QED
      BY <3>1, <3>2
  <2> QED
    BY <2>2, <2>3, <2>4, <2>5 DEF NodesOnce, Injective
<1>7. NodesAccounted'
  <2>1. Len(que') + Len(filius') = child_num'
    <3>1. Len(que) + top = child_num
      BY DEF IInv, NodesAccounted
    <3>2. Len(que') = Len(que) + 1 /\ Len(filius') = top - 1
      BY <1>1
    <3>3. Len(que) \in Nat /\ top \in Nat
      BY <1>1
    <3> HIDE DEF top
    <3> QED
      BY <3>1, <3>2, <3>3, <1>3
  <2>2. ASSUME NEW e \in Nodes, e < child_num'
        PROVE  (\E k \in 1 .. Len(que') : que'[k] = e) \/ (\E k \in 1 .. Len(filius') : filius'[k] = e)
    <3>1. CASE \E k \in 1 .. Len(que) : que[k] = e
      BY <3>1, <1>1
    <3>2. ASSUME NEW k \in 1 .. top, filius[k] = e
          PROVE  (\E l \in 1 .. Len(que') : que'[l] = e) \/ (\E l \in 1 .. Len(filius') : filius'[l] = e)
      <4>1. CASE k = top
        <5>1. Len(que) + 1 \in 1 .. Len(que') /\ que'[Len(que) + 1] = e
          BY <4>1, <3>2, <1>1
        <5> QED
          BY <5>1
      <4>2. CASE k # top
        <5>1. k \in 1 .. Len(filius')
          BY <4>2, <1>1
        <5> QED
          BY <5>1, <3>2, <1>1
      <4> QED
        BY <4>1, <4>2
    <3>3. (\E k \in 1 .. Len(que) : que[k] = e) \/ (\E k \in 1 .. top : filius[k] = e)
      BY <2>2, <1>3 DEF IInv, NodesAccounted
    <3> QED
      BY <3>1, <3>2, <3>3
  <2>3. /\ \A k \in 1 .. Len(que') : que'[k] < child_num'
        /\ \A k \in 1 .. Len(filius') : filius'[k] < child_num'
    BY <1>6 DEF NodesOnce
  <2>4. ASSUME NEW e \in Nodes
        PROVE  e < child_num' <=>
               (\E k \in 1 .. Len(que') : que'[k] = e) \/ (\E k \in 1 .. Len(filius') : filius'[k] = e)
    BY <2>2, <2>3
  <2> QED
    BY <2>1, <2>4 DEF NodesAccounted
<1>8. RingIdle'
  <2>1. ASSUME NEW k \in 1 .. Len(que)
        PROVE  /\ me'[que'[k]] = me[que[k]] /\ me[que[k]] \in Objs \ {o}
               /\ me[que[k]] <= child_num /\ status'[me[que[k]]] = "IDLE"
    BY <1>1, <1>2 DEF IInv, TypeOK, RingIdle
  <2>2. o <= child_num /\ status'[o] = "IDLE"
    BY <1>2, <1>3 DEF IInv, TypeOK, References, Objs
  <2>3. ASSUME NEW a \in 1 .. Len(que')
        PROVE  /\ me'[que'[a]] \in Objs
               /\ me'[que'[a]] <= child_num'
               /\ status'[me'[que'[a]]] = "IDLE"
    <3>1. CASE a \in 1 .. Len(que)
      BY <3>1, <2>1, <1>3
    <3>2. CASE a = Len(que) + 1
      BY <3>2, <2>2, <1>1, <1>3
    <3> QED
      BY <3>1, <3>2, <1>4
  <2>4. ASSUME NEW a \in 1 .. Len(que'), NEW b \in 1 .. Len(que'), me'[que'[a]] = me'[que'[b]]
        PROVE  a = b
    <3>1. CASE a \in 1 .. Len(que) /\ b \in 1 .. Len(que)
      BY <3>1, <2>1, <2>4 DEF IInv, RingIdle
    <3>2. CASE a = Len(que) + 1 /\ b \in 1 .. Len(que)
      BY <3>2, <2>1, <2>4, <1>1
    <3>3. CASE b = Len(que) + 1 /\ a \in 1 .. Len(que)
      BY <3>3, <2>1, <2>4, <1>1
    <3> QED
      BY <3>1, <3>2, <3>3, <1>4
  <2> QED
    BY <2>3, <2>4 DEF RingIdle
<1>9. References'
  BY <1>2, <1>3 DEF IInv, TypeOK, References, Objs
<1>10. RoomForEachLoan'
  BY <1>1, <1>2, OneLessOut, OutFinite DEF IInv, RoomForEachLoan
<1> QED
  BY <1>5, <1>6, <1>7, <1>8, <1>9, <1>10 DEF IInv

\* The invariant is about everything but the answer.
LEMMA SameKeeps ==
    ASSUME IInv, UNCHANGED <<pool, status, refs>>, indic' \in Objs \cup {NoObj}
    PROVE  IInv'
<1>1. UNCHANGED <<que, me, filius, child_num, status, refs>>
  BY DEF pool
<1>2. TypeOK'
  BY <1>1 DEF IInv, TypeOK
<1>3. NodesOnce' /\ NodesAccounted'
  BY <1>1 DEF IInv, NodesOnce, Injective, NodesAccounted
<1>4. RingIdle' /\ References'
  BY <1>1 DEF IInv, RingIdle, References
<1>5. RoomForEachLoan'
  BY <1>1 DEF IInv, RoomForEachLoan, Out
<1> QED
  BY <1>2, <1>3, <1>4, <1>5 DEF IInv

LEMMA StepIInv == IInv /\ [Next]_vars => IInv'
<1> SUFFICES ASSUME IInv, [Next]_vars PROVE IInv'
  OBVIOUS
<1>1. CASE AllocIdle
  BY <1>1, AllocIdleKeeps
<1>2. CASE AllocGrown
  BY <1>2, AllocGrownKeeps
<1>3. CASE AllocRefused
  BY <1>3, SameKeeps DEF AllocRefused
<1>4. ASSUME NEW o \in Objs, CMD_FREE_IDLE(o) PROVE IInv'
  <2>1. CASE refs[o] > 0
    <3>1. status' = [status EXCEPT ![o] = "RECLAIM"] /\ status[o] = "BUSY"
          /\ UNCHANGED <<que, me, filius, child_num, refs, indic>>
      BY <1>4, <2>1 DEF CMD_FREE_IDLE
    <3>2. Out' = Out
      BY <3>1, SameOut DEF IInv
    <3>3. TypeOK' /\ References'
      BY <2>1, <3>1 DEF IInv, TypeOK, References
    <3>4. RingIdle'
      BY <3>1 DEF IInv, TypeOK, RingIdle
    <3>5. NodesOnce' /\ NodesAccounted' /\ RoomForEachLoan'
      BY <3>1, <3>2 DEF IInv, NodesOnce, Injective, NodesAccounted, RoomForEachLoan
    <3> QED
      BY <3>3, <3>4, <3>5 DEF IInv
  <2>2. CASE ~(refs[o] > 0)
    <3>1. PutBack(o) /\ status[o] = "BUSY" /\ UNCHANGED <<child_num, refs, indic>>
      BY <1>4, <2>2 DEF CMD_FREE_IDLE
    <3>2. refs[o] = 0 /\ refs \in [Objs -> 0 .. RefBound]
      BY <2>2 DEF IInv, TypeOK
    <3> QED
      BY <3>1, <3>2, PutBackKeeps
  <2> QED
    BY <2>1, <2>2
<1>5. ASSUME NEW o \in Objs, CMD_INCR_REFS(o) PROVE IInv'
  <2>1. status[o] = "BUSY" /\ refs[o] < RefBound /\ refs' = [refs EXCEPT ![o] = @ + 1]
        /\ UNCHANGED <<que, me, filius, child_num, status, indic>>
    BY <1>5 DEF CMD_INCR_REFS, pool
  <2>2. TypeOK' /\ References'
    BY <2>1 DEF IInv, TypeOK, References
  <2>3. NodesOnce' /\ NodesAccounted' /\ RingIdle' /\ RoomForEachLoan'
    BY <2>1 DEF IInv, NodesOnce, Injective, NodesAccounted, RingIdle, RoomForEachLoan, Out
  <2> QED
    BY <2>2, <2>3 DEF IInv
<1>6. ASSUME NEW o \in Objs, CMD_DECR_REFS(o) PROVE IInv'
  <2>1. /\ refs[o] > 0 /\ refs' = [refs EXCEPT ![o] = @ - 1]
        /\ UNCHANGED <<child_num, indic>>
    BY <1>6 DEF CMD_DECR_REFS
  <2>2. refs' \in [Objs -> 0 .. RefBound] /\ \A x \in Objs \ {o} : refs'[x] = refs[x]
    BY <2>1 DEF IInv, TypeOK
  <2>3. CASE refs'[o] = 0 /\ status[o] = "RECLAIM"
    <3>1. PutBack(o)
      BY <1>6, <2>3 DEF CMD_DECR_REFS
    <3> QED
      BY <2>1, <2>2, <2>3, <3>1, PutBackKeeps
  <2>4. CASE ~(refs'[o] = 0 /\ status[o] = "RECLAIM")
    <3>1. UNCHANGED <<que, me, filius, status>>
      BY <1>6, <2>4 DEF CMD_DECR_REFS
    <3>2. TypeOK' /\ References'
      BY <2>1, <2>2, <2>4, <3>1 DEF IInv, TypeOK, References
    <3>3. NodesOnce' /\ NodesAccounted' /\ RingIdle' /\ RoomForEachLoan'
      BY <2>1, <3>1 DEF IInv, NodesOnce, Injective, NodesAccounted, RingIdle, RoomForEachLoan, Out
    <3> QED
      BY <3>2, <3>3 DEF IInv
  <2> QED
    BY <2>3, <2>4
<1>7. CASE UNCHANGED vars
  BY <1>7, SameKeeps DEF vars, IInv, TypeOK
<1> QED
  BY <1>1, <1>2, <1>3, <1>4, <1>5, <1>6, <1>7 DEF Next

LEMMA SpecIInv == Spec => []IInv
BY InitIInv, StepIInv, PTL DEF Spec

\* The variables keep their types: neither we nor filius is overrun, whatever
\* the growth rate.
THEOREM TypeCorrect == Spec => []TypeOK
BY SpecIInv, PTL DEF IInv

\* No node is lost or linked twice, in whatever order objects come back.
THEOREM NodesStayAccounted == Spec => []NodesAccounted
BY SpecIInv, PTL DEF IInv

\* put always finds a node: its early return for an empty stack is never taken.
THEOREM PutFindsANode == Spec => []RoomForEachLoan
BY SpecIInv, PTL DEF IInv

\* A refusal means that all maxium objects are out.
THEOREM NoneForgotten == Spec => []RefusedOnlyWhenOut
<1>1. IInv => RefusedOnlyWhenOut
  <2> SUFFICES ASSUME IInv, NoneToGive, growth_rate > 0 PROVE Out = Objs
    BY DEF RefusedOnlyWhenOut
  <2>1. child_num = maxium /\ Len(que) = 0
    BY DEF NoneToGive, HereNum, AtMost, IInv, TypeOK
  <2>2. Cardinality(Out) = maxium
    BY <2>1 DEF IInv, TypeOK, NodesAccounted, RoomForEachLoan
  <2>3. Out \in SUBSET Objs /\ IsFiniteSet(Objs) /\ Cardinality(Objs) = maxium
    BY FS_Interval DEF Out, Objs
  <2> QED
    BY <2>2, <2>3, FS_Subset
<1> QED
  BY <1>1, SpecIInv, PTL

\* An object is lent only when no thread refers to it.
THEOREM LentAreUnreferenced == Spec => LentUnreferenced
<1> DEFINE A == \A o \in Objs : status[o] # "BUSY" /\ status'[o] = "BUSY" => refs[o] = 0
<1>1. IInv /\ [Next]_vars => [A]_vars
  <2> SUFFICES ASSUME IInv, [Next]_vars, NEW o \in Objs, status[o] # "BUSY", status'[o] = "BUSY"
               PROVE  refs[o] = 0
    OBVIOUS
  <2>1. status[o] = "IDLE"
    <3>1. CASE AllocIdle
      BY <3>1 DEF AllocIdle, Get, IInv, TypeOK, RingIdle
    <3>2. CASE AllocGrown
      <4> DEFINE n == HereNum
      <4>1. n \in 1 .. maxium /\ child_num + n <= maxium /\ child_num \in Nodes
        BY <3>2 DEF AllocGrown, HereNum, AtMost, IInv, TypeOK, Nodes
      <4>2. Head(Queued(n)) = child_num
        <5>1. Queued(n) \in Seq(Nodes) /\ Len(Queued(n)) = n /\ Queued(n)[1] = child_num
          BY <4>1 DEF Queued, Nodes
        <5> QED
          BY <5>1, <4>1
      <4>3. Stored(n)[child_num] = child_num + 1 /\ child_num + 1 \in Objs
        BY <4>1 DEF Stored, Nodes, Objs
      <4>4. status' = [status EXCEPT ![child_num + 1] = "BUSY"]
        BY <3>2, <4>2, <4>3 DEF AllocGrown, Get
      <4>5. status[child_num + 1] = "IDLE"
        BY <4>1, <4>3 DEF IInv, References, Nodes
      <4> QED
        BY <4>3, <4>4, <4>5 DEF IInv, TypeOK
    <3> QED
      BY <3>1, <3>2 DEF Next, vars, AllocRefused, CMD_FREE_IDLE, CMD_INCR_REFS, CMD_DECR_REFS,
                        PutBack, IInv, TypeOK
  <2> QED
    BY <2>1 DEF IInv, References
<1> QED
  BY <1>1, SpecIInv, PTL DEF Spec, LentUnreferenced

\* The safety half of Reclaimed: while an object is set aside its references only
\* become fewer, at least one is left, and who gives up the last one puts the
\* object back (Nostra.cpp:103-107,226-237).
ReclaimNears ==
    [][\A o \in Objs : status[o] = "RECLAIM" =>
          \/ status'[o] = "RECLAIM" /\ refs'[o] \in 1 .. refs[o]
          \/ status'[o] = "IDLE" /\ refs'[o] = 0]_vars

THEOREM AsideComesNearer == Spec => ReclaimNears
<1> DEFINE A == \A o \in Objs : status[o] = "RECLAIM" =>
                   \/ status'[o] = "RECLAIM" /\ refs'[o] \in 1 .. refs[o]
                   \/ status'[o] = "IDLE" /\ refs'[o] = 0
<1>1. IInv /\ [Next]_vars => [A]_vars
  <2> SUFFICES ASSUME IInv, Next, NEW o \in Objs, status[o] = "RECLAIM"
               PROVE  \/ status'[o] = "RECLAIM" /\ refs'[o] \in 1 .. refs[o]
                      \/ status'[o] = "IDLE" /\ refs'[o] = 0
    OBVIOUS
  <2>1. /\ refs[o] \in Nat /\ refs[o] > 0
        /\ refs \in [Objs -> Nat] /\ DOMAIN status = Objs
        /\ o <= child_num
    BY DEF IInv, TypeOK, References, Objs
  <2>2. CASE UNCHANGED <<status, refs>>
    BY <2>1, <2>2
  <2>3. CASE AllocIdle
    <3>1. status[me[Head(que)]] = "IDLE"
      BY <2>3 DEF AllocIdle, IInv, TypeOK, RingIdle
    <3>2. status' = [status EXCEPT ![me[Head(que)]] = "BUSY"] /\ refs' = refs
      BY <2>3 DEF AllocIdle, Get
    <3> QED
      BY <2>1, <3>1, <3>2
  <2>4. CASE AllocGrown
    <3> DEFINE n == HereNum
    <3>1. n \in 1 .. maxium /\ child_num + n <= maxium /\ child_num \in Nat
      BY <2>4 DEF AllocGrown, HereNum, AtMost, IInv, TypeOK, Nodes
    <3>2. Head(Queued(n)) = child_num
      <4>1. Queued(n) \in Seq(Nodes) /\ Len(Queued(n)) = n /\ Queued(n)[1] = child_num
        BY <3>1 DEF Queued, Nodes
      <4> QED
        BY <3>1, <4>1
    <3>3. Stored(n)[child_num] = child_num + 1
      BY <3>1 DEF Stored, Nodes
    <3>4. status' = [status EXCEPT ![child_num + 1] = "BUSY"] /\ refs' = refs
      BY <2>4, <3>2, <3>3 DEF AllocGrown, Get
    <3>5. o # child_num + 1
      BY <2>1, <3>1 DEF Objs
    <3> QED
      BY <2>1, <3>4, <3>5
  <2>5. CASE AllocRefused
    BY <2>2, <2>5 DEF AllocRefused
  <2>6. ASSUME NEW u \in Objs, CMD_FREE_IDLE(u) \/ CMD_INCR_REFS(u)
        PROVE  status'[o] = "RECLAIM" /\ refs'[o] = refs[o]
    BY <2>1, <2>6 DEF CMD_FREE_IDLE, CMD_INCR_REFS, PutBack
  <2>7. ASSUME NEW u \in Objs, CMD_DECR_REFS(u)
        PROVE  \/ status'[o] = "RECLAIM" /\ refs'[o] \in 1 .. refs[o]
               \/ status'[o] = "IDLE" /\ refs'[o] = 0
    <3>1. refs' = [refs EXCEPT ![u] = @ - 1]
      BY <2>7 DEF CMD_DECR_REFS
    <3>2. CASE u # o
      BY <2>1, <2>7, <3>1, <3>2 DEF CMD_DECR_REFS, PutBack
    <3>3. CASE u = o /\ refs[o] = 1
      BY <2>1, <2>7, <3>1, <3>3 DEF CMD_DECR_REFS, PutBack
    <3>4. CASE u = o /\ refs[o] # 1
      <4>1. refs'[o] = refs[o] - 1 /\ refs[o] - 1 \in 1 .. refs[o]
        BY <2>1, <3>1, <3>4
      <4>2. status' = status
        BY <2>7, <3>4, <4>1 DEF CMD_DECR_REFS
      <4> QED
        BY <4>1, <4>2
    <3> QED
      BY <3>2, <3>3, <3>4
  <2> QED
    BY <2>1, <2>3, <2>4, <2>5, <2>6, <2>7 DEF Next
<1> QED
  BY <1>1, SpecIInv, PTL DEF Spec, ReclaimNears

(***************************************************************************)
(* The pool implements ObjectPool.                                         *)
(***************************************************************************)
idleBar == [k \in 1 .. Len(que) |-> me[que[k]]]
lentBar == {o \in Objs : status[o] = "BUSY"}
awaitedBar == {o \in Objs : status[o] = "RECLAIM"}

LEMMA IdleBarType ==
    ASSUME IInv
    PROVE  /\ idleBar \in Seq(Objs) /\ Len(idleBar) = Len(que)
           /\ \A k \in 1 .. Len(que) : idleBar[k] = me[que[k]]
           /\ \A a, b \in 1 .. Len(que) : idleBar[a] = idleBar[b] => a = b
BY DEF idleBar, IInv, TypeOK, RingIdle

LEMMA AllocIdleLends ==
    ASSUME IInv, IInv', AllocIdle
    PROVE  /\ idleBar # << >>
           /\ indic' = Head(idleBar)
           /\ idleBar' = Tail(idleBar)
           /\ lentBar' = lentBar \cup {indic'}
           /\ UNCHANGED awaitedBar
<1> DEFINE o == me[Head(que)]
<1>1. /\ que # << >> /\ que' = Tail(que) /\ que \in Seq(Nodes)
      /\ status' = [status EXCEPT ![o] = "BUSY"] /\ indic' = o /\ me' = me
  BY DEF AllocIdle, Get, IInv, TypeOK
<1>2. Len(que) \in Nat /\ Len(que) >= 1 /\ Head(que) = que[1]
  BY <1>1
<1>3. o \in Objs /\ status[o] = "IDLE"
  BY <1>2 DEF IInv, RingIdle
<1>4. idleBar # << >> /\ Head(idleBar) = o
  BY <1>2, IdleBarType
<1>5. idleBar' = Tail(idleBar)
  <2>1. Tail(idleBar) \in Seq(Objs) /\ Len(Tail(idleBar)) = Len(que) - 1
        /\ \A k \in 1 .. Len(que) - 1 : Tail(idleBar)[k] = me[que[k + 1]]
    BY <1>2, <1>4, IdleBarType
  <2>2. Len(que') = Len(que) - 1 /\ \A k \in 1 .. Len(que) - 1 : que'[k] = que[k + 1]
    BY <1>1, <1>2
  <2>3. idleBar' \in Seq(Objs) /\ Len(idleBar') = Len(que')
        /\ \A k \in 1 .. Len(que') : idleBar'[k] = me[que'[k]]
    BY <1>1 DEF idleBar, IInv, TypeOK, RingIdle
  <2> HIDE DEF o
  <2> QED
    BY <2>1, <2>2, <2>3, SeqEqual
<1>6. lentBar' = lentBar \cup {o} /\ awaitedBar' = awaitedBar
  <2> HIDE DEF o
  <2> QED
    BY <1>1, <1>3 DEF lentBar, awaitedBar, IInv, TypeOK
<1> QED
  BY <1>1, <1>4, <1>5, <1>6

LEMMA AllocGrownLends ==
    ASSUME IInv, IInv', AllocGrown
    PROVE  /\ idleBar = << >>
           /\ indic' \in Objs \ (lentBar \cup awaitedBar)
           /\ idleBar' \in Seq(Objs \ (lentBar \cup awaitedBar \cup {indic'}))
           /\ Pool!Distinct(idleBar)'
           /\ lentBar' = lentBar \cup {indic'}
           /\ UNCHANGED awaitedBar
<1> DEFINE n == HereNum
<1>1. n \in 1 .. maxium /\ child_num + n <= maxium /\ child_num \in Nodes
  BY DEF AllocGrown, HereNum, AtMost, IInv, TypeOK, Nodes
<1>2. Queued(n) \in Seq(Nodes) /\ Len(Queued(n)) = n /\ Queued(n)[1] = child_num
  BY <1>1 DEF Queued, Nodes
<1>3. Head(Queued(n)) = child_num
  BY <1>1, <1>2
<1>4. Stored(n)[child_num] = child_num + 1 /\ child_num + 1 \in Objs
  BY <1>1 DEF Stored, Nodes, Objs
<1>5. /\ que = << >>
      /\ indic' = child_num + 1
      /\ status' = [status EXCEPT ![child_num + 1] = "BUSY"]
  BY <1>3, <1>4 DEF AllocGrown, Get
<1>6. status[child_num + 1] = "IDLE"
  BY <1>1, <1>4 DEF IInv, References, Nodes
<1>7. idleBar = << >>
  <2>1. idleBar \in Seq(Objs) /\ Len(idleBar) = 0
    BY <1>5, IdleBarType
  <2> QED
    BY <2>1, EmptySeq
<1>8. lentBar' = lentBar \cup {indic'} /\ awaitedBar' = awaitedBar
  BY <1>4, <1>5, <1>6 DEF lentBar, awaitedBar, IInv, TypeOK
<1>9. \A k \in 1 .. Len(que') : me'[que'[k]] \in Objs /\ status'[me'[que'[k]]] = "IDLE"
  BY DEF IInv, RingIdle
<1>10. \A x \in Objs : status'[x] = "IDLE" => x \notin lentBar \cup awaitedBar \cup {indic'}
  BY <1>8 DEF lentBar, awaitedBar
<1>11. idleBar' \in Seq(Objs \ (lentBar \cup awaitedBar \cup {indic'}))
  <2> DEFINE T == Objs \ (lentBar \cup awaitedBar \cup {indic'})
  <2>1. \A k \in 1 .. Len(que') : me'[que'[k]] \in T
    BY <1>9, <1>10
  <2>2. Len(que') \in Nat
    BY DEF IInv, TypeOK
  <2> HIDE DEF T
  <2>3. [k \in 1 .. Len(que') |-> me'[que'[k]]] \in Seq(T)
    BY <2>1, <2>2
  <2> QED
    BY <2>3 DEF idleBar, T
<1>12. Pool!Distinct(idleBar)'
  <2>1. Len(que') \in Nat /\ \A a, b \in 1 .. Len(que') : me'[que'[a]] = me'[que'[b]] => a = b
    BY DEF IInv, TypeOK, RingIdle
  <2>2. Len(idleBar') = Len(que') /\ \A k \in 1 .. Len(que') : idleBar'[k] = me'[que'[k]]
    BY <2>1 DEF idleBar
  <2> QED
    BY <2>1, <2>2 DEF Pool!Distinct
<1>13. indic' \in Objs \ (lentBar \cup awaitedBar)
  BY <1>4, <1>5, <1>6 DEF lentBar, awaitedBar
<1> QED
  BY <1>7, <1>8, <1>11, <1>12, <1>13

LEMMA PutBackReturns ==
    ASSUME IInv, IInv', NEW o \in Objs, status[o] # "IDLE", PutBack(o)
    PROVE  /\ idleBar' = Append(idleBar, o)
           /\ lentBar' = lentBar \ {o}
           /\ awaitedBar' = awaitedBar \ {o}
<1>1. /\ que \in Seq(Nodes) /\ Len(que') = Len(que) + 1
      /\ \A k \in 1 .. Len(que) : me'[que'[k]] = me[que[k]]
      /\ me'[que'[Len(que) + 1]] = o
  BY PutBackEffect
<1>2. /\ Append(idleBar, o) \in Seq(Objs) /\ Len(Append(idleBar, o)) = Len(que) + 1
      /\ \A k \in 1 .. Len(que) : Append(idleBar, o)[k] = me[que[k]]
      /\ Append(idleBar, o)[Len(que) + 1] = o
  BY IdleBarType, <1>1
<1>3. /\ idleBar' \in Seq(Objs) /\ Len(idleBar') = Len(que')
      /\ \A k \in 1 .. Len(que') : idleBar'[k] = me'[que'[k]]
  BY DEF idleBar, IInv, TypeOK, RingIdle
<1>4. ASSUME NEW k \in 1 .. Len(que) + 1 PROVE idleBar'[k] = Append(idleBar, o)[k]
  <2>1. CASE k \in 1 .. Len(que)
    BY <2>1, <1>1, <1>2, <1>3
  <2>2. CASE k = Len(que) + 1
    BY <2>2, <1>1, <1>2, <1>3
  <2>3. Len(que) \in Nat
    BY <1>1
  <2>4. k \in 1 .. Len(que) \/ k = Len(que) + 1
    BY <2>3
  <2> QED
    BY <2>1, <2>2, <2>4
<1>5. idleBar' = Append(idleBar, o)
  BY <1>1, <1>2, <1>3, <1>4, SeqEqual
<1>6. status' = [status EXCEPT ![o] = "IDLE"]
  BY DEF PutBack
<1> QED
  BY <1>5, <1>6 DEF lentBar, awaitedBar, IInv, TypeOK

\* Every step of Nostra is a step of ObjectPool, or none: an object has one
\* borrower at a time, the longest idle goes first, and an object that threads
\* refer to waits for them.
THEOREM ImplementsObjectPool == Spec => KeepsItsPromise
<1>1. Init => Pool!Init
  <2> SUFFICES ASSUME Init PROVE Pool!Init
    OBVIOUS
  <2>1. IInv
    BY InitIInv
  <2>2. idleBar \in Seq(Objs) /\ Pool!Distinct(idleBar)
    BY <2>1, IdleBarType DEF Pool!Distinct
  <2>3. lentBar = {} /\ awaitedBar = {} /\ indic = NoObj
    BY DEF Init, lentBar, awaitedBar
  <2> QED
    BY <2>2, <2>3 DEF Pool!Init, idleBar, lentBar, awaitedBar
<1>2. IInv /\ IInv' /\ [Next]_vars => [Pool!Next]_(Pool!vars)
  <2> SUFFICES ASSUME IInv, IInv', [Next]_vars PROVE [Pool!Next]_(Pool!vars)
    OBVIOUS
  <2>1. CASE AllocIdle
    BY <2>1, AllocIdleLends DEF Pool!Next, Pool!LendIdle, idleBar, lentBar, awaitedBar
  <2>2. CASE AllocGrown
    BY <2>2, AllocGrownLends DEF Pool!Next, Pool!LendNew, idleBar, lentBar, awaitedBar
  <2>3. CASE AllocRefused
    <3>1. que = << >> /\ indic' = NoObj /\ UNCHANGED <<que, me, status>>
      BY <2>3 DEF AllocRefused, NoneToGive, pool
    <3>2. idleBar = << >>
      <4>1. idleBar \in Seq(Objs) /\ Len(idleBar) = 0
        BY <3>1, IdleBarType
      <4> QED
        BY <4>1, EmptySeq
    <3> QED
      BY <3>1, <3>2 DEF Pool!Next, Pool!Refuse, idleBar
  <2>4. ASSUME NEW o \in Objs, CMD_FREE_IDLE(o) PROVE Pool!GiveBack(o)
    <3>1. status[o] = "BUSY" /\ o \in lentBar /\ o \notin awaitedBar /\ indic' = indic
      BY <2>4 DEF CMD_FREE_IDLE, lentBar, awaitedBar
    <3>2. CASE refs[o] > 0
      <4>1. status' = [status EXCEPT ![o] = "RECLAIM"] /\ UNCHANGED <<que, me>>
        BY <2>4, <3>2 DEF CMD_FREE_IDLE
      <4>2. /\ idleBar' = idleBar /\ lentBar' = lentBar \ {o}
            /\ awaitedBar' = awaitedBar \cup {o}
        BY <4>1 DEF idleBar, lentBar, awaitedBar, IInv, TypeOK
      <4> QED
        BY <3>1, <4>2 DEF Pool!GiveBack, idleBar, lentBar, awaitedBar
    <3>3. CASE ~(refs[o] > 0)
      <4>1. PutBack(o)
        BY <2>4, <3>3 DEF CMD_FREE_IDLE
      <4>3. /\ idleBar' = Append(idleBar, o) /\ lentBar' = lentBar \ {o}
            /\ awaitedBar' = awaitedBar \ {o}
        BY <3>1, <4>1, PutBackReturns
      <4>2. idleBar' = Append(idleBar, o) /\ lentBar' = lentBar \ {o} /\ awaitedBar' = awaitedBar
        BY <3>1, <4>3
      <4> QED
        BY <3>1, <4>2 DEF Pool!GiveBack, idleBar, lentBar, awaitedBar
    <3> QED
      BY <3>2, <3>3
  <2>5. ASSUME NEW o \in Objs, CMD_INCR_REFS(o) PROVE UNCHANGED Pool!vars
    BY <2>5 DEF CMD_INCR_REFS, pool, Pool!vars
  <2>6. ASSUME NEW o \in Objs, CMD_DECR_REFS(o) PROVE [Pool!Next]_(Pool!vars)
    <3>1. CASE refs'[o] = 0 /\ status[o] = "RECLAIM"
      <4>1. PutBack(o) /\ indic' = indic /\ o \in awaitedBar /\ o \notin lentBar
        BY <2>6, <3>1 DEF CMD_DECR_REFS, lentBar, awaitedBar
      <4>4. /\ idleBar' = Append(idleBar, o) /\ lentBar' = lentBar \ {o}
            /\ awaitedBar' = awaitedBar \ {o}
        BY <3>1, <4>1, PutBackReturns
      <4>2. idleBar' = Append(idleBar, o) /\ lentBar' = lentBar /\ awaitedBar' = awaitedBar \ {o}
        BY <4>1, <4>4
      <4>3. Pool!LastLetsGo(o)
        BY <4>1, <4>2 DEF Pool!LastLetsGo, idleBar, lentBar, awaitedBar
      <4> QED
        BY <4>3 DEF Pool!Next
    <3>2. CASE ~(refs'[o] = 0 /\ status[o] = "RECLAIM")
      BY <2>6, <3>2 DEF CMD_DECR_REFS, Pool!vars
    <3> QED
      BY <3>1, <3>2
  <2>7. CASE UNCHANGED vars
    BY <2>7 DEF vars, pool, Pool!vars
  <2> QED
    BY <2>1, <2>2, <2>3, <2>4, <2>5, <2>6, <2>7 DEF Next, Pool!Next
<1> QED
  BY <1>1, <1>2, SpecIInv, PTL DEF Spec, KeepsItsPromise, Pool!Spec
=============================================================================
