-------------------------- MODULE TcpServerProofs --------------------------
(***************************************************************************)
(* Descriptors, pools, objects and roles stay matched in the TCP server,   *)
(* for every number of objects and descriptors.                            *)
(*                                                                         *)
(* The invariant is stated of values, not of the variables, so that what   *)
(* accepting a connection and what ending a service do to it can be shown  *)
(* apart, although a lonely listener does both in one step.                *)
(***************************************************************************)
EXTENDS TcpServer, SequenceTheorems, FiniteSetTheorems, TLAPS

\* Who has a descriptor: t with a service, or in a session (x is ex.on).
Held(l, x) == {t \in Objs : l[t] # NoFd \/ t \in x}

Types(f, l, con, isl, scan) ==
    /\ f \in [Fds -> {"closed", "listening", "up", "gone"}]
    /\ l \in [Objs -> Fds \cup {NoFd}]
    /\ con \in [Children -> Fds \cup {NoFd}]
    /\ isl \in [Objs -> BOOLEAN]
    /\ scan \in [Objs -> Fds \cup {NoFd}]

\* What a listener has, with r as rd.on.
Listens(t, f, l, scan, r) ==
    scan[t] = l[t] /\ l[t] \in Fds /\ f[l[t]] = "listening" /\ t \in r

\* What a session has.
Serves(c, f, con, isl, scan) ==
    ~isl[c] /\ con[c] \in Fds /\ scan[c] = con[c] /\ f[con[c]] \in {"up", "gone"}

Roles(f, l, con, isl, scan, r, w, x) ==
    /\ isl[Root]
    /\ \A t \in Objs : l[t] # NoFd => isl[t] /\ Listens(t, f, l, scan, r)
    /\ \A c \in x : c \in Children /\ Serves(c, f, con, isl, scan)
    /\ r \subseteq Held(l, x)
    /\ w \subseteq x

\* No descriptor is held twice, and each open one is held.
Files(f, l, scan, x) ==
    /\ \A t, u \in Held(l, x) : scan[t] = scan[u] => t = u
    /\ \A fd \in Fds : f[fd] # "closed" => \E t \in Held(l, x) : scan[t] = fd

Bits(p, scan) == p.bits = {scan[t] : t \in p.on}

InQ(q, c) == \E a \in 1 .. Len(q) : q[a] = c
Distinct(q) == \A a, b \in 1 .. Len(q) : q[a] = q[b] => a = b

\* An object is in one place: with Nostra, in a session, or as a listener.
Places(isl, x, q) ==
    /\ Distinct(q)
    /\ \A c \in Children : IF InQ(q, c) THEN c \notin x /\ ~isl[c]
                                        ELSE c \in x \/ isl[c]

Matched ==
    /\ Roles(file, listenfd, connfd, isListener, scanfd, rd.on, wr.on, ex.on)
    /\ Files(file, listenfd, scanfd, ex.on)
    /\ Bits(rd, scanfd) /\ Bits(wr, scanfd) /\ Bits(ex, scanfd)
    /\ Places(isListener, ex.on, idle)

IInv == TypeOK /\ Matched /\ AlarmIsOwn /\ WatchedWhileBlocked

\* It holds until an alarm that a release left behind ends an object that has no
\* session, after which only what it says of types, alarms and sends is left.
Kept == TypeOK /\ (strayed \/ Matched) /\ AlarmIsOwn /\ WatchedWhileBlocked

(***************************************************************************)
(* The queue of idle objects.                                              *)
(***************************************************************************)
\* An object given back is the last in the queue (Nostra.cpp:109-121).
LEMMA GiveBack ==
  ASSUME NEW q \in Seq(Children), NEW c \in Children, Distinct(q), ~InQ(q, c)
  PROVE  /\ Append(q, c) \in Seq(Children)
         /\ Distinct(Append(q, c))
         /\ \A d : InQ(Append(q, c), d) <=> InQ(q, d) \/ d = c
<1>1. /\ Append(q, c) \in Seq(Children)
      /\ Len(Append(q, c)) = Len(q) + 1
      /\ \A a \in 1 .. Len(q) : Append(q, c)[a] = q[a]
      /\ Append(q, c)[Len(q) + 1] = c
      /\ Len(q) \in Nat
  BY AppendProperties
<1>2. \A a \in 1 .. Len(q) + 1 : a \in 1 .. Len(q) \/ a = Len(q) + 1
  BY <1>1
<1>3. Distinct(Append(q, c))
  BY <1>1, <1>2 DEF Distinct, InQ
<1>4. ASSUME NEW d PROVE InQ(Append(q, c), d) <=> InQ(q, d) \/ d = c
  <2>1. Len(q) + 1 \in 1 .. Len(q) + 1 /\ \A a \in 1 .. Len(q) : a \in 1 .. Len(q) + 1
    BY <1>1
  <2> QED
    BY <1>1, <1>2, <2>1 DEF InQ
<1> QED
  BY <1>1, <1>3, <1>4

\* The object lent is the first (Nostra.cpp:80-96).
LEMMA Lend ==
  ASSUME NEW q \in Seq(Children), q # << >>, Distinct(q)
  PROVE  /\ Head(q) \in Children /\ Tail(q) \in Seq(Children)
         /\ InQ(q, Head(q))
         /\ Distinct(Tail(q))
         /\ \A d : InQ(Tail(q), d) <=> InQ(q, d) /\ d # Head(q)
<1>1. /\ Head(q) \in Children /\ Head(q) = q[1]
      /\ Tail(q) \in Seq(Children)
      /\ Len(Tail(q)) = Len(q) - 1
      /\ \A a \in 1 .. Len(q) - 1 : Tail(q)[a] = q[a + 1]
      /\ Len(q) \in Nat /\ Len(q) >= 1
  BY HeadTailProperties, EmptySeq
<1>2. 1 \in 1 .. Len(q) /\ \A a \in 1 .. Len(q) - 1 : a + 1 \in 1 .. Len(q) /\ a + 1 # 1
  BY <1>1
<1>3. \A a \in 1 .. Len(q) : a = 1 \/ (a - 1 \in 1 .. Len(q) - 1 /\ q[a] = Tail(q)[a - 1])
  BY <1>1
<1>4. Distinct(Tail(q))
  BY <1>1, <1>2 DEF Distinct
<1>5. ASSUME NEW d PROVE InQ(Tail(q), d) <=> InQ(q, d) /\ d # Head(q)
  BY <1>1, <1>2, <1>3 DEF InQ, Distinct
<1> QED
  BY <1>1, <1>2, <1>4, <1>5 DEF InQ

(***************************************************************************)
(* The pools.                                                              *)
(***************************************************************************)
\* Unwatching an object whose descriptor no other watched one has.
LEMMA UnwatchBits ==
  ASSUME NEW p, NEW scan, NEW t, Bits(p, scan),
         \A u \in p.on : scan[u] = scan[t] => u = t
  PROVE  /\ Bits(Unwatch(p, t, scan[t]), scan)
         /\ Unwatch(p, t, scan[t]).on = p.on \ {t}
BY DEF Bits, Unwatch

\* Watching one whose criptor has just got the descriptor fd.
LEMMA WatchBits ==
  ASSUME NEW p, NEW scan, NEW new, NEW t, NEW fd, Bits(p, scan), t \notin p.on,
         new[t] = fd, \A u \in p.on : new[u] = scan[u]
  PROVE  /\ Bits(Watch(p, t, fd), new)
         /\ Watch(p, t, fd).on = p.on \cup {t}
BY DEF Bits, Watch

\* A pool does not notice what happens to the criptors it does not watch.
LEMMA SameBits ==
  ASSUME NEW p, NEW scan, NEW new, Bits(p, scan), \A u \in p.on : new[u] = scan[u]
  PROVE  Bits(p, new)
BY DEF Bits

\* The pools' types.
LEMMA WatchTypes ==
  ASSUME NEW p, WatchType(p), NEW t \in Objs, NEW fd \in Fds
  PROVE  WatchType(Watch(p, t, fd)) /\ WatchType(Unwatch(p, t, fd))
BY DEF WatchType, Watch, Unwatch

(***************************************************************************)
(* What the handlers do to roles, files and places.                        *)
(***************************************************************************)
\* A session lets go of its connection: end, end_release (Tcpsrvuna.cpp:924-1011).
LEMMA LetGoMatches ==
  ASSUME NEW f, NEW l, NEW con, NEW isl, NEW scan, NEW r, NEW w, NEW x, NEW q,
         Types(f, l, con, isl, scan), q \in Seq(Children),
         Roles(f, l, con, isl, scan, r, w, x), Files(f, l, scan, x), Places(isl, x, q),
         NEW c \in x
  PROVE  /\ Roles([f EXCEPT ![con[c]] = "closed"], l, [con EXCEPT ![c] = NoFd],
                  isl, scan, r \ {c}, w \ {c}, x \ {c})
         /\ Files([f EXCEPT ![con[c]] = "closed"], l, scan, x \ {c})
         /\ Places(isl, x \ {c}, Append(q, c))
         /\ c \in Held(l, x) /\ scan[c] \in Fds
<1> DEFINE g == [f EXCEPT ![con[c]] = "closed"]
           k == [con EXCEPT ![c] = NoFd]
<1>1. /\ c \in Children /\ c \in Objs /\ con[c] \in Fds /\ scan[c] = con[c]
      /\ ~isl[c] /\ l[c] = NoFd
  BY DEF Roles, Serves, Objs
<1>2. c \in Held(l, x) /\ \A t \in Held(l, x) : scan[t] = con[c] => t = c
  BY <1>1 DEF Files, Held
<1>3. \A t \in Held(l, x) : t # c => g[scan[t]] = f[scan[t]]
  BY <1>1, <1>2 DEF Types
<1>4. Held(l, x \ {c}) = Held(l, x) \ {c}
  BY <1>1 DEF Held
<1>5. \A d \in Children : d # c => k[d] = con[d]
  BY <1>1 DEF Types
<1> HIDE DEF g, k
<1>6. ASSUME NEW t \in Objs, l[t] # NoFd
      PROVE  isl[t] /\ Listens(t, g, l, scan, r \ {c})
  <2>1. isl[t] /\ Listens(t, f, l, scan, r) /\ t # c /\ t \in Held(l, x)
    BY <1>1, <1>6 DEF Roles, Held
  <2> QED
    BY <1>3, <2>1 DEF Listens
<1>7. ASSUME NEW d \in x \ {c}
      PROVE  d \in Children /\ Serves(d, g, k, isl, scan)
  <2>1. d \in Children /\ Serves(d, f, con, isl, scan) /\ d \in Held(l, x)
    BY DEF Roles, Held, Objs
  <2> QED
    BY <1>3, <1>5, <1>7, <2>1 DEF Serves
<1>8. Roles(g, l, k, isl, scan, r \ {c}, w \ {c}, x \ {c})
  <2>1. isl[Root] /\ r \ {c} \subseteq Held(l, x \ {c}) /\ w \ {c} \subseteq x \ {c}
    BY <1>4 DEF Roles
  <2> QED
    BY <1>6, <1>7, <2>1 DEF Roles
<1>9. Files(g, l, scan, x \ {c})
  <2>1. ASSUME NEW fd \in Fds, g[fd] # "closed"
        PROVE  \E t \in Held(l, x \ {c}) : scan[t] = fd
    <3>1. fd # con[c] /\ f[fd] # "closed"
      BY <1>1, <2>1 DEF g, Types
    <3>2. PICK t \in Held(l, x) : scan[t] = fd
      BY <3>1 DEF Files
    <3> QED
      BY <1>1, <1>4, <3>1, <3>2
  <2> QED
    BY <1>4, <2>1 DEF Files
<1>10. Places(isl, x \ {c}, Append(q, c))
  <2>1. ~InQ(q, c) /\ Distinct(q)
    BY <1>1 DEF Places
  <2>2. Distinct(Append(q, c)) /\ \A d : InQ(Append(q, c), d) <=> InQ(q, d) \/ d = c
    BY <1>1, <2>1, GiveBack
  <2> QED
    BY <1>1, <2>2 DEF Places
<1> QED
  BY <1>1, <1>2, <1>8, <1>9, <1>10 DEF g, k

\* A listener gets a descriptor (Tcpsrvuna.cpp:629-678).
LEMMA BeginMatches ==
  ASSUME NEW f, NEW l, NEW con, NEW isl, NEW scan, NEW r, NEW w, NEW x,
         Types(f, l, con, isl, scan),
         Roles(f, l, con, isl, scan, r, w, x), Files(f, l, scan, x),
         NEW t \in Objs, isl[t], l[t] = NoFd, NEW fd \in Fds, f[fd] = "closed"
  PROVE  /\ Roles([f EXCEPT ![fd] = "listening"], [l EXCEPT ![t] = fd], con, isl,
                  [scan EXCEPT ![t] = fd], r \cup {t}, w, x)
         /\ Files([f EXCEPT ![fd] = "listening"], [l EXCEPT ![t] = fd],
                  [scan EXCEPT ![t] = fd], x)
         /\ t \notin Held(l, x)
<1> DEFINE g == [f EXCEPT ![fd] = "listening"]
           m == [l EXCEPT ![t] = fd]
           s == [scan EXCEPT ![t] = fd]
<1>1. t \notin x /\ t \notin Held(l, x)
  BY DEF Held, Roles, Serves
<1>2. /\ m[t] = fd /\ s[t] = fd /\ g[fd] = "listening" /\ fd # NoFd
      /\ \A u \in Objs : u # t => m[u] = l[u] /\ s[u] = scan[u]
      /\ \A d \in Fds : d # fd => g[d] = f[d]
  BY FdsAssumption DEF Types
<1>3. \A u \in Held(l, x) : scan[u] \in Fds /\ f[scan[u]] # "closed"
  BY DEF Held, Roles, Listens, Serves
<1>4. Held(m, x) = Held(l, x) \cup {t}
  BY <1>2 DEF Held
<1> HIDE DEF g, m, s
<1>5. \A u \in Held(l, x) : u \in Objs /\ u # t /\ scan[u] # fd
  BY <1>1, <1>3 DEF Held
<1>6. ASSUME NEW u \in Objs, m[u] # NoFd
      PROVE  isl[u] /\ Listens(u, g, m, s, r \cup {t})
  <2>1. CASE u = t
    BY <1>2, <2>1 DEF Listens
  <2>2. CASE u # t
    <3>1. isl[u] /\ Listens(u, f, l, scan, r) /\ u \in Held(l, x)
      BY <1>2, <1>6, <2>2 DEF Roles, Held
    <3> QED
      BY <1>2, <1>5, <2>2, <3>1 DEF Listens
  <2> QED
    BY <2>1, <2>2
<1>7. ASSUME NEW c \in x PROVE c \in Children /\ Serves(c, g, con, isl, s)
  <2>1. c \in Children /\ Serves(c, f, con, isl, scan) /\ c \in Held(l, x)
    BY DEF Roles, Held, Objs
  <2> QED
    BY <1>2, <1>5, <2>1 DEF Serves
<1>8. Roles(g, m, con, isl, s, r \cup {t}, w, x)
  BY <1>4, <1>6, <1>7 DEF Roles
<1>9. Files(g, m, s, x)
  <2>1. \A u, v \in Held(m, x) : s[u] = s[v] => u = v
    BY <1>2, <1>4, <1>5 DEF Files
  <2>2. \A d \in Fds : g[d] # "closed" => \E u \in Held(m, x) : s[u] = d
    BY <1>2, <1>4, <1>5 DEF Files
  <2> QED
    BY <2>1, <2>2 DEF Files
<1> QED
  BY <1>1, <1>8, <1>9 DEF g, m, s

\* A listener stops (Tcpsrvuna.cpp:894-922).
LEMMA EndServiceMatches ==
  ASSUME NEW f, NEW l, NEW con, NEW isl, NEW scan, NEW r, NEW w, NEW x,
         Types(f, l, con, isl, scan),
         Roles(f, l, con, isl, scan, r, w, x), Files(f, l, scan, x),
         NEW t \in Objs, isl[t], l[t] # NoFd
  PROVE  /\ Roles([f EXCEPT ![l[t]] = "closed"], [l EXCEPT ![t] = NoFd], con,
                  [isl EXCEPT ![t] = t = Root], scan, r \ {t}, w, x)
         /\ Files([f EXCEPT ![l[t]] = "closed"], [l EXCEPT ![t] = NoFd], scan, x)
<1> DEFINE g == [f EXCEPT ![l[t]] = "closed"]
           m == [l EXCEPT ![t] = NoFd]
           i == [isl EXCEPT ![t] = t = Root]
<1>1. l[t] \in Fds /\ scan[t] = l[t] /\ t \notin x /\ t \in Held(l, x)
  BY DEF Roles, Listens, Serves, Held
<1>2. /\ m[t] = NoFd /\ i[t] = (t = Root) /\ g[l[t]] = "closed"
      /\ \A u \in Objs : u # t => m[u] = l[u] /\ i[u] = isl[u]
      /\ \A d \in Fds : d # l[t] => g[d] = f[d]
  BY <1>1 DEF Types
<1>3. Held(m, x) = Held(l, x) \ {t}
  BY <1>1, <1>2 DEF Held
<1>4. \A u \in Held(l, x) : u # t => scan[u] # l[t]
  BY <1>1 DEF Files
<1> HIDE DEF g, m, i
<1>5. ASSUME NEW u \in Objs, m[u] # NoFd
      PROVE  i[u] /\ Listens(u, g, m, scan, r \ {t})
  <2>1. u # t
    BY <1>2, <1>5
  <2>2. isl[u] /\ Listens(u, f, l, scan, r) /\ u \in Held(l, x)
    BY <1>2, <1>5, <2>1 DEF Roles, Held
  <2> QED
    BY <1>2, <1>4, <2>1, <2>2 DEF Listens
<1>6. ASSUME NEW c \in x PROVE c \in Children /\ Serves(c, g, con, i, scan)
  <2>1. c \in Children /\ Serves(c, f, con, isl, scan) /\ c \in Held(l, x) /\ c \in Objs
    BY DEF Roles, Held, Objs
  <2> QED
    BY <1>1, <1>2, <1>4, <2>1 DEF Serves
<1>7. Roles(g, m, con, i, scan, r \ {t}, w, x)
  <2>1. i[Root]
    BY <1>2 DEF Roles, Objs
  <2>2. r \ {t} \subseteq Held(m, x) /\ w \subseteq x
    BY <1>3 DEF Roles
  <2> QED
    BY <1>5, <1>6, <2>1, <2>2 DEF Roles
<1>8. Files(g, m, scan, x)
  BY <1>1, <1>2, <1>3, <1>4 DEF Files
<1> QED
  BY <1>7, <1>8 DEF g, m, i

\* A listener that stops is given back, but for the root
\* (Tcpsrvuna.cpp:917-920).
LEMMA StopPlaces ==
  ASSUME NEW isl \in [Objs -> BOOLEAN], NEW x, NEW q \in Seq(Children), Places(isl, x, q),
         NEW t \in Objs, isl[t], t \notin x
  PROVE  /\ t = Root => Places([isl EXCEPT ![t] = t = Root], x, q)
         /\ t # Root => Places([isl EXCEPT ![t] = t = Root], x, Append(q, t))
<1> DEFINE i == [isl EXCEPT ![t] = t = Root]
<1>1. (i[t] <=> t = Root) /\ \A c \in Objs : c # t => i[c] = isl[c]
  OBVIOUS
<1> HIDE DEF i
<1>2. CASE t = Root
  <2>1. \A c \in Children : i[c] = isl[c]
    BY <1>1, <1>2, RootAssumption DEF Objs
  <2> QED
    BY <1>2, <2>1 DEF Places, i
<1>3. CASE t # Root
  <2>1. t \in Children /\ ~InQ(q, t) /\ Distinct(q)
    BY <1>3 DEF Places, Objs
  <2>2. Distinct(Append(q, t)) /\ \A d : InQ(Append(q, t), d) <=> InQ(q, d) \/ d = t
    BY <2>1, GiveBack
  <2>3. \A c \in Children : c # t => i[c] = isl[c]
    BY <1>1 DEF Objs
  <2>4. Places(i, x, Append(q, t))
    BY <1>1, <1>3, <2>1, <2>2, <2>3 DEF Places
  <2> QED
    BY <1>3, <2>4 DEF i
<1> QED
  BY <1>2, <1>3

\* An object that was lent gets the connection fd (Tcpsrvuna.cpp:705-803).
LEMMA AcceptMatches ==
  ASSUME NEW f, NEW l, NEW con, NEW isl, NEW scan, NEW r, NEW w, NEW x,
         Types(f, l, con, isl, scan),
         Roles(f, l, con, isl, scan, r, w, x), Files(f, l, scan, x),
         NEW c \in Children, c \notin x, ~isl[c], NEW fd \in Fds, f[fd] = "closed",
         con[c] = fd
  PROVE  /\ Roles([f EXCEPT ![fd] = "up"], l, con, isl, [scan EXCEPT ![c] = fd],
                  r \cup {c}, w, x \cup {c})
         /\ Files([f EXCEPT ![fd] = "up"], l, [scan EXCEPT ![c] = fd], x \cup {c})
<1> DEFINE g == [f EXCEPT ![fd] = "up"]
           s == [scan EXCEPT ![c] = fd]
<1>1. c \in Objs /\ c \notin Held(l, x) /\ l[c] = NoFd
  BY DEF Held, Roles, Objs
<1>2. /\ s[c] = fd /\ g[fd] = "up"
      /\ \A u \in Objs : u # c => s[u] = scan[u]
      /\ \A d \in Fds : d # fd => g[d] = f[d]
  BY <1>1 DEF Types
<1>3. \A u \in Held(l, x) : /\ u \in Objs /\ u # c
                            /\ scan[u] \in Fds /\ f[scan[u]] # "closed" /\ scan[u] # fd
  BY <1>1 DEF Held, Roles, Listens, Serves
<1>4. Held(l, x \cup {c}) = Held(l, x) \cup {c}
  BY <1>1 DEF Held
<1> HIDE DEF g, s
<1>5. ASSUME NEW u \in Objs, l[u] # NoFd
      PROVE  isl[u] /\ Listens(u, g, l, s, r \cup {c})
  <2>1. isl[u] /\ Listens(u, f, l, scan, r) /\ u \in Held(l, x)
    BY <1>5 DEF Roles, Held
  <2> QED
    BY <1>2, <1>3, <2>1 DEF Listens
<1>6. ASSUME NEW d \in x \cup {c} PROVE d \in Children /\ Serves(d, g, con, isl, s)
  <2>1. CASE d = c
    BY <1>1, <1>2, <2>1 DEF Serves
  <2>2. CASE d # c
    <3>1. d \in x /\ d \in Children /\ Serves(d, f, con, isl, scan) /\ d \in Held(l, x)
      BY <1>6, <2>2 DEF Roles, Held, Objs
    <3> QED
      BY <1>2, <1>3, <3>1 DEF Serves
  <2> QED
    BY <2>1, <2>2
<1>7. Roles(g, l, con, isl, s, r \cup {c}, w, x \cup {c})
  <2>1. isl[Root] /\ r \cup {c} \subseteq Held(l, x \cup {c}) /\ w \subseteq x \cup {c}
    BY <1>4 DEF Roles
  <2> QED
    BY <1>5, <1>6, <2>1 DEF Roles
<1>8. Files(g, l, s, x \cup {c})
  <2>1. \A u, v \in Held(l, x \cup {c}) : s[u] = s[v] => u = v
    BY <1>2, <1>3, <1>4 DEF Files
  <2>2. ASSUME NEW d \in Fds, g[d] # "closed"
        PROVE  \E u \in Held(l, x \cup {c}) : s[u] = d
    <3>1. CASE d = fd
      BY <1>2, <1>4, <3>1
    <3>2. CASE d # fd
      <4>1. PICK u \in Held(l, x) : scan[u] = d
        BY <1>2, <2>2, <3>2 DEF Files
      <4> QED
        BY <1>2, <1>3, <1>4, <4>1
    <3> QED
      BY <3>1, <3>2
  <2> QED
    BY <2>1, <2>2 DEF Files
<1> QED
  BY <1>7, <1>8 DEF g, s

\* It has left the queue, and has a session.
LEMMA LendPlaces ==
  ASSUME NEW isl, NEW x, NEW q \in Seq(Children), q # << >>, Places(isl, x, q)
  PROVE  /\ Head(q) \in Children /\ Head(q) \notin x /\ ~isl[Head(q)]
         /\ Places(isl, x \cup {Head(q)}, Tail(q))
BY Lend DEF Places

\* An object that was lent becomes a listener, without a descriptor so far
\* (Tcpsrvuna.cpp:359-409).
LEMMA NewListenerMatches ==
  ASSUME NEW f, NEW l, NEW con, NEW isl, NEW scan, NEW r, NEW w, NEW x, NEW q,
         Types(f, l, con, isl, scan), q \in Seq(Children),
         Roles(f, l, con, isl, scan, r, w, x), Places(isl, x, q),
         q # << >>, NEW c, c = Head(q)
  PROVE  /\ Roles(f, l, con, [isl EXCEPT ![c] = TRUE], scan, r, w, x)
         /\ Places([isl EXCEPT ![c] = TRUE], x, Tail(q))
         /\ c \in Children /\ l[c] = NoFd
<1> DEFINE i == [isl EXCEPT ![c] = TRUE]
<1>1. /\ c \in Children /\ InQ(q, c) /\ Distinct(Tail(q))
      /\ \A d : InQ(Tail(q), d) <=> InQ(q, d) /\ d # c
  BY Lend DEF Places
<1>2. c \notin x /\ ~isl[c] /\ c \in Objs /\ l[c] = NoFd
  BY <1>1 DEF Places, Roles, Objs
<1>3. i[c] /\ \A u \in Objs : u # c => i[u] = isl[u]
  BY <1>2 DEF Types
<1> HIDE DEF i
<1>4. Roles(f, l, con, i, scan, r, w, x)
  <2>1. i[Root]
    BY <1>3 DEF Roles, Objs
  <2>2. \A t \in Objs : l[t] # NoFd => i[t] /\ Listens(t, f, l, scan, r)
    BY <1>3 DEF Roles
  <2>3. \A d \in x : d \in Children /\ Serves(d, f, con, i, scan)
    BY <1>2, <1>3 DEF Roles, Serves, Objs
  <2> QED
    BY <2>1, <2>2, <2>3 DEF Roles
<1>5. Places(i, x, Tail(q))
  BY <1>1, <1>2, <1>3 DEF Places, Objs
<1> QED
  BY <1>1, <1>2, <1>4, <1>5 DEF i

\* The peer leaves a connection.
LEMMA PeerMatches ==
  ASSUME NEW f, NEW l, NEW con, NEW isl, NEW scan, NEW r, NEW w, NEW x,
         Types(f, l, con, isl, scan),
         Roles(f, l, con, isl, scan, r, w, x), Files(f, l, scan, x),
         NEW fd \in Fds, f[fd] = "up"
  PROVE  /\ Roles([f EXCEPT ![fd] = "gone"], l, con, isl, scan, r, w, x)
         /\ Files([f EXCEPT ![fd] = "gone"], l, scan, x)
<1> DEFINE g == [f EXCEPT ![fd] = "gone"]
<1>1. g[fd] = "gone" /\ \A d \in Fds : d # fd => g[d] = f[d]
  BY DEF Types
<1> HIDE DEF g
<1>2. \A t \in Objs : Listens(t, f, l, scan, r) => Listens(t, g, l, scan, r)
  BY <1>1 DEF Listens
<1>3. \A c \in x : Serves(c, f, con, isl, scan) => Serves(c, g, con, isl, scan)
  BY <1>1 DEF Serves
<1>4. Roles(g, l, con, isl, scan, r, w, x)
  BY <1>2, <1>3 DEF Roles
<1>5. \A d \in Fds : g[d] # "closed" => f[d] # "closed"
  BY <1>1
<1>6. Files(g, l, scan, x)
  BY <1>5 DEF Files
<1> QED
  BY <1>4, <1>6 DEF g

\* What a listener has in connfd does not matter, nor whether a session is
\* watched for input.
LEMMA SameRoles ==
  ASSUME NEW f, NEW l, NEW con, NEW isl, NEW scan, NEW r, NEW w, NEW x,
         Roles(f, l, con, isl, scan, r, w, x),
         NEW k, \A d \in x : k[d] = con[d],
         NEW v, v \subseteq Held(l, x), \A t \in r : t \in v \/ t \in x,
         NEW y, y \subseteq x
  PROVE  Roles(f, l, k, isl, scan, v, y, x)
<1>1. \A c \in x : c \in Children /\ Serves(c, f, k, isl, scan)
  BY DEF Roles, Serves
<1>2. ASSUME NEW t \in Objs, l[t] # NoFd PROVE isl[t] /\ Listens(t, f, l, scan, v)
  <2>1. isl[t] /\ Listens(t, f, l, scan, r) /\ t \notin x
    BY <1>1, <1>2 DEF Roles, Serves
  <2> QED
    BY <2>1 DEF Listens
<1> QED
  BY <1>1, <1>2 DEF Roles

(***************************************************************************)
(* What the invariant says of who is called.                               *)
(***************************************************************************)
LEMMA TypesOfFields == TypeOK => Types(file, listenfd, connfd, isListener, scanfd)
BY DEF TypeOK, Types

\* No other watched criptor has the descriptor of one that holds it.
LEMMA OwnDescriptor ==
  ASSUME Matched, NEW t \in Held(listenfd, ex.on)
  PROVE  /\ \A u \in rd.on : scanfd[u] = scanfd[t] => u = t
         /\ \A u \in wr.on : scanfd[u] = scanfd[t] => u = t
         /\ \A u \in ex.on : scanfd[u] = scanfd[t] => u = t
<1>1. rd.on \subseteq Held(listenfd, ex.on) /\ wr.on \subseteq ex.on
  BY DEF Matched, Roles
<1>2. ex.on \subseteq Held(listenfd, ex.on)
  BY DEF Matched, Roles, Held, Objs
<1> QED
  BY <1>1, <1>2 DEF Matched, Files

LEMMA LiveFacts ==
  ASSUME TypeOK, Matched, NEW c \in Children, Live(c)
  PROVE  /\ Session(c) /\ scanfd[c] = connfd[c] /\ connfd[c] \in Fds
         /\ file[connfd[c]] \in {"up", "gone"}
         /\ c \in Held(listenfd, ex.on) /\ listenfd[c] = NoFd /\ ~InQ(idle, c)
<1>1. c \in ex.on /\ Serves(c, file, connfd, isListener, scanfd) /\ c \in Objs
  BY DEF Live, Matched, Roles, Objs
<1>2. listenfd[c] = NoFd
  BY <1>1 DEF Matched, Roles, Serves
<1> QED
  BY <1>1, <1>2, FdsAssumption DEF Session, Serves, Held, Matched, Places

\* Who is called for input and is no listener has a session.
LEMMA CalledIsLive ==
  ASSUME Matched, NEW c \in Objs, Called(rd, c), ~isListener[c]
  PROVE  c \in Children /\ Live(c)
<1>1. c \in Held(listenfd, ex.on) /\ listenfd[c] = NoFd /\ isListener[Root]
  BY DEF Matched, Roles, Called
<1> QED
  BY <1>1 DEF Held, Live, Objs

\* A listener that is called has its descriptor.
LEMMA CalledListens ==
  ASSUME Matched, NEW t \in Objs, Called(rd, t), isListener[t]
  PROVE  listenfd[t] # NoFd /\ t \notin ex.on
BY DEF Matched, Roles, Called, Held, Serves

(***************************************************************************)
(* The invariant is kept, by each thing the handlers are made of.          *)
(***************************************************************************)
LEMMA LetGoStep ==
  ASSUME IInv, NEW c \in Children, Live(c), LetGo(c), wr_blocked' = wr_blocked,
         lonely' = lonely, ended' \in SUBSET Children,
         alarm' \in [Children -> BOOLEAN], left' \in SUBSET Children, strayed' \in BOOLEAN,
         \A d \in Children : alarm'[d] => d \in left' \/ (alarm[d] /\ d # c /\ d \notin left)
  PROVE  IInv'
<1>1. /\ TypeOK /\ Matched /\ AlarmIsOwn /\ WatchedWhileBlocked
      /\ Types(file, listenfd, connfd, isListener, scanfd)
      /\ idle \in Seq(Children) /\ c \in ex.on /\ c \in Objs
  BY TypesOfFields DEF IInv, TypeOK, Live, Objs
<1>2. /\ scanfd[c] = connfd[c] /\ scanfd[c] \in Fds
      /\ c \in Held(listenfd, ex.on) /\ ~InQ(idle, c) /\ Distinct(idle)
  BY <1>1, LiveFacts DEF Matched, Places
<1>3. /\ Bits(rd', scanfd) /\ rd'.on = rd.on \ {c}
      /\ Bits(wr', scanfd) /\ wr'.on = wr.on \ {c}
      /\ Bits(ex', scanfd) /\ ex'.on = ex.on \ {c}
  <2>1. /\ rd' = Unwatch(rd, c, scanfd[c])
        /\ wr' = Unwatch(wr, c, scanfd[c])
        /\ ex' = Unwatch(ex, c, scanfd[c])
        /\ Bits(rd, scanfd) /\ Bits(wr, scanfd) /\ Bits(ex, scanfd)
    BY <1>1 DEF LetGo, Matched
  <2>2. /\ \A u \in rd.on : scanfd[u] = scanfd[c] => u = c
        /\ \A u \in wr.on : scanfd[u] = scanfd[c] => u = c
        /\ \A u \in ex.on : scanfd[u] = scanfd[c] => u = c
    BY <1>1, <1>2, OwnDescriptor
  <2>3. Bits(rd', scanfd) /\ rd'.on = rd.on \ {c}
    BY <2>1, <2>2, UnwatchBits
  <2>4. Bits(wr', scanfd) /\ wr'.on = wr.on \ {c}
    BY <2>1, <2>2, UnwatchBits
  <2>5. Bits(ex', scanfd) /\ ex'.on = ex.on \ {c}
    BY <2>1, <2>2, UnwatchBits
  <2> QED
    BY <2>3, <2>4, <2>5
<1>4. /\ file' = [file EXCEPT ![connfd[c]] = "closed"]
      /\ connfd' = [connfd EXCEPT ![c] = NoFd]
      /\ idle' = Append(idle, c)
      /\ listenfd' = listenfd /\ isListener' = isListener /\ scanfd' = scanfd
      /\ inherited' = [inherited EXCEPT ![c] = FALSE]
  BY DEF LetGo
<1>5. TypeOK'
  <2>1. WatchType(rd') /\ WatchType(wr') /\ WatchType(ex')
    BY <1>1, <1>2, WatchTypes DEF LetGo, TypeOK
  <2>2. idle' \in Seq(Children)
    BY <1>1, <1>2, <1>4, GiveBack
  <2> QED
    BY <1>1, <1>4, <2>1, <2>2 DEF TypeOK
<1>6. Matched'
  <2>1. /\ Roles(file, listenfd, connfd, isListener, scanfd, rd.on, wr.on, ex.on)
        /\ Files(file, listenfd, scanfd, ex.on)
        /\ Places(isListener, ex.on, idle)
    BY <1>1 DEF Matched
  <2>2. /\ Roles([file EXCEPT ![connfd[c]] = "closed"], listenfd, [connfd EXCEPT ![c] = NoFd],
                 isListener, scanfd, rd.on \ {c}, wr.on \ {c}, ex.on \ {c})
        /\ Files([file EXCEPT ![connfd[c]] = "closed"], listenfd, scanfd, ex.on \ {c})
        /\ Places(isListener, ex.on \ {c}, Append(idle, c))
    BY <1>1, <2>1, LetGoMatches
  <2> QED
    BY <1>3, <1>4, <2>2 DEF Matched
<1>7. AlarmIsOwn'
  BY <1>1, <1>3 DEF AlarmIsOwn, Live
<1>8. WatchedWhileBlocked'
  <2>1. \A d \in Children : d # c => inherited'[d] = inherited[d]
    BY <1>1, <1>4 DEF TypeOK
  <2> QED
    BY <1>1, <1>3, <2>1 DEF WatchedWhileBlocked, Live
<1> QED
  BY <1>5, <1>6, <1>7, <1>8 DEF IInv

LEMMA EndStep ==
  ASSUME IInv, NEW c \in Children, Live(c), End(c), wr_blocked' = wr_blocked
  PROVE  IInv'
<1>1. /\ LetGo(c) /\ ended' = {c} /\ lonely' = lonely
      /\ alarm' = [alarm EXCEPT ![c] = FALSE] /\ left' = left \ {c}
      /\ strayed' = ~Live(c)
  BY LiveFacts DEF End, Tell, ClearAlarm, IInv
<1>2. /\ alarm' \in [Children -> BOOLEAN] /\ left' \in SUBSET Children
      /\ strayed' \in BOOLEAN
      /\ \A d \in Children : alarm'[d] => alarm[d] /\ d # c
  BY <1>1 DEF IInv, TypeOK
<1> QED
  BY <1>1, <1>2, LetGoStep

\* Nothing but the alarms changes, and an alarm is set for a session only.
LEMMA AlarmStep ==
  ASSUME IInv, UNCHANGED <<file, tcpsrv, wr_blocked, pools, idle, inherited, strayed>>,
         NoNews, alarm' \in [Children -> BOOLEAN], left' \in SUBSET Children,
         \A c \in Children : alarm'[c] => Live(c) \/ c \in left'
  PROVE  IInv'
<1>1. TypeOK' /\ Matched' /\ WatchedWhileBlocked'
  BY DEF IInv, TypeOK, Matched, WatchedWhileBlocked, Live, NoNews, Tell, tcpsrv, pools, WatchType
<1>2. AlarmIsOwn'
  BY DEF AlarmIsOwn, Live, pools
<1> QED
  BY <1>1, <1>2 DEF IInv

LEMMA TransmitStep ==
  ASSUME IInv, NEW c \in Children, Live(c), Transmit(c)
  PROVE  IInv'
<1>1. /\ TypeOK /\ Matched /\ AlarmIsOwn /\ WatchedWhileBlocked
      /\ c \in ex.on /\ c \in Objs
  BY DEF IInv, Live, Objs
<1>2. /\ scanfd[c] \in Fds /\ c \in Held(listenfd, ex.on)
  BY <1>1, LiveFacts
<1>3. /\ Roles(file, listenfd, connfd, isListener, scanfd, rd.on, wr.on, ex.on)
      /\ Bits(wr, scanfd) /\ WatchType(wr) /\ wr.on \subseteq ex.on
  BY <1>1 DEF Matched, TypeOK, Roles
<1>4. ASSUME lonely' = lonely, ended' = {},
             UNCHANGED <<file, tcpsrv, alarms, scanfd, rd, ex, idle>>,
             Bits(wr', scanfd), WatchType(wr'), wr'.on \subseteq ex.on,
             wr_blocked' \in [Children -> BOOLEAN], inherited' \in [Children -> BOOLEAN],
             WatchedWhileBlocked'
      PROVE  IInv'
  <2>1. TypeOK' /\ AlarmIsOwn'
    BY <1>1, <1>4 DEF TypeOK, AlarmIsOwn, Live, tcpsrv, alarms, WatchType
  <2>2. Roles(file, listenfd, connfd, isListener, scanfd, rd.on, wr'.on, ex.on)
    BY <1>3, <1>4 DEF Roles
  <2>3. Matched'
    BY <1>1, <1>4, <2>2 DEF Matched, tcpsrv
  <2> QED
    BY <1>4, <2>1, <2>3 DEF IInv
<1>5. CASE SentAll(c)
  <2>1. /\ wr_blocked' = [wr_blocked EXCEPT ![c] = FALSE]
        /\ inherited' = [inherited EXCEPT ![c] = FALSE]
        /\ UNCHANGED <<file, tcpsrv, alarms, scanfd, rd, ex, idle>>
        /\ lonely' = lonely /\ ended' = {}
    BY <1>5 DEF SentAll, NoNews, Tell
  <2>2. Bits(wr', scanfd) /\ WatchType(wr') /\ wr'.on = wr.on \ {c}
    <3>1. CASE wr_blocked[c]
      <4>1. wr' = Unwatch(wr, c, scanfd[c])
        BY <1>5, <3>1 DEF SentAll
      <4> QED
        BY <1>1, <1>2, <1>3, <4>1, OwnDescriptor, UnwatchBits, WatchTypes
    <3>2. CASE ~wr_blocked[c]
      BY <1>1, <1>3, <1>5, <3>2 DEF SentAll, WatchedWhileBlocked
    <3> QED
      BY <3>1, <3>2
  <2>3. /\ wr_blocked' \in [Children -> BOOLEAN] /\ inherited' \in [Children -> BOOLEAN]
        /\ ~wr_blocked'[c]
        /\ \A d \in Children : d # c => wr_blocked'[d] = wr_blocked[d]
                                        /\ inherited'[d] = inherited[d]
    BY <1>1, <2>1 DEF TypeOK
  <2>4. WatchedWhileBlocked'
    BY <1>1, <1>3, <2>1, <2>2, <2>3 DEF WatchedWhileBlocked, Live, Matched, Roles
  <2> QED
    BY <1>3, <1>4, <2>1, <2>2, <2>3, <2>4
<1>6. CASE SentPart(c)
  <2>1. /\ wr_blocked' = [wr_blocked EXCEPT ![c] = TRUE]
        /\ inherited' = inherited
        /\ UNCHANGED <<file, tcpsrv, alarms, scanfd, rd, ex, idle>>
        /\ lonely' = lonely /\ ended' = {}
    BY <1>6 DEF SentPart, NoNews, Tell
  <2>2. /\ Bits(wr', scanfd) /\ WatchType(wr')
        /\ wr'.on = IF wr_blocked[c] THEN wr.on ELSE wr.on \cup {c}
    <3>1. CASE wr_blocked[c]
      BY <1>3, <1>6, <3>1 DEF SentPart
    <3>2. CASE ~wr_blocked[c]
      <4>1. wr' = Watch(wr, c, scanfd[c]) /\ c \notin wr.on
        BY <1>1, <1>6, <3>2 DEF SentPart, WatchedWhileBlocked
      <4>2. Bits(wr', scanfd) /\ wr'.on = wr.on \cup {c}
        BY <1>3, <4>1, WatchBits
      <4> QED
        BY <1>1, <1>2, <1>3, <3>2, <4>1, <4>2, WatchTypes
    <3> QED
      BY <3>1, <3>2
  <2>3. /\ wr_blocked' \in [Children -> BOOLEAN] /\ inherited' \in [Children -> BOOLEAN]
        /\ wr_blocked'[c]
        /\ \A d \in Children : d # c => wr_blocked'[d] = wr_blocked[d]
    BY <1>1, <2>1 DEF TypeOK
  <2>4. WatchedWhileBlocked'
    BY <1>1, <1>3, <2>1, <2>2, <2>3 DEF WatchedWhileBlocked, Live, Matched, Roles
  <2> QED
    BY <1>1, <1>3, <1>4, <2>1, <2>2, <2>3, <2>4
<1>7. CASE SendFails(c)
  BY <1>7, EndStep DEF SendFails
<1> QED
  BY <1>5, <1>6, <1>7 DEF Transmit

\* The other steps end no session, send nothing and leave the alarms alone: what
\* remains to be shown of them is that all stays matched.
LEMMA Together ==
  ASSUME IInv, lonely' = lonely, ended' = {}, UNCHANGED alarms, wr_blocked' = wr_blocked,
         Types(file', listenfd', connfd', isListener', scanfd'),
         WatchType(rd'), WatchType(wr'), WatchType(ex'), idle' \in Seq(Children),
         Matched', wr'.on = wr.on, ex.on \subseteq ex'.on,
         inherited' \in [Children -> BOOLEAN],
         \A c \in Children : c \in ex.on => inherited'[c] = inherited[c],
         \A c \in Children : c \in ex'.on /\ c \notin ex.on => inherited'[c] = wr_blocked[c]
  PROVE  IInv'
<1>1. TypeOK'
  BY DEF IInv, TypeOK, Types, alarms
<1>2. AlarmIsOwn'
  BY DEF IInv, AlarmIsOwn, Live, alarms
<1>3. WatchedWhileBlocked'
  BY DEF IInv, WatchedWhileBlocked, Live
<1> QED
  BY <1>1, <1>2, <1>3 DEF IInv

LEMMA PauseStep ==
  ASSUME IInv, NEW c \in Children, CMD_CHANNEL_PAUSE(c) \/ CMD_CHANNEL_RESUME(c)
  PROVE  IInv'
<1>1. /\ TypeOK /\ Matched /\ c \in ex.on /\ c \in Objs
      /\ Types(file, listenfd, connfd, isListener, scanfd)
      /\ lonely' = lonely /\ ended' = {}
      /\ UNCHANGED <<file, tcpsrv, wr_blocked, alarms, scanfd, wr, ex, idle, inherited>>
      /\ rd' = Unwatch(rd, c, scanfd[c]) \/ rd' = Watch(rd, c, scanfd[c])
  BY TypesOfFields
     DEF IInv, CMD_CHANNEL_PAUSE, CMD_CHANNEL_RESUME, Live, NoNews, Tell, Objs
<1>2. scanfd[c] \in Fds /\ c \in Held(listenfd, ex.on)
  BY <1>1, LiveFacts DEF Live
<1>3. /\ Roles(file, listenfd, connfd, isListener, scanfd, rd.on, wr.on, ex.on)
      /\ Bits(rd, scanfd) /\ rd.on \subseteq Held(listenfd, ex.on) /\ wr.on \subseteq ex.on
      /\ \A u \in rd.on : scanfd[u] = scanfd[c] => u = c
  BY <1>1, <1>2, OwnDescriptor DEF Matched, Roles
<1>4. Bits(rd', scanfd) /\ (rd'.on = rd.on \ {c} \/ rd'.on = rd.on \cup {c})
  <2>1. CASE rd' = Unwatch(rd, c, scanfd[c])
    BY <1>3, <2>1, UnwatchBits
  <2>2. CASE rd' = Watch(rd, c, scanfd[c])
    BY <1>3, <2>2 DEF Bits, Watch
  <2> QED
    BY <1>1, <2>1, <2>2
<1>5. WatchType(rd') /\ WatchType(wr) /\ WatchType(ex)
  BY <1>1, <1>2, WatchTypes DEF TypeOK
<1>6. Roles(file, listenfd, connfd, isListener, scanfd, rd'.on, wr.on, ex.on)
  <2>1. /\ rd'.on \subseteq Held(listenfd, ex.on)
        /\ \A t \in rd.on : t \in rd'.on \/ t \in ex.on
    BY <1>1, <1>2, <1>3, <1>4
  <2> QED
    BY <1>3, <2>1, SameRoles
<1>7. Matched'
  BY <1>1, <1>4, <1>6 DEF Matched, tcpsrv
<1>8. /\ Types(file', listenfd', connfd', isListener', scanfd') /\ idle' \in Seq(Children)
      /\ inherited' \in [Children -> BOOLEAN]
  BY <1>1 DEF TypeOK, tcpsrv
<1> QED
  BY <1>1, <1>5, <1>7, <1>8, Together

LEMMA PeerStep ==
  ASSUME IInv, NEW fd \in Fds, PeerCloses(fd)
  PROVE  IInv'
<1>1. /\ TypeOK /\ Matched /\ Types(file, listenfd, connfd, isListener, scanfd)
      /\ file[fd] = "up" /\ file' = [file EXCEPT ![fd] = "gone"]
      /\ lonely' = lonely /\ ended' = {}
      /\ UNCHANGED <<tcpsrv, wr_blocked, alarms, pools, idle, inherited>>
  BY TypesOfFields DEF IInv, PeerCloses, NoNews, Tell
<1>2. /\ Roles(file, listenfd, connfd, isListener, scanfd, rd.on, wr.on, ex.on)
      /\ Files(file, listenfd, scanfd, ex.on)
  BY <1>1 DEF Matched
<1>3. /\ Roles(file', listenfd, connfd, isListener, scanfd, rd.on, wr.on, ex.on)
      /\ Files(file', listenfd, scanfd, ex.on)
  BY <1>1, <1>2, PeerMatches
<1>4. Matched'
  BY <1>1, <1>3 DEF Matched, tcpsrv, pools
<1>5. Types(file', listenfd', connfd', isListener', scanfd')
  BY <1>1 DEF Types, tcpsrv, pools
<1>6. /\ WatchType(rd') /\ WatchType(wr') /\ WatchType(ex') /\ idle' \in Seq(Children)
      /\ inherited' \in [Children -> BOOLEAN] /\ wr' = wr /\ ex' = ex /\ inherited' = inherited
  BY <1>1 DEF TypeOK, pools
<1> QED
  BY <1>1, <1>4, <1>5, <1>6, Together

LEMMA NotAcceptedStep ==
  ASSUME IInv, NEW t \in Objs, t \notin ex.on, NotAccepted(t), NoNews,
         UNCHANGED <<alarms, wr_blocked>>
  PROVE  IInv'
<1>1. /\ TypeOK /\ Matched /\ Types(file, listenfd, connfd, isListener, scanfd)
      /\ connfd' = Accipio(t, NoFd)
      /\ lonely' = lonely /\ ended' = {}
      /\ UNCHANGED <<file, idle, listenfd, isListener, pools, inherited, alarms, wr_blocked>>
  BY TypesOfFields DEF IInv, NotAccepted, NoNews, Tell
<1>2. /\ Roles(file, listenfd, connfd, isListener, scanfd, rd.on, wr.on, ex.on)
      /\ rd.on \subseteq Held(listenfd, ex.on) /\ wr.on \subseteq ex.on /\ ex.on \subseteq Children
  BY <1>1 DEF Matched, Roles
<1>3. \A d \in ex.on : connfd'[d] = connfd[d]
  BY <1>1, <1>2 DEF Accipio
<1>4. Roles(file, listenfd, connfd', isListener, scanfd, rd.on, wr.on, ex.on)
  BY <1>2, <1>3, SameRoles
<1>5. Matched'
  BY <1>1, <1>4 DEF Matched, pools
<1>6. Types(file', listenfd', connfd', isListener', scanfd')
  BY <1>1 DEF Types, Accipio, pools
<1>7. /\ WatchType(rd') /\ WatchType(wr') /\ WatchType(ex') /\ idle' \in Seq(Children)
      /\ inherited' \in [Children -> BOOLEAN] /\ wr' = wr /\ ex' = ex /\ inherited' = inherited
  BY <1>1 DEF TypeOK, pools
<1> QED
  BY <1>1, <1>5, <1>6, <1>7, Together

\* parent_begin, for a listener by the roles isl.
LEMMA ParentBeginKeeps ==
  ASSUME NEW isl, NEW q, Types(file, listenfd, connfd, isl, scanfd),
         WatchType(rd), Bits(rd, scanfd), Bits(wr, scanfd), Bits(ex, scanfd),
         Roles(file, listenfd, connfd, isl, scanfd, rd.on, wr.on, ex.on),
         Files(file, listenfd, scanfd, ex.on), Places(isl, ex.on, q),
         NEW t \in Objs, isl[t], ParentBegin(t)
  PROVE  /\ Types(file', listenfd', connfd, isl, scanfd')
         /\ WatchType(rd') /\ Bits(rd', scanfd') /\ Bits(wr, scanfd') /\ Bits(ex, scanfd')
         /\ Roles(file', listenfd', connfd, isl, scanfd', rd'.on, wr.on, ex.on)
         /\ Files(file', listenfd', scanfd', ex.on)
<1>1. CASE UNCHANGED <<file, listenfd, scanfd, rd>>
  BY <1>1
<1>2. CASE ~UNCHANGED <<file, listenfd, scanfd, rd>>
  <2>1. listenfd[t] = NoFd
    BY <1>2 DEF ParentBegin
  <2>2. PICK fd \in Unused :
            /\ file' = [file EXCEPT ![fd] = "listening"]
            /\ listenfd' = [listenfd EXCEPT ![t] = fd]
            /\ scanfd' = [scanfd EXCEPT ![t] = fd]
            /\ rd' = Watch(rd, t, fd)
    BY <1>2 DEF ParentBegin
  <2>3. fd \in Fds /\ file[fd] = "closed"
    BY DEF Unused
  <2>4. /\ Roles([file EXCEPT ![fd] = "listening"], [listenfd EXCEPT ![t] = fd], connfd, isl,
                 [scanfd EXCEPT ![t] = fd], rd.on \cup {t}, wr.on, ex.on)
        /\ Files([file EXCEPT ![fd] = "listening"], [listenfd EXCEPT ![t] = fd],
                 [scanfd EXCEPT ![t] = fd], ex.on)
        /\ t \notin Held(listenfd, ex.on)
    BY <2>1, <2>3, BeginMatches
  <2>5. /\ rd.on \subseteq Held(listenfd, ex.on) /\ wr.on \subseteq ex.on
        /\ ex.on \subseteq Held(listenfd, ex.on) /\ Held(listenfd, ex.on) \subseteq Objs
    BY DEF Roles, Held, Objs
  <2>6. scanfd'[t] = fd /\ \A u \in Held(listenfd, ex.on) : scanfd'[u] = scanfd[u]
    BY <2>2, <2>4, <2>5 DEF Types
  <2>7. /\ \A u \in rd.on : scanfd'[u] = scanfd[u]
        /\ \A u \in wr.on : scanfd'[u] = scanfd[u]
        /\ \A u \in ex.on : scanfd'[u] = scanfd[u]
        /\ t \notin rd.on
    BY <2>4, <2>5, <2>6
  <2>8. Bits(rd', scanfd') /\ rd'.on = rd.on \cup {t}
    BY <2>2, <2>6, <2>7 DEF Bits, Watch
  <2>9. Bits(wr, scanfd') /\ Bits(ex, scanfd')
    BY <2>7, SameBits
  <2>10. Types(file', listenfd', connfd, isl, scanfd') /\ WatchType(rd')
    BY <2>2, <2>3, WatchTypes DEF Types
  <2> QED
    BY <2>2, <2>4, <2>8, <2>9, <2>10
<1> QED
  BY <1>1, <1>2

LEMMA BeginServiceStep ==
  ASSUME IInv, NEW t \in Objs, DMD_BEGIN_SERVICE(t)
  PROVE  IInv'
<1>1. /\ TypeOK /\ Matched /\ Types(file, listenfd, connfd, isListener, scanfd)
      /\ isListener[t] /\ ParentBegin(t) /\ lonely' = lonely /\ ended' = {}
      /\ UNCHANGED <<connfd, isListener, wr_blocked, alarms, wr, ex, idle, inherited>>
  BY TypesOfFields DEF IInv, DMD_BEGIN_SERVICE, NoNews, Tell
<1>2. /\ WatchType(rd) /\ WatchType(wr) /\ WatchType(ex) /\ idle \in Seq(Children)
      /\ inherited \in [Children -> BOOLEAN]
  BY <1>1 DEF TypeOK
<1>3. /\ Bits(rd, scanfd) /\ Bits(wr, scanfd) /\ Bits(ex, scanfd)
      /\ Roles(file, listenfd, connfd, isListener, scanfd, rd.on, wr.on, ex.on)
      /\ Files(file, listenfd, scanfd, ex.on) /\ Places(isListener, ex.on, idle)
  BY <1>1 DEF Matched
<1>4. /\ Types(file', listenfd', connfd, isListener, scanfd')
      /\ WatchType(rd') /\ Bits(rd', scanfd') /\ Bits(wr, scanfd') /\ Bits(ex, scanfd')
      /\ Roles(file', listenfd', connfd, isListener, scanfd', rd'.on, wr.on, ex.on)
      /\ Files(file', listenfd', scanfd', ex.on)
  BY <1>1, <1>2, <1>3, ParentBeginKeeps
<1>5. Matched'
  BY <1>1, <1>3, <1>4 DEF Matched
<1> QED
  BY <1>1, <1>2, <1>4, <1>5, Together

LEMMA NewServiceStep ==
  ASSUME IInv, CMD_NEW_SERVICE
  PROVE  IInv'
<1> DEFINE c == Head(idle)
           i == [isListener EXCEPT ![c] = TRUE]
<1>1. /\ TypeOK /\ Matched /\ Types(file, listenfd, connfd, isListener, scanfd)
      /\ idle # << >> /\ idle' = Tail(idle) /\ isListener' = i /\ ParentBegin(c)
      /\ lonely' = lonely /\ ended' = {}
      /\ UNCHANGED <<connfd, wr_blocked, alarms, wr, ex, inherited>>
  BY TypesOfFields DEF IInv, CMD_NEW_SERVICE, NoNews, Tell
<1>2. /\ WatchType(rd) /\ WatchType(wr) /\ WatchType(ex) /\ idle \in Seq(Children)
      /\ inherited \in [Children -> BOOLEAN]
  BY <1>1 DEF TypeOK
<1>3. /\ Bits(rd, scanfd) /\ Bits(wr, scanfd) /\ Bits(ex, scanfd)
      /\ Roles(file, listenfd, connfd, isListener, scanfd, rd.on, wr.on, ex.on)
      /\ Files(file, listenfd, scanfd, ex.on) /\ Places(isListener, ex.on, idle)
  BY <1>1 DEF Matched
<1>4. /\ Roles(file, listenfd, connfd, i, scanfd, rd.on, wr.on, ex.on)
      /\ Places(i, ex.on, Tail(idle)) /\ c \in Children
  BY <1>1, <1>2, <1>3, NewListenerMatches
<1>5. c \in Objs /\ i[c] /\ Types(file, listenfd, connfd, i, scanfd) /\ Tail(idle) \in Seq(Children)
  BY <1>1, <1>2, <1>4, HeadTailProperties DEF Types, Objs
<1> HIDE DEF c, i
<1>6. /\ Types(file', listenfd', connfd, i, scanfd')
      /\ WatchType(rd') /\ Bits(rd', scanfd') /\ Bits(wr, scanfd') /\ Bits(ex, scanfd')
      /\ Roles(file', listenfd', connfd, i, scanfd', rd'.on, wr.on, ex.on)
      /\ Files(file', listenfd', scanfd', ex.on)
  BY <1>1, <1>2, <1>3, <1>4, <1>5, ParentBeginKeeps
<1>7. Matched'
  BY <1>1, <1>4, <1>6 DEF Matched
<1> QED
  BY <1>1, <1>2, <1>5, <1>6, <1>7, Together

\* end_service of a t that listens, from any values the handler before it left.
LEMMA EndServiceKeeps ==
  ASSUME NEW f, NEW con, NEW scan, NEW r, NEW w, NEW x, NEW q,
         Types(f, listenfd, con, isListener, scan), WatchType(r), q \in Seq(Children),
         Roles(f, listenfd, con, isListener, scan, r.on, w, x),
         Files(f, listenfd, scan, x), Places(isListener, x, q), Bits(r, scan),
         NEW t \in Objs, isListener[t], listenfd[t] # NoFd, EndService(t, r, f, q)
  PROVE  /\ Types(file', listenfd', con, isListener', scan)
         /\ WatchType(rd') /\ idle' \in Seq(Children)
         /\ Roles(file', listenfd', con, isListener', scan, rd'.on, w, x)
         /\ Files(file', listenfd', scan, x) /\ Places(isListener', x, idle')
         /\ Bits(rd', scan)
<1>1. /\ rd' = Unwatch(r, t, listenfd[t])
      /\ file' = [f EXCEPT ![listenfd[t]] = "closed"]
      /\ listenfd' = [listenfd EXCEPT ![t] = NoFd]
      /\ idle' = IF t = Root THEN q ELSE Append(q, t)
      /\ isListener' = [isListener EXCEPT ![t] = t = Root]
  BY DEF EndService
<1>2. /\ Roles([f EXCEPT ![listenfd[t]] = "closed"], [listenfd EXCEPT ![t] = NoFd], con,
               [isListener EXCEPT ![t] = t = Root], scan, r.on \ {t}, w, x)
      /\ Files([f EXCEPT ![listenfd[t]] = "closed"], [listenfd EXCEPT ![t] = NoFd], scan, x)
      /\ t = Root => Places([isListener EXCEPT ![t] = t = Root], x, q)
      /\ t # Root => Places([isListener EXCEPT ![t] = t = Root], x, Append(q, t))
      /\ t \in Held(listenfd, x) /\ scan[t] = listenfd[t] /\ scan[t] \in Fds
  <2>1. t \in Held(listenfd, x) /\ scan[t] = listenfd[t] /\ scan[t] \in Fds
    BY DEF Roles, Listens, Held
  <2>2. /\ Roles([f EXCEPT ![listenfd[t]] = "closed"], [listenfd EXCEPT ![t] = NoFd], con,
                 [isListener EXCEPT ![t] = t = Root], scan, r.on \ {t}, w, x)
        /\ Files([f EXCEPT ![listenfd[t]] = "closed"], [listenfd EXCEPT ![t] = NoFd], scan, x)
    BY EndServiceMatches, ZenonT(30)
  <2>3. /\ t = Root => Places([isListener EXCEPT ![t] = t = Root], x, q)
        /\ t # Root => Places([isListener EXCEPT ![t] = t = Root], x, Append(q, t))
    <3>1. t \notin x /\ isListener \in [Objs -> BOOLEAN]
      BY DEF Roles, Serves, Types
    <3> QED
      BY <3>1, StopPlaces, ZenonT(30)
  <2> QED
    BY <2>1, <2>2, <2>3
<1>3. \A u \in r.on : scan[u] = scan[t] => u = t
  BY <1>2 DEF Roles, Files
<1>4. Bits(rd', scan) /\ rd'.on = r.on \ {t}
  BY <1>1, <1>2, <1>3 DEF Bits, Unwatch
<1>5. WatchType(rd') /\ Types(file', listenfd', con, isListener', scan)
  BY <1>1, <1>2, WatchTypes DEF Types
<1>6. idle' \in Seq(Children)
  BY <1>1, AppendProperties DEF Objs
<1>7. Places(isListener', x, idle')
  <2>1. CASE t = Root
    BY <1>1, <1>2, <2>1
  <2>2. CASE t # Root
    BY <1>1, <1>2, <2>2
  <2> QED
    BY <2>1, <2>2
<1>8. /\ Roles(file', listenfd', con, isListener', scan, rd'.on, w, x)
      /\ Files(file', listenfd', scan, x)
  BY <1>1, <1>2, <1>4
<1> QED
  BY <1>4, <1>5, <1>6, <1>7, <1>8

LEMMA EndServiceStep ==
  ASSUME IInv, NEW t \in Objs, DMD_END_SERVICE(t)
  PROVE  IInv'
<1>1. /\ TypeOK /\ Matched /\ Types(file, listenfd, connfd, isListener, scanfd)
      /\ isListener[t] /\ listenfd[t] # NoFd /\ EndService(t, rd, file, idle)
      /\ lonely' = lonely /\ ended' = {}
      /\ UNCHANGED <<connfd, wr_blocked, alarms, scanfd, wr, ex, inherited>>
  BY TypesOfFields DEF IInv, DMD_END_SERVICE, NoNews, Tell
<1>2. /\ WatchType(rd) /\ WatchType(wr) /\ WatchType(ex) /\ idle \in Seq(Children)
      /\ inherited \in [Children -> BOOLEAN]
  BY <1>1 DEF TypeOK
<1>3. /\ Bits(rd, scanfd) /\ Bits(wr, scanfd) /\ Bits(ex, scanfd)
      /\ Roles(file, listenfd, connfd, isListener, scanfd, rd.on, wr.on, ex.on)
      /\ Files(file, listenfd, scanfd, ex.on) /\ Places(isListener, ex.on, idle)
  BY <1>1 DEF Matched
<1>4. /\ Types(file', listenfd', connfd, isListener', scanfd)
      /\ WatchType(rd') /\ idle' \in Seq(Children) /\ Bits(rd', scanfd)
      /\ Roles(file', listenfd', connfd, isListener', scanfd, rd'.on, wr.on, ex.on)
      /\ Files(file', listenfd', scanfd, ex.on) /\ Places(isListener', ex.on, idle')
  BY <1>1, <1>2, <1>3, EndServiceKeeps
<1>5. Matched'
  BY <1>1, <1>3, <1>4 DEF Matched
<1> QED
  BY <1>1, <1>2, <1>4, <1>5, Together

\* A connection is accepted; a lonely listener then stops.
LEMMA AcceptedStep ==
  ASSUME IInv, NEW t \in Objs, isListener[t], listenfd[t] # NoFd, t \notin ex.on,
         Accepted(t), NoNews, UNCHANGED <<alarms, wr_blocked>>
  PROVE  IInv'
<1>1. /\ TypeOK /\ Matched /\ Types(file, listenfd, connfd, isListener, scanfd)
      /\ idle # << >> /\ wr' = wr /\ lonely' = lonely /\ ended' = {}
      /\ UNCHANGED <<alarms, wr_blocked>>
  BY TypesOfFields DEF IInv, Accepted, NoNews, Tell
<1>2. /\ WatchType(rd) /\ WatchType(wr) /\ WatchType(ex) /\ idle \in Seq(Children)
      /\ inherited \in [Children -> BOOLEAN] /\ wr_blocked \in [Children -> BOOLEAN]
  BY <1>1 DEF TypeOK
<1>3. /\ Bits(rd, scanfd) /\ Bits(wr, scanfd) /\ Bits(ex, scanfd)
      /\ Roles(file, listenfd, connfd, isListener, scanfd, rd.on, wr.on, ex.on)
      /\ Files(file, listenfd, scanfd, ex.on) /\ Places(isListener, ex.on, idle)
  BY <1>1 DEF Matched
<1>4. PICK fd \in Unused :
        LET c == Head(idle)
            r == Watch(rd, c, fd)
            f == [file EXCEPT ![fd] = "up"]
            q == Tail(idle)
        IN  /\ connfd' = [Accipio(t, fd) EXCEPT ![c] = fd]
            /\ scanfd' = [scanfd EXCEPT ![c] = fd]
            /\ ex' = Watch(ex, c, fd)
            /\ inherited' = [inherited EXCEPT ![c] = wr_blocked[c]]
            /\ IF lonely
               THEN EndService(t, r, f, q)
               ELSE rd' = r /\ file' = f /\ idle' = q /\ UNCHANGED <<listenfd, isListener>>
  BY DEF Accepted
<1> DEFINE c == Head(idle)
           r == Watch(rd, c, fd)
           f == [file EXCEPT ![fd] = "up"]
           q == Tail(idle)
<1>5. /\ connfd' = [Accipio(t, fd) EXCEPT ![c] = fd] /\ scanfd' = [scanfd EXCEPT ![c] = fd]
      /\ ex' = Watch(ex, c, fd) /\ inherited' = [inherited EXCEPT ![c] = wr_blocked[c]]
      /\ lonely => EndService(t, r, f, q)
      /\ ~lonely => rd' = r /\ file' = f /\ idle' = q /\ UNCHANGED <<listenfd, isListener>>
  BY <1>4
<1>6. fd \in Fds /\ file[fd] = "closed"
  BY DEF Unused
<1>7. /\ c \in Children /\ c \in Objs /\ q \in Seq(Children)
      /\ c \notin ex.on /\ ~isListener[c]
      /\ Places(isListener, ex.on \cup {c}, q)
  BY <1>1, <1>2, <1>3, LendPlaces, HeadTailProperties DEF Objs
<1>8. connfd'[c] = fd /\ \A d \in ex.on : connfd'[d] = connfd[d]
  <2>1. ex.on \subseteq Children
    BY <1>3 DEF Roles
  <2> QED
    BY <1>5, <1>7, <2>1 DEF Accipio
<1>9. /\ Roles(f, listenfd, connfd', isListener, scanfd', rd.on \cup {c}, wr.on, ex.on \cup {c})
      /\ Files(f, listenfd, scanfd', ex.on \cup {c})
      /\ c \notin Held(listenfd, ex.on)
  <2> HIDE DEF c
  <2>1. /\ rd.on \subseteq Held(listenfd, ex.on) /\ wr.on \subseteq ex.on
        /\ c \notin Held(listenfd, ex.on)
    BY <1>3, <1>7 DEF Roles, Held
  <2>2. Roles(file, listenfd, connfd', isListener, scanfd, rd.on, wr.on, ex.on)
    BY <1>3, <1>8, <2>1, SameRoles
  <2>3. Types(file, listenfd, connfd', isListener, scanfd)
    BY <1>1, <1>5, <1>6, <1>7 DEF Types, Accipio
  <2>4. /\ Roles([file EXCEPT ![fd] = "up"], listenfd, connfd', isListener,
                 [scanfd EXCEPT ![c] = fd], rd.on \cup {c}, wr.on, ex.on \cup {c})
        /\ Files([file EXCEPT ![fd] = "up"], listenfd, [scanfd EXCEPT ![c] = fd],
                 ex.on \cup {c})
    BY <1>3, <1>6, <1>7, <1>8, <2>2, <2>3, AcceptMatches, ZenonT(60)
  <2> QED
    BY <1>5, <2>1, <2>4
<1> HIDE DEF c, q
<1>10. /\ rd.on \subseteq Held(listenfd, ex.on) /\ wr.on \subseteq Held(listenfd, ex.on)
       /\ ex.on \subseteq Held(listenfd, ex.on) /\ Held(listenfd, ex.on) \subseteq Objs
  BY <1>3 DEF Roles, Held, Objs
<1>11. scanfd'[c] = fd /\ \A u \in Held(listenfd, ex.on) : scanfd'[u] = scanfd[u]
  BY <1>1, <1>5, <1>7, <1>9, <1>10 DEF Types
<1>12. /\ Bits(r, scanfd') /\ r.on = rd.on \cup {c}
       /\ Bits(ex', scanfd') /\ ex'.on = ex.on \cup {c}
  BY <1>3, <1>5, <1>9, <1>10, <1>11 DEF Bits, Watch
<1>13. Bits(wr, scanfd')
  BY <1>3, <1>10, <1>11 DEF Bits
<1>14. WatchType(r) /\ WatchType(ex')
  BY <1>2, <1>5, <1>6, <1>7, WatchTypes
<1>15. Types(f, listenfd, connfd', isListener, scanfd')
  BY <1>1, <1>5, <1>6, <1>7 DEF Types, Accipio
<1> HIDE DEF r, f
<1>16. /\ Types(file', listenfd', connfd', isListener', scanfd')
       /\ WatchType(rd') /\ idle' \in Seq(Children) /\ Bits(rd', scanfd')
       /\ Roles(file', listenfd', connfd', isListener', scanfd', rd'.on, wr.on, ex'.on)
       /\ Files(file', listenfd', scanfd', ex'.on) /\ Places(isListener', ex'.on, idle')
  <2>1. /\ Roles(f, listenfd, connfd', isListener, scanfd', r.on, wr.on, ex'.on)
        /\ Files(f, listenfd, scanfd', ex'.on) /\ Places(isListener, ex'.on, q)
    BY <1>7, <1>9, <1>12
  <2>2. CASE lonely
    <3>1. EndService(t, r, f, q)
      BY <1>5, <2>2
    <3> QED
      BY <1>7, <1>12, <1>14, <1>15, <2>1, <3>1, EndServiceKeeps
  <2>3. CASE ~lonely
    BY <1>5, <1>7, <1>12, <1>14, <1>15, <2>1, <2>3
  <2> QED
    BY <2>2, <2>3
<1>17. Matched'
  BY <1>1, <1>12, <1>13, <1>16 DEF Matched
<1>18. /\ inherited' \in [Children -> BOOLEAN]
       /\ \A d \in Children : d \in ex.on => inherited'[d] = inherited[d]
       /\ \A d \in Children : d \in ex'.on /\ d \notin ex.on => inherited'[d] = wr_blocked[d]
  BY <1>2, <1>5, <1>7, <1>12
<1> QED
  BY <1>1, <1>2, <1>12, <1>14, <1>16, <1>17, <1>18, Together

(***************************************************************************)
(* The invariant.                                                          *)
(***************************************************************************)
LEMMA InitIInv ==
  ASSUME Init
  PROVE  IInv
<1>1. Cardinality(Children) \in Nat
  BY ChildrenAssumption, FS_CardinalityType
<1>2. /\ idle \in [1 .. Cardinality(Children) -> Children]
      /\ \A c \in Children : \E a \in DOMAIN idle : idle[a] = c
      /\ \A a, b \in DOMAIN idle : idle[a] = idle[b] => a = b
  BY DEF Init
<1>3. idle \in Seq(Children) /\ DOMAIN idle = 1 .. Len(idle)
  BY <1>1, <1>2
<1>4. TypeOK
  BY <1>3 DEF Init, TypeOK, WatchType, NoneWatched, Objs
<1>5. Held(listenfd, ex.on) = {}
  BY DEF Init, Held, NoneWatched
<1>6. Roles(file, listenfd, connfd, isListener, scanfd, rd.on, wr.on, ex.on)
  BY DEF Init, Roles, NoneWatched, Objs
<1>7. Files(file, listenfd, scanfd, ex.on)
  BY <1>5 DEF Init, Files
<1>8. Bits(rd, scanfd) /\ Bits(wr, scanfd) /\ Bits(ex, scanfd)
  BY DEF Init, Bits, NoneWatched
<1>9. Places(isListener, ex.on, idle)
  <2>1. \A c \in Children : InQ(idle, c) /\ ~isListener[c] /\ c \notin ex.on
    BY <1>2, <1>3, RootAssumption DEF Init, InQ, Objs, NoneWatched
  <2> QED
    BY <1>2, <1>3, <2>1 DEF Places, Distinct
<1>10. AlarmIsOwn /\ WatchedWhileBlocked
  BY DEF Init, AlarmIsOwn, WatchedWhileBlocked, NoneWatched
<1> QED
  BY <1>4, <1>6, <1>7, <1>8, <1>9, <1>10 DEF IInv, Matched

\* An alarm goes off at an object that has a session (its own or, after a
\* release, the next one), at one that has none, or, if it was left behind and
\* finds a stale connfd, astray.
LEMMA TimerStep ==
  ASSUME IInv, NEW c \in Children, TIMER(c)
  PROVE  Kept'
<1>1. /\ TypeOK /\ AlarmIsOwn /\ WatchedWhileBlocked /\ wr_blocked' = wr_blocked
      /\ c \in Objs
  BY DEF IInv, TIMER, Objs
<1>2. CASE Session(c) /\ End(c) /\ Live(c)
  BY <1>1, <1>2, EndStep DEF IInv, Kept
<1>3. CASE Session(c) /\ End(c) /\ ~Live(c)
  <2>1. /\ LetGo(c) /\ ended' = {c} /\ lonely' = lonely
        /\ alarm' = [alarm EXCEPT ![c] = FALSE] /\ left' = left \ {c}
        /\ strayed' = TRUE
    BY <1>3 DEF End, Tell, ClearAlarm
  <2>2. /\ rd' = Unwatch(rd, c, scanfd[c])
        /\ wr' = Unwatch(wr, c, scanfd[c])
        /\ ex' = Unwatch(ex, c, scanfd[c])
        /\ file' = [file EXCEPT ![connfd[c]] = "closed"]
        /\ connfd' = [connfd EXCEPT ![c] = NoFd]
        /\ idle' = Append(idle, c)
        /\ inherited' = [inherited EXCEPT ![c] = FALSE]
        /\ UNCHANGED <<listenfd, isListener, scanfd>>
    BY <2>1 DEF LetGo
  <2>3. /\ wr'.on = wr.on \ {c} /\ ex'.on = ex.on \ {c}
        /\ WatchType(rd') /\ WatchType(wr') /\ WatchType(ex')
    BY <1>1, <2>2 DEF Unwatch, WatchType, TypeOK
  <2>4. TypeOK'
    BY <1>1, <2>1, <2>2, <2>3, AppendProperties DEF TypeOK
  <2>5. AlarmIsOwn'
    BY <1>1, <2>1, <2>3 DEF AlarmIsOwn, Live, TypeOK
  <2>6. WatchedWhileBlocked'
    <3>1. \A d \in Children : d # c => inherited'[d] = inherited[d]
      BY <1>1, <2>2 DEF TypeOK
    <3> QED
      BY <1>1, <2>3, <3>1 DEF WatchedWhileBlocked, Live
  <2> QED
    BY <2>1, <2>4, <2>5, <2>6 DEF Kept
<1>4. CASE ~Session(c)
  <2>1. /\ alarm' = [alarm EXCEPT ![c] = FALSE] /\ left' = left \ {c} /\ NoNews
        /\ UNCHANGED <<file, tcpsrv, wr_blocked, strayed, pools, idle, inherited>>
    BY <1>1, <1>4 DEF TIMER, ClearAlarm
  <2>2. /\ alarm' \in [Children -> BOOLEAN] /\ left' \in SUBSET Children
        /\ \A d \in Children : alarm'[d] => Live(d) \/ d \in left'
    BY <1>1, <2>1 DEF TypeOK, AlarmIsOwn
  <2>3. IInv'
    BY <2>1, <2>2, AlarmStep
  <2> QED
    BY <2>3 DEF IInv, Kept
<1> QED
  BY <1>2, <1>3, <1>4 DEF TIMER

LEMMA SchedulerStep ==
  ASSUME IInv, Scheduler
  PROVE  Kept'
<1>1. TypeOK /\ Matched /\ AlarmIsOwn
  BY DEF IInv
<1>2. ASSUME NEW t \in Objs, FD_PRORD(t) PROVE IInv'
  <2>1. Called(rd, t) /\ wr_blocked' = wr_blocked
    BY <1>2 DEF FD_PRORD
  <2>2. CASE isListener[t]
    <3>1. (NotAccepted(t) \/ Accepted(t)) /\ NoNews /\ UNCHANGED alarms
      BY <1>2, <2>2 DEF FD_PRORD
    <3>2. listenfd[t] # NoFd /\ t \notin ex.on
      BY <1>1, <2>1, <2>2, CalledListens
    <3> QED
      BY <2>1, <2>2, <3>1, <3>2, NotAcceptedStep, AcceptedStep
  <2>3. CASE ~isListener[t]
    <3>1. t \in Children /\ Live(t) /\ Received(t)
      BY <1>1, <1>2, <2>1, <2>3, CalledIsLive DEF FD_PRORD
    <3>2. CASE PeerIsThere(t)
      <4>1. /\ NoNews
            /\ UNCHANGED <<file, tcpsrv, alarm, left, strayed, pools, idle, inherited>>
        BY <3>1, <3>2 DEF Received, alarms
      <4>2. /\ alarm' \in [Children -> BOOLEAN] /\ left' \in SUBSET Children
            /\ \A c \in Children : alarm'[c] => Live(c) \/ c \in left'
        BY <1>1, <4>1 DEF TypeOK, AlarmIsOwn
      <4> QED
        BY <2>1, <4>1, <4>2, AlarmStep
    <3>3. CASE ~PeerIsThere(t)
      BY <2>1, <3>1, <3>3, EndStep DEF Received
    <3> QED
      BY <3>2, <3>3
  <2> QED
    BY <2>2, <2>3
<1>3. ASSUME NEW c \in Children, FD_PROWR(c) PROVE IInv'
  <2>1. Live(c) /\ Transmit(c)
    BY <1>1, <1>3 DEF FD_PROWR, Called, Matched, Roles, Live
  <2> QED
    BY <2>1, TransmitStep
<1>4. ASSUME NEW c \in Children, FD_PROEX(c) PROVE IInv'
  <2>1. Live(c) /\ End(c) /\ wr_blocked' = wr_blocked
    BY <1>4 DEF FD_PROEX, Called, Live
  <2> QED
    BY <2>1, EndStep
<1>5. IInv' => Kept'
  BY DEF IInv, Kept
<1> QED
  BY <1>2, <1>3, <1>4, <1>5, TimerStep DEF Scheduler

LEMMA UsersStep ==
  ASSUME IInv, Users
  PROVE  IInv'
<1>1. TypeOK /\ Matched /\ AlarmIsOwn
  BY DEF IInv
<1>2. ASSUME NEW c \in Children, PRO_TBUF(c) PROVE IInv'
  BY <1>2, TransmitStep DEF PRO_TBUF
<1>3. ASSUME NEW c \in Children, DMD_END_SESSION(c) PROVE IInv'
  BY <1>3, EndStep DEF DMD_END_SESSION
<1>4. ASSUME NEW c \in Children, CMD_RELEASE_SESSION(c) PROVE IInv'
  <2>1. /\ Live(c) /\ LetGo(c) /\ wr_blocked' = wr_blocked /\ lonely' = lonely
        /\ ended' \in SUBSET Children /\ alarm' = alarm /\ strayed' = strayed
        /\ left' = IF alarm[c] THEN left \cup {c} ELSE left
    BY <1>4 DEF CMD_RELEASE_SESSION, NoNews, Tell
  <2>2. /\ alarm' \in [Children -> BOOLEAN] /\ left' \in SUBSET Children
        /\ strayed' \in BOOLEAN
        /\ \A d \in Children :
              alarm'[d] => d \in left' \/ (alarm[d] /\ d # c /\ d \notin left)
    BY <1>1, <2>1 DEF TypeOK
  <2> QED
    BY <2>1, <2>2, LetGoStep
<1>5. ASSUME NEW c \in Children, CMD_TIMER_TO_RELEASE(c) PROVE IInv'
  <2>1. /\ Live(c) /\ alarm' = [alarm EXCEPT ![c] = TRUE] /\ left' = left \ {c} /\ NoNews
        /\ UNCHANGED <<file, tcpsrv, wr_blocked, strayed, pools, idle, inherited>>
    BY <1>5 DEF CMD_TIMER_TO_RELEASE
  <2>2. /\ alarm' \in [Children -> BOOLEAN] /\ left' \in SUBSET Children
        /\ \A d \in Children : alarm'[d] => Live(d) \/ d \in left'
    BY <1>1, <2>1 DEF TypeOK, AlarmIsOwn
  <2> QED
    BY <2>1, <2>2, AlarmStep
<1>6. ASSUME NEW c \in Children, CMD_CHANNEL_PAUSE(c) \/ CMD_CHANNEL_RESUME(c) PROVE IInv'
  BY <1>6, PauseStep
<1>7. ASSUME NEW t \in Objs, DMD_BEGIN_SERVICE(t) PROVE IInv'
  BY <1>7, BeginServiceStep
<1>8. ASSUME NEW t \in Objs, DMD_END_SERVICE(t) PROVE IInv'
  BY <1>8, EndServiceStep
<1> QED
  BY <1>2, <1>3, <1>4, <1>5, <1>6, <1>7, <1>8, NewServiceStep DEF Users

\* While the server is followed, it is the whole invariant that holds.
LEMMA FollowedIsSound == Kept /\ Followed => IInv
  BY DEF Kept, Followed, IInv

LEMMA Moves ==
  ASSUME Next, ~GivenUp
  PROVE  Followed
  BY DEF Next, Scheduler, Users, FD_PRORD, FD_PROWR, FD_PROEX, TIMER, PRO_TBUF,
         DMD_END_SESSION, CMD_RELEASE_SESSION, CMD_TIMER_TO_RELEASE, CMD_CHANNEL_PAUSE,
         CMD_CHANNEL_RESUME, CMD_NEW_SERVICE, DMD_BEGIN_SERVICE, DMD_END_SERVICE, PeerCloses

LEMMA StepKept ==
  ASSUME Kept, [Next]_vars
  PROVE  Kept'
<1>1. CASE UNCHANGED vars
  BY <1>1 DEF vars, tcpsrv, pools, alarms, Kept, TypeOK, WatchType, Matched, AlarmIsOwn,
              WatchedWhileBlocked, Live
<1>2. CASE Next /\ ~GivenUp
  <2>1. IInv
    BY <1>2, Moves, FollowedIsSound
  <2>2. IInv' => Kept'
    BY DEF IInv, Kept
  <2> QED
    BY <1>2, <2>1, <2>2, SchedulerStep, UsersStep, PeerStep DEF Next
<1> QED
  BY <1>1, <1>2 DEF GivenUp

\* Everything below follows from it.
THEOREM Invariance == Spec => []Kept
<1>1. Init => Kept
  BY InitIInv DEF IInv, Kept
<1>2. Kept /\ [Next]_vars => Kept'
  BY StepKept
<1> QED
  BY <1>1, <1>2, PTL DEF Spec

(***************************************************************************)
(* What it gives.                                                          *)
(***************************************************************************)
\* The types of the server's state.
THEOREM TypeCorrect == Spec => []TypeOK
BY Invariance, PTL DEF Kept

\* A watched criptor has a descriptor that is open and its own.
THEOREM WatchedAreOpen == Spec => []WatchedIsOpen
<1>1. Kept => WatchedIsOpen
  <2> SUFFICES ASSUME IInv, NEW pool \in {rd, wr, ex}
               PROVE  /\ pool.bits = {scanfd[t] : t \in pool.on}
                      /\ \A t \in pool.on :
                            /\ scanfd[t] = IF isListener[t] THEN listenfd[t] ELSE connfd[t]
                            /\ file[scanfd[t]] # "closed"
    BY FollowedIsSound DEF WatchedIsOpen, Followed
  <2>1. Matched
    BY DEF IInv
  <2>2. Bits(pool, scanfd)
    BY <2>1 DEF Matched
  <2>3. pool.on \subseteq Held(listenfd, ex.on)
    BY <2>1 DEF Matched, Roles, Held, Objs
  <2>4. ASSUME NEW t \in Held(listenfd, ex.on)
        PROVE  /\ scanfd[t] = IF isListener[t] THEN listenfd[t] ELSE connfd[t]
               /\ file[scanfd[t]] # "closed"
    <3>1. CASE listenfd[t] # NoFd
      BY <2>1, <3>1 DEF Matched, Roles, Listens, Held
    <3>2. CASE listenfd[t] = NoFd
      BY <2>1, <3>2 DEF Matched, Roles, Serves, Held
    <3> QED
      BY <3>1, <3>2
  <2> QED
    BY <2>2, <2>3, <2>4 DEF Bits
<1> QED
  BY <1>1, Invariance, PTL

\* No open descriptor is lost, and none is kept by two.
THEOREM FilesAreKept == Spec => []EachFileHasItsKeeper
<1>1. Kept => EachFileHasItsKeeper
  <2> SUFFICES ASSUME IInv, NEW fd \in Fds, file[fd] # "closed"
               PROVE  Cardinality({t \in Objs : listenfd[t] = fd}
                                  \cup {c \in Children : Live(c) /\ connfd[c] = fd}) = 1
    BY FollowedIsSound DEF EachFileHasItsKeeper, Followed
  <2> DEFINE K == {t \in Objs : listenfd[t] = fd}
                  \cup {c \in Children : Live(c) /\ connfd[c] = fd}
  <2>1. Matched
    BY DEF IInv
  <2>2. PICK t \in Held(listenfd, ex.on) : scanfd[t] = fd
    BY <2>1 DEF Matched, Files
  <2>3. t \in K
    <3>1. CASE listenfd[t] # NoFd
      BY <2>1, <2>2, <3>1 DEF Matched, Roles, Listens, Held
    <3>2. CASE listenfd[t] = NoFd
      BY <2>1, <2>2, <3>2 DEF Matched, Roles, Serves, Held, Live
    <3> QED
      BY <3>1, <3>2
  <2>4. ASSUME NEW u \in K PROVE u = t
    <3>1. u \in Held(listenfd, ex.on) /\ scanfd[u] = fd
      <4>1. CASE u \in Objs /\ listenfd[u] = fd
        BY <2>1, <4>1, FdsAssumption DEF Matched, Roles, Listens, Held
      <4>2. CASE u \in Children /\ Live(u) /\ connfd[u] = fd
        BY <2>1, <4>2 DEF Matched, Roles, Serves, Held, Live, Objs
      <4> QED
        BY <4>1, <4>2
    <3> QED
      BY <2>1, <2>2, <3>1 DEF Matched, Files
  <2>5. K = {t}
    BY <2>3, <2>4
  <2> QED
    BY <2>5, FS_Singleton
<1> QED
  BY <1>1, Invariance, PTL

\* No object is lost, and none is lent twice.
THEOREM ObjectsHaveTheirPlace == Spec => []EachObjectHasItsPlace
<1>1. Kept => EachObjectHasItsPlace
  <2> SUFFICES ASSUME IInv PROVE EachObjectHasItsPlace
    BY FollowedIsSound DEF EachObjectHasItsPlace, Followed
  <2>1. /\ Distinct(idle)
        /\ \A c \in Children : IF InQ(idle, c) THEN c \notin ex.on /\ ~isListener[c]
                                               ELSE c \in ex.on \/ isListener[c]
        /\ \A c \in Children : c \in ex.on => ~isListener[c]
        /\ \A c \in Children : isListener[c] \in BOOLEAN
    BY DEF IInv, TypeOK, Matched, Places, Roles, Serves, Objs
  <2>2. \A c \in Children :
            IF InQ(idle, c) THEN ~Live(c) /\ ~isListener[c] ELSE Live(c) # isListener[c]
    BY <2>1 DEF Live
  <2> QED
    BY <2>1, <2>2 DEF EachObjectHasItsPlace, InQ, Distinct
<1> QED
  BY <1>1, Invariance, PTL

\* An alarm that goes off finds the session it was set for, unless a release of
\* that session left it behind.
THEOREM AlarmsAreOwn == Spec => []AlarmIsOwn
BY Invariance, PTL DEF Kept

\* An incomplete send is waited for, and for no longer than it is incomplete.
THEOREM BlockedAreWatched == Spec => []WatchedWhileBlocked
BY Invariance, PTL DEF Kept

\* The safety half of GoneIsNoticed: a session that is not paused is called in
\* any turn in which its connection is readable, whoever had its object or its
\* descriptor before, and the call that finds the peer gone ends it and lets the
\* object go (Tcpsrvuna.cpp:188-216,973-984).
GoneIsEnded ==
    /\ [](Followed => \A c \in Children :
             Live(c) /\ c \in rd.on => Called(rd, c) /\ ~isListener[c])
    /\ [][\A c \in Children :
             Live(c) /\ ~PeerIsThere(c) /\ FD_PRORD(c) => ~Live(c)' /\ c \in ended']_vars

THEOREM GoneAreEnded == Spec => GoneIsEnded
<1>1. Kept => (Followed => \A c \in Children :
                  Live(c) /\ c \in rd.on => Called(rd, c) /\ ~isListener[c])
  BY FollowedIsSound, LiveFacts DEF IInv, Matched, Bits, Called, Session
<1>2. Kept /\ [Next]_vars =>
        [\A c \in Children :
            Live(c) /\ ~PeerIsThere(c) /\ FD_PRORD(c) => ~Live(c)' /\ c \in ended']_vars
  <2> SUFFICES ASSUME IInv, NEW c \in Children, Live(c), ~PeerIsThere(c), FD_PRORD(c)
               PROVE  ~Live(c)' /\ c \in ended'
    BY FollowedIsSound DEF FD_PRORD
  <2>1. Session(c)
    BY LiveFacts DEF IInv
  <2>2. End(c)
    BY <2>1 DEF FD_PRORD, Received, Session
  <2>3. LetGo(c) /\ ended' = {c}
    BY <2>1, <2>2 DEF End, Tell
  <2> QED
    BY <2>3 DEF LetGo, Unwatch, Live
<1> QED
  BY <1>1, <1>2, Invariance, PTL DEF Spec, GoneIsEnded

\* Of a session that ends otherwise than by release the users are told.
LEMMA EndIsTold ==
  ASSUME IInv, NEW c \in Children, Live(c), NEW d \in Children, Live(d), End(d),
         ~Live(c)' \/ connfd'[c] # connfd[c]
  PROVE  c \in ended'
<1>1. LetGo(d) /\ ended' = {d}
  BY LiveFacts DEF End, Tell, IInv
<1>2. ex'.on = ex.on \ {d} /\ connfd' = [connfd EXCEPT ![d] = NoFd]
  BY <1>1 DEF LetGo, Unwatch
<1> QED
  BY <1>1, <1>2 DEF Live, IInv, TypeOK

LEMMA TransmitIsTold ==
  ASSUME IInv, NEW c \in Children, Live(c), NEW d \in Children, Live(d), Transmit(d),
         ~Live(c)' \/ connfd'[c] # connfd[c]
  PROVE  c \in ended'
<1>1. CASE SentAll(d)
  BY <1>1 DEF SentAll, Live, tcpsrv
<1>2. CASE SentPart(d)
  BY <1>2 DEF SentPart, Live, tcpsrv
<1>3. CASE SendFails(d)
  BY <1>3, EndIsTold DEF SendFails
<1> QED
  BY <1>1, <1>2, <1>3 DEF Transmit

THEOREM UsersAreTold == Spec => NoSilentEnd
<1>1. ASSUME Kept, [Next]_vars, NEW c \in Children, Live(c),
             ~Live(c)' \/ connfd'[c] # connfd[c], ~(c \in ended')
      PROVE  CMD_RELEASE_SESSION(c)
  <2> IInv
    BY <1>1, Moves, FollowedIsSound DEF GivenUp, vars, tcpsrv, pools, Live
  <2>1. TypeOK /\ Matched /\ AlarmIsOwn
    BY DEF IInv
  <2>2. ASSUME ex' = ex, connfd' = connfd PROVE FALSE
    BY <1>1, <2>2 DEF Live
  <2>3. CASE Scheduler
    <3>1. ASSUME NEW t \in Objs, FD_PRORD(t) PROVE FALSE
      <4>1. Called(rd, t)
        BY <3>1 DEF FD_PRORD
      <4>2. CASE isListener[t]
        <5>1. t \notin ex.on /\ c # t
          BY <1>1, <2>1, <4>1, <4>2, CalledListens DEF Live
        <5>2. CASE NotAccepted(t)
          BY <1>1, <5>1, <5>2 DEF NotAccepted, Accipio, Live, pools
        <5>3. CASE Accepted(t)
          <6>1. /\ idle \in Seq(Children) /\ idle # << >> /\ Places(isListener, ex.on, idle)
            BY <2>1, <5>3 DEF TypeOK, Matched, Accepted
          <6>2. Head(idle) \notin ex.on /\ Head(idle) \in Children
            BY <6>1, LendPlaces
          <6>3. \E fd \in Unused : /\ connfd' = [Accipio(t, fd) EXCEPT ![Head(idle)] = fd]
                                   /\ ex' = Watch(ex, Head(idle), fd)
            BY <5>3 DEF Accepted
          <6>4. connfd'[c] = connfd[c] /\ c \in ex'.on
            BY <1>1, <5>1, <6>2, <6>3 DEF Accipio, Watch, Live
          <6> QED
            BY <1>1, <6>4 DEF Live
        <5> QED
          BY <3>1, <4>2, <5>2, <5>3 DEF FD_PRORD
      <4>3. CASE ~isListener[t]
        <5>1. t \in Children /\ Live(t) /\ Received(t)
          BY <2>1, <3>1, <4>1, <4>3, CalledIsLive DEF FD_PRORD
        <5>2. CASE PeerIsThere(t)
          BY <2>2, <5>1, <5>2 DEF Received, tcpsrv, pools
        <5>3. CASE ~PeerIsThere(t)
          BY <1>1, <5>1, <5>3, EndIsTold DEF Received
        <5> QED
          BY <5>2, <5>3
      <4> QED
        BY <4>2, <4>3
    <3>2. ASSUME NEW d \in Children, FD_PROWR(d) PROVE FALSE
      <4>1. Live(d) /\ Transmit(d)
        BY <2>1, <3>2 DEF FD_PROWR, Called, Matched, Roles, Live
      <4> QED
        BY <1>1, <4>1, TransmitIsTold
    <3>3. ASSUME NEW d \in Children, FD_PROEX(d) PROVE FALSE
      <4>1. Live(d) /\ End(d)
        BY <3>3 DEF FD_PROEX, Called, Live
      <4> QED
        BY <1>1, <4>1, EndIsTold
    <3>4. ASSUME NEW d \in Children, TIMER(d) PROVE FALSE
      <4>1. CASE ~Session(d)
        BY <2>2, <3>4, <4>1 DEF TIMER, tcpsrv, pools
      <4>2. CASE Session(d) /\ Live(d)
        BY <1>1, <3>4, <4>2, EndIsTold DEF TIMER
      <4>3. CASE Session(d) /\ ~Live(d)
        <5>1. LetGo(d) /\ c # d
          BY <1>1, <3>4, <4>3 DEF TIMER, End
        <5>2. ex'.on = ex.on \ {d} /\ connfd' = [connfd EXCEPT ![d] = NoFd]
          BY <5>1 DEF LetGo, Unwatch
        <5> QED
          BY <1>1, <2>1, <5>1, <5>2 DEF Live, TypeOK
      <4> QED
        BY <4>1, <4>2, <4>3
    <3> QED
      BY <2>3, <3>1, <3>2, <3>3, <3>4 DEF Scheduler
  <2>4. CASE Users
    <3>1. ASSUME NEW d \in Children, PRO_TBUF(d) PROVE FALSE
      BY <1>1, <3>1, TransmitIsTold DEF PRO_TBUF
    <3>2. ASSUME NEW d \in Children, DMD_END_SESSION(d) PROVE FALSE
      BY <1>1, <3>2, EndIsTold DEF DMD_END_SESSION
    <3>3. ASSUME NEW d \in Children, CMD_RELEASE_SESSION(d), d # c PROVE FALSE
      <4>1. ex'.on = ex.on \ {d} /\ connfd' = [connfd EXCEPT ![d] = NoFd]
        BY <3>3 DEF CMD_RELEASE_SESSION, LetGo, Unwatch
      <4> QED
        BY <1>1, <2>1, <3>3, <4>1 DEF Live, TypeOK
    <3>4. ASSUME NEW d \in Children,
                 CMD_TIMER_TO_RELEASE(d) \/ CMD_CHANNEL_PAUSE(d) \/ CMD_CHANNEL_RESUME(d)
          PROVE  FALSE
      BY <2>2, <3>4 DEF CMD_TIMER_TO_RELEASE, CMD_CHANNEL_PAUSE, CMD_CHANNEL_RESUME, tcpsrv,
                        pools
    <3>5. CASE CMD_NEW_SERVICE
      BY <2>2, <3>5 DEF CMD_NEW_SERVICE
    <3>6. ASSUME NEW t \in Objs, DMD_BEGIN_SERVICE(t) \/ DMD_END_SERVICE(t) PROVE FALSE
      BY <2>2, <3>6 DEF DMD_BEGIN_SERVICE, DMD_END_SERVICE
    <3> QED
      BY <2>4, <3>1, <3>2, <3>3, <3>4, <3>5, <3>6 DEF Users
  <2>5. CASE \E fd \in Fds : PeerCloses(fd)
    BY <2>2, <2>5 DEF PeerCloses, tcpsrv, pools
  <2>6. CASE UNCHANGED vars \/ GivenUp
    BY <2>2, <2>6 DEF GivenUp, vars, tcpsrv, pools
  <2> QED
    BY <1>1, <2>3, <2>4, <2>5, <2>6 DEF Next
<1>2. Kept /\ [Next]_vars
      => [\A c \in Children :
            Live(c) /\ (~Live(c)' \/ connfd'[c] # connfd[c])
            => c \in ended' \/ CMD_RELEASE_SESSION(c)]_vars
  BY <1>1
<1> QED
  BY <1>2, Invariance, PTL DEF Spec, NoSilentEnd
=============================================================================
