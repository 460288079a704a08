---------------------------- MODULE DevicesProofs ----------------------------
(***************************************************************************)
(* Proofs about a machine's devices: the drivers selected for them from any*)
(* pack (PackSelection), the passes that load those (DriverPasses), and the*)
(* bays of the disks (DiskBays): a build's bays stay from boot to boot, the*)
(* plan is honoured, the loader is in no bay, and the port map puts every  *)
(* disk where it was placed.                                               *)
(***************************************************************************)
EXTENDS PackSelection, DriverPasses, DiskBays, ListProofs

(***************************************************************************)
(* Drivers picked from a pack. A walk over the dependencies, level by      *)
(* level: what holds of it between two calls (Sound), what a call changes  *)
(* (Onward), and that a call which the limit cuts off stands at the end of *)
(* a trail of modules longer than the limit.                               *)
(***************************************************************************)
Entered(idx, call, name, st) ==
  LET deps == Along(idx[name].deps, call, [st EXCEPT !.seen = @ \cup {name}])
  IN  [deps EXCEPT !.out = Append(@, name)]

\* Modules with lists of dependencies.
HasDeps(idx, M) == M \subseteq Nat /\ \A m \in M : idx[m].deps \in Seq(Nat)
Calls(M) == Makes(Nat, Walked(M))

LEMMA EnteredTyped ==
  ASSUME NEW idx, NEW M, HasDeps(idx, M), NEW call \in Calls(M), NEW name \in M, NEW st \in Walked(M)
  PROVE  Entered(idx, call, name, st) \in Walked(M)
<1>1. [st EXCEPT !.seen = @ \cup {name}] \in Walked(M)
  BY DEF Walked
<1>2. Along(idx[name].deps, call, [st EXCEPT !.seen = @ \cup {name}]) \in Walked(M)
  <2>1. idx[name].deps \in Seq(Nat)
    BY DEF HasDeps
  <2> DEFINE list == idx[name].deps
             s == [st EXCEPT !.seen = @ \cup {name}]
  <2>2. list \in Seq(Nat) /\ s \in Walked(M) /\ call \in Makes(Nat, Walked(M))
    BY <1>1, <2>1 DEF Calls
  <2> HIDE DEF list, s
  <2>3. PICK after : Stages(after, Walked(M), list, call, s) /\ Along(list, call, s) = after[Len(list)]
    BY <2>2, AlongIs
  <2>4. Along(list, call, s) \in Walked(M)
    BY <2>2, <2>3 DEF Stages
  <2> QED
    BY <2>4 DEF list, s
<1>3. PICK w \in Walked(M) : w = Along(idx[name].deps, call, [st EXCEPT !.seen = @ \cup {name}])
  BY <1>2
<1>4. [w EXCEPT !.out = Append(@, name)] \in Walked(M)
  <2>1. PICK S \in SUBSET M, q \in Seq(M) : w = [seen |-> S, out |-> q]
    BY DEF Walked
  <2>2. Append(q, name) \in Seq(M)
    OBVIOUS
  <2>3. [w EXCEPT !.out = Append(@, name)] = [seen |-> S, out |-> Append(q, name)]
    BY <2>1
  <2> QED
    BY <2>2, <2>3 DEF Walked
<1> QED
  BY <1>3, <1>4 DEF Entered

\* A walk, level by level.
ByLevel(g, idx, M, levels) ==
  /\ g \in [0..levels -> Calls(M)]
  /\ \A name \in Nat, st \in Walked(M) : g[0][name][st] = st
  /\ \A k \in 1..levels : \A name \in Nat, st \in Walked(M) :
       g[k][name][st] = IF name \in st.seen \/ name \notin M THEN st
                        ELSE Entered(idx, g[k - 1], name, st)

LEMMA WalkIs ==
  ASSUME NEW idx, NEW M, HasDeps(idx, M), NEW levels \in Nat
  PROVE  \E g : ByLevel(g, idx, M, levels) /\ Walk(idx, M, levels) = g[levels]
<1> DEFINE W == Walked(M)
           C == Calls(M)
           One(c) == [name \in Nat |-> [st \in W |->
                        IF name \in st.seen \/ name \notin M THEN st ELSE Entered(idx, c, name, st)]]
           F == [c \in C |-> One(c)]
           base == [name \in Nat |-> [st \in W |-> st]]
           Level(h, left) == [name \in Nat |-> [st \in W |->
                        IF left = 0 \/ name \in st.seen \/ name \notin M THEN st
                        ELSE Entered(idx, h[left - 1], name, st)]]
           P(h) == h = [left \in 0..levels |-> Level(h, left)]
<1>1. \A c \in C : One(c) \in C
  BY EnteredTyped DEF Calls, Makes
<1>2. (\A c \in C : F[c] \in C /\ F[c] = One(c)) /\ base \in C
  BY <1>1 DEF Calls, Makes
<1>3. PICK g : g \in [0..levels -> C] /\ g[0] = base /\ \A k \in 1..levels : g[k] = F[g[k - 1]]
  <2> HIDE DEF C, F, base, One
  <2>1. \E g : Upwards(g, C, F, base, levels)
    BY <1>2, UpwardsExist
  <2> QED
    BY <2>1 DEF Upwards
<1>4. \A k \in 1..levels : g[k] = One(g[k - 1])
  <2> HIDE DEF C, One, F
  <2>1. \A k \in 1..levels : g[k - 1] \in C
    BY <1>3
  <2> QED
    BY <1>2, <1>3, <2>1
<1>5. P(g)
  <2>1. \A left \in 0..levels : g[left] = Level(g, left)
    <3> SUFFICES ASSUME NEW left \in 0..levels PROVE g[left] = Level(g, left)
      OBVIOUS
    <3>1. CASE left = 0
      <4>1. Level(g, left) = base
        BY <3>1
      <4> QED
        BY <1>3, <3>1, <4>1
    <3>2. CASE left # 0
      <4>1. Level(g, left) = One(g[left - 1])
        BY <3>2
      <4>2. left \in 1..levels
        BY <3>2
      <4> HIDE DEF Level, One
      <4> QED
        BY <1>4, <4>1, <4>2
    <3> QED
      BY <3>1, <3>2
  <2> HIDE DEF Level
  <2> QED
    BY <1>3, <2>1
<1> DEFINE c == CHOOSE h : P(h)
<1>6. P(c)
  <2> HIDE DEF P
  <2> QED
    BY <1>5
<1>7. Walk(idx, M, levels) = c[levels]
  BY DEF Walk, Entered
<1> HIDE DEF c
<1>8. \A left \in 0..levels : c[left] = Level(c, left)
  <2> HIDE DEF Level
  <2> QED
    BY <1>6
<1>9. c[0] = base
  <2>1. c[0] = Level(c, 0)
    <3>1. 0 \in 0..levels
      OBVIOUS
    <3> HIDE DEF Level
    <3> QED
      BY <1>8, <3>1
  <2> QED
    BY <2>1
<1>10. \A k \in 1..levels : c[k] = One(c[k - 1])
  <2> SUFFICES ASSUME NEW k \in 1..levels PROVE c[k] = One(c[k - 1])
    OBVIOUS
  <2>1. c[k] = Level(c, k)
    <3> HIDE DEF Level
    <3> QED
      BY <1>8
  <2>2. k # 0
    OBVIOUS
  <2>3. Level(c, k) = One(c[k - 1])
    BY <2>2
  <2> QED
    BY <2>1, <2>3
<1> HIDE DEF One, Level, F
<1>11. ASSUME NEW k \in 0..levels PROVE c[k] \in C
  <2> DEFINE V == {n \in Nat : n <= levels => c[n] \in C}
  <2>1. 0 \in V
    BY <1>2, <1>9
  <2>2. ASSUME NEW n \in Nat, n \in V PROVE n + 1 \in V
    <3> SUFFICES ASSUME n + 1 <= levels PROVE c[n + 1] \in C
      OBVIOUS
    <3>1. c[n] \in C /\ n + 1 \in 1..levels /\ (n + 1) - 1 = n
      BY <2>2
    <3>2. c[n + 1] = One(c[n])
      BY <1>10, <3>1
    <3> HIDE DEF C
    <3> QED
      BY <1>1, <3>1, <3>2
  <2>3. k \in V
    <3>1. k \in Nat
      OBVIOUS
    <3> HIDE DEF V
    <3> QED
      BY <2>1, <2>2, <3>1, Induction
  <2> QED
    BY <2>3
<1>12. c \in [0..levels -> C]
  <2> HIDE DEF C
  <2> QED
    BY <1>6, <1>11
<1>13. \A name \in Nat, st \in W : c[0][name][st] = st
  BY <1>9
<1>14. \A k \in 1..levels : \A name \in Nat, st \in W :
          c[k][name][st] = IF name \in st.seen \/ name \notin M THEN st ELSE Entered(idx, c[k - 1], name, st)
  <2> SUFFICES ASSUME NEW k \in 1..levels, NEW name \in Nat, NEW st \in W
               PROVE  c[k][name][st] = IF name \in st.seen \/ name \notin M THEN st ELSE Entered(idx, c[k - 1], name, st)
    OBVIOUS
  <2>1. c[k] = One(c[k - 1])
    BY <1>10
  <2> HIDE DEF W
  <2> QED
    BY <2>1 DEF One
<1>15. ByLevel(c, idx, M, levels)
  BY <1>12, <1>13, <1>14 DEF ByLevel
<1> QED
  BY <1>7, <1>15

(***************************************************************************)
(* What a walk leaves, whatever is walked.                                 *)
(***************************************************************************)

\* d is another of the modules that m has in its list.
Leads(idx, M, m, d) == m \in M /\ d \in M /\ d # m /\ \E j \in 1..Len(idx[m].deps) : idx[m].deps[j] = d

\* Different modules, each leading to the next.
Trail(idx, M, p, n) ==
  /\ p \in [1..n -> M]
  /\ \A i, j \in 1..n : p[i] = p[j] => i = j
  /\ \A i \in 1..n - 1 : Leads(idx, M, p[i], p[i + 1])

\* No trail is too long for so many levels; no set of modules leads round in itself.
Reaches(idx, M, levels) == \A p : ~Trail(idx, M, p, levels + 1)
NoLoop(idx, M) == \A S \in SUBSET M : S # {} => \E m \in S : \A d \in S : ~Leads(idx, M, m, d)

IsOut(st, m) == \E i \in 1..Len(st.out) : st.out[i] = m

\* The modules whose calls are under way: seen, and not out yet.
UnderWay(st) == {m \in st.seen : ~IsOut(st, m)}
OnTrail(p, n) == {p[i] : i \in 1..n}

Sound(idx, M, levels, st) ==
  /\ st \in Walked(M)
  /\ \A i, j \in 1..Len(st.out) : st.out[i] = st.out[j] => i = j
  /\ \A i \in 1..Len(st.out) : st.out[i] \in st.seen
  /\ Reaches(idx, M, levels) =>
       \A i \in 1..Len(st.out), d \in M : Leads(idx, M, st.out[i], d) => d \in st.seen
  /\ Reaches(idx, M, levels) /\ NoLoop(idx, M) =>
       \A i \in 1..Len(st.out), d \in M :
          Leads(idx, M, st.out[i], d) => \E k \in 1..i - 1 : st.out[k] = d

\* A set that leads nowhere else.
Shut(idx, M, S) == \A m \in S, d \in M : Leads(idx, M, m, d) => d \in S

\* One state of a walk and a later one, with what was walked in between.
Onward(idx, M, levels, st, new, names) ==
  /\ st.seen \subseteq new.seen
  /\ \A m \in M : IsOut(st, m) => IsOut(new, m)
  /\ UnderWay(new) = UnderWay(st)
  /\ Reaches(idx, M, levels) => names \cap M \subseteq new.seen
  /\ \A S \in SUBSET M : Shut(idx, M, S) /\ names \cap M \subseteq S =>
       \A m \in M : IsOut(new, m) => IsOut(st, m) \/ m \in S

LEMMA EnterSound ==
  ASSUME NEW idx, NEW M, NEW levels, NEW st, Sound(idx, M, levels, st), NEW name \in M, name \notin st.seen,
         NEW mark, mark = [st EXCEPT !.seen = @ \cup {name}]
  PROVE  /\ Sound(idx, M, levels, mark) /\ mark \in Walked(M)
         /\ mark.seen = st.seen \cup {name} /\ mark.out = st.out
         /\ UnderWay(mark) = UnderWay(st) \cup {name}
<1>1. st \in Walked(M) /\ \A i \in 1..Len(st.out) : st.out[i] \in st.seen
  BY DEF Sound
<1>2. mark \in Walked(M) /\ mark.seen = st.seen \cup {name} /\ mark.out = st.out
  BY <1>1 DEF Walked
<1>3. Sound(idx, M, levels, mark)
  BY <1>2 DEF Sound
<1>4. UnderWay(mark) = UnderWay(st) \cup {name}
  BY <1>1, <1>2 DEF UnderWay, IsOut
<1> QED
  BY <1>2, <1>3, <1>4

LEMMA AppendOut ==
  ASSUME NEW M, NEW new \in Walked(M), NEW name \in M, NEW fin, fin = [new EXCEPT !.out = Append(@, name)]
  PROVE  /\ fin \in Walked(M) /\ fin.seen = new.seen
         /\ Len(new.out) \in Nat /\ Len(fin.out) = Len(new.out) + 1
         /\ \A i \in 1..Len(new.out) : fin.out[i] = new.out[i]
         /\ fin.out[Len(new.out) + 1] = name
         /\ \A m : IsOut(fin, m) <=> IsOut(new, m) \/ m = name
<1>1. PICK S \in SUBSET M, q \in Seq(M) : new = [seen |-> S, out |-> q]
  BY DEF Walked
<1>2. fin = [seen |-> S, out |-> Append(q, name)]
  BY <1>1
<1>3. /\ Append(q, name) \in Seq(M) /\ Len(Append(q, name)) = Len(q) + 1 /\ Len(q) \in Nat
      /\ \A i \in 1..Len(q) : Append(q, name)[i] = q[i]
      /\ Append(q, name)[Len(q) + 1] = name
  OBVIOUS
<1>4. /\ fin \in Walked(M) /\ fin.seen = new.seen
      /\ Len(new.out) \in Nat /\ Len(fin.out) = Len(new.out) + 1
      /\ \A i \in 1..Len(new.out) : fin.out[i] = new.out[i]
      /\ fin.out[Len(new.out) + 1] = name
  BY <1>1, <1>2, <1>3 DEF Walked
<1>5. \A m : IsOut(fin, m) <=> IsOut(new, m) \/ m = name
  <2>1. \A i : i \in 1..Len(new.out) + 1 <=> i \in 1..Len(new.out) \/ i = Len(new.out) + 1
    BY <1>4
  <2> QED
    BY <1>4, <2>1 DEF IsOut
<1> QED
  BY <1>4, <1>5

LEMMA LeaveSound ==
  ASSUME NEW idx, NEW M, NEW levels, NEW new, Sound(idx, M, levels, new), NEW name \in M, name \in UnderWay(new),
         Reaches(idx, M, levels) => \A d \in M : Leads(idx, M, name, d) => d \in new.seen,
         Reaches(idx, M, levels) /\ NoLoop(idx, M) => \A d \in M : Leads(idx, M, name, d) => IsOut(new, d),
         NEW fin, fin = [new EXCEPT !.out = Append(@, name)]
  PROVE  /\ Sound(idx, M, levels, fin) /\ fin.seen = new.seen
         /\ UnderWay(fin) = UnderWay(new) \ {name}
         /\ \A m : IsOut(fin, m) <=> IsOut(new, m) \/ m = name
<1> DEFINE n == Len(new.out)
<1>1. new \in Walked(M)
  BY DEF Sound
<1>2. /\ fin \in Walked(M) /\ fin.seen = new.seen
      /\ n \in Nat /\ Len(fin.out) = n + 1
      /\ \A i \in 1..n : fin.out[i] = new.out[i]
      /\ fin.out[n + 1] = name
      /\ \A m : IsOut(fin, m) <=> IsOut(new, m) \/ m = name
  BY <1>1, AppendOut
<1>3. \A i : i \in 1..Len(fin.out) <=> i \in 1..n \/ i = n + 1
  BY <1>2
<1>4. name \in new.seen /\ \A i \in 1..n : new.out[i] # name
  BY DEF UnderWay, IsOut
<1>5. UnderWay(fin) = UnderWay(new) \ {name}
  BY <1>2 DEF UnderWay
<1>6. \A i, j \in 1..Len(fin.out) : fin.out[i] = fin.out[j] => i = j
  BY <1>2, <1>3, <1>4 DEF Sound
<1>7. \A i \in 1..Len(fin.out) : fin.out[i] \in fin.seen
  BY <1>2, <1>3, <1>4 DEF Sound
<1>8. Reaches(idx, M, levels) =>
        \A i \in 1..Len(fin.out), d \in M : Leads(idx, M, fin.out[i], d) => d \in fin.seen
  BY <1>2, <1>3 DEF Sound
<1>9. ASSUME Reaches(idx, M, levels), NoLoop(idx, M), NEW i \in 1..Len(fin.out), NEW d \in M, Leads(idx, M, fin.out[i], d)
      PROVE  \E k \in 1..i - 1 : fin.out[k] = d
  <2>1. CASE i \in 1..n
    <3>1. PICK k \in 1..i - 1 : new.out[k] = d
      BY <1>2, <1>9, <2>1 DEF Sound
    <3>2. k \in 1..n
      BY <1>2, <2>1
    <3> QED
      BY <1>2, <3>1, <3>2
  <2>2. CASE i = n + 1
    <3>1. PICK k \in 1..n : new.out[k] = d
      BY <1>2, <1>9, <2>2 DEF IsOut
    <3>2. k \in 1..i - 1
      BY <1>2, <2>2
    <3> QED
      BY <1>2, <3>1, <3>2
  <2> QED
    BY <1>3, <2>1, <2>2
<1>10. Sound(idx, M, levels, fin)
  BY <1>2, <1>6, <1>7, <1>8, <1>9 DEF Sound
<1> QED
  BY <1>2, <1>5, <1>10

LEMMA TrailOn ==
  ASSUME NEW idx, NEW M, NEW p, NEW n \in Nat, Trail(idx, M, p, n), NEW name \in M, name \notin OnTrail(p, n),
         n > 0 => Leads(idx, M, p[n], name)
  PROVE  \E q : Trail(idx, M, q, n + 1) /\ OnTrail(q, n + 1) = OnTrail(p, n) \cup {name} /\ q[n + 1] = name
<1> DEFINE q == [i \in 1..n + 1 |-> IF i <= n THEN p[i] ELSE name]
<1>1. \A i : i \in 1..n + 1 <=> i \in 1..n \/ i = n + 1
  OBVIOUS
<1>2. (\A i \in 1..n : q[i] = p[i]) /\ q[n + 1] = name
  OBVIOUS
<1>3. q \in [1..n + 1 -> M]
  BY DEF Trail
<1> HIDE DEF q
<1>4. \A i \in 1..n : p[i] # name
  BY DEF OnTrail
<1>5. \A i, j \in 1..n + 1 : q[i] = q[j] => i = j
  BY <1>1, <1>2, <1>4 DEF Trail
<1>6. \A i \in 1..(n + 1) - 1 : Leads(idx, M, q[i], q[i + 1])
  <2> SUFFICES ASSUME NEW i \in 1..n PROVE Leads(idx, M, q[i], q[i + 1])
    OBVIOUS
  <2>1. CASE i = n
    BY <1>2, <2>1
  <2>2. CASE i # n
    <3>1. i \in 1..n - 1 /\ i + 1 \in 1..n
      BY <2>2
    <3> QED
      BY <1>2, <3>1 DEF Trail
  <2> QED
    BY <2>1, <2>2
<1>7. OnTrail(q, n + 1) = OnTrail(p, n) \cup {name}
  BY <1>1, <1>2 DEF OnTrail
<1>8. Trail(idx, M, q, n + 1)
  BY <1>3, <1>5, <1>6 DEF Trail
<1> QED
  BY <1>2, <1>7, <1>8

\* The last of a trail does not lead back into it, unless there is a loop.
LEMMA NoWayBack ==
  ASSUME NEW idx, NEW M, NoLoop(idx, M), NEW q, NEW n \in Nat, n > 0, Trail(idx, M, q, n), NEW d, Leads(idx, M, q[n], d)
  PROVE  d \notin OnTrail(q, n)
<1> SUFFICES ASSUME d \in OnTrail(q, n) PROVE FALSE
  OBVIOUS
<1>1. OnTrail(q, n) \in SUBSET M /\ OnTrail(q, n) # {}
  BY DEF OnTrail, Trail
<1>2. PICK m \in OnTrail(q, n) : \A e \in OnTrail(q, n) : ~Leads(idx, M, m, e)
  BY <1>1 DEF NoLoop
<1>3. PICK i \in 1..n : m = q[i]
  BY <1>2 DEF OnTrail
<1>4. CASE i = n
  BY <1>2, <1>3, <1>4
<1>5. CASE i # n
  <2>1. i \in 1..n - 1 /\ i + 1 \in 1..n
    BY <1>5
  <2>2. Leads(idx, M, q[i], q[i + 1]) /\ q[i + 1] \in OnTrail(q, n)
    BY <2>1 DEF Trail, OnTrail
  <2> QED
    BY <1>2, <1>3, <2>2
<1> QED
  BY <1>4, <1>5

\* The names of a list.
In(list) == {list[i] : i \in 1..Len(list)}

LEMMA OnwardTrans ==
  ASSUME NEW idx, NEW M, NEW levels, NEW r, NEW s, NEW t, NEW A, NEW B,
         Onward(idx, M, levels, r, s, A), Onward(idx, M, levels, s, t, B)
  PROVE  Onward(idx, M, levels, r, t, A \cup B)
<1>1. r.seen \subseteq t.seen /\ (\A m \in M : IsOut(r, m) => IsOut(t, m)) /\ UnderWay(t) = UnderWay(r)
  BY DEF Onward
<1>2. Reaches(idx, M, levels) => (A \cup B) \cap M \subseteq t.seen
  BY DEF Onward
<1>3. ASSUME NEW S \in SUBSET M, Shut(idx, M, S), (A \cup B) \cap M \subseteq S, NEW m \in M, IsOut(t, m)
      PROVE  IsOut(r, m) \/ m \in S
  <2>1. A \cap M \subseteq S /\ B \cap M \subseteq S
    BY <1>3
  <2>2. IsOut(s, m) \/ m \in S
    BY <1>3, <2>1 DEF Onward
  <2> QED
    BY <1>3, <2>1, <2>2 DEF Onward
<1> QED
  BY <1>1, <1>2, <1>3 DEF Onward

\* Calls for one name after the other.
LEMMA AlongOnward ==
  ASSUME NEW idx, NEW M, NEW levels, NEW call \in Calls(M), NEW list \in Seq(Nat),
         NEW s, Sound(idx, M, levels, s),
         \A i \in 1..Len(list) : \A t : Sound(idx, M, levels, t) /\ UnderWay(t) = UnderWay(s) =>
            /\ Sound(idx, M, levels, call[list[i]][t])
            /\ Onward(idx, M, levels, t, call[list[i]][t], {list[i]})
  PROVE  /\ Sound(idx, M, levels, Along(list, call, s))
         /\ Onward(idx, M, levels, s, Along(list, call, s), In(list))
<1> DEFINE N == Len(list)
           Up(n) == {list[i] : i \in 1..n}
           Good(t, n) == Sound(idx, M, levels, t) /\ Onward(idx, M, levels, s, t, Up(n))
<1>1. s \in Walked(M) /\ N \in Nat
  BY DEF Sound
<1>2. PICK after : Stages(after, Walked(M), list, call, s) /\ Along(list, call, s) = after[N]
  BY <1>1, AlongIs DEF Calls
<1> DEFINE V == {n \in Nat : n <= N => Good(after[n], n)}
<1>3. 0 \in V
  <2>1. after[0] = s /\ Up(0) = {}
    BY <1>2 DEF Stages
  <2>2. Onward(idx, M, levels, s, s, {})
    BY DEF Onward
  <2> QED
    BY <2>1, <2>2
<1>4. ASSUME NEW n \in Nat, n \in V PROVE n + 1 \in V
  <2> SUFFICES ASSUME n + 1 <= N PROVE Good(after[n + 1], n + 1)
    OBVIOUS
  <2>1. Good(after[n], n)
    BY <1>1, <1>4
  <2>2. n + 1 \in 1..N /\ after[n + 1] = call[list[n + 1]][after[n]]
    <3>1. n + 1 \in 1..N /\ (n + 1) - 1 = n
      BY <1>1
    <3> QED
      BY <1>2, <3>1 DEF Stages
  <2>3. UnderWay(after[n]) = UnderWay(s)
    BY <2>1 DEF Onward
  <2>4. /\ Sound(idx, M, levels, after[n + 1])
        /\ Onward(idx, M, levels, after[n], after[n + 1], {list[n + 1]})
    BY <2>1, <2>2, <2>3
  <2>5. Up(n + 1) = Up(n) \cup {list[n + 1]}
    <3>1. \A i : i \in 1..n + 1 <=> i \in 1..n \/ i = n + 1
      OBVIOUS
    <3> QED
      BY <3>1
  <2>6. Onward(idx, M, levels, s, after[n + 1], Up(n) \cup {list[n + 1]})
    BY <2>1, <2>4, OnwardTrans
  <2> QED
    BY <2>4, <2>5, <2>6
<1>5. N \in V
  <2> HIDE DEF V, N
  <2> QED
    BY <1>1, <1>3, <1>4, Induction
<1>6. Good(after[N], N)
  BY <1>1, <1>5
<1>7. Up(N) = In(list)
  BY DEF In
<1> QED
  BY <1>2, <1>6, <1>7

\* What calls do, when those under way are for a trail that name is the last of.
Serves(idx, M, levels, call, q, n, name) ==
  \A d \in Nat : \A t :
     Sound(idx, M, levels, t) /\ UnderWay(t) = OnTrail(q, n) /\ (d \in M => d = name \/ Leads(idx, M, name, d))
     => /\ Sound(idx, M, levels, call[d][t])
        /\ Onward(idx, M, levels, t, call[d][t], {d})

\* A call that enters a name: what it depends on is walked, and then it goes out.
LEMMA EnteredSound ==
  ASSUME NEW idx, NEW M, HasDeps(idx, M), NEW levels, NEW call \in Calls(M), NEW name \in M,
         NEW st, Sound(idx, M, levels, st), name \notin st.seen,
         NEW q, NEW n \in Nat, n > 0, Trail(idx, M, q, n), q[n] = name, OnTrail(q, n) = UnderWay(st) \cup {name},
         Serves(idx, M, levels, call, q, n, name)
  PROVE  /\ Sound(idx, M, levels, Entered(idx, call, name, st))
         /\ Onward(idx, M, levels, st, Entered(idx, call, name, st), {name})
<1> DEFINE list == idx[name].deps
<1>0. list \in Seq(Nat)
  BY DEF HasDeps
<1>1. list \in Seq(Nat) /\ \A i \in 1..Len(list) : list[i] \in Nat
  <2> HIDE DEF list
  <2> QED
    BY <1>0
<1>2. PICK mark : mark = [st EXCEPT !.seen = @ \cup {name}]
  OBVIOUS
<1>3. /\ Sound(idx, M, levels, mark) /\ mark \in Walked(M)
      /\ mark.seen = st.seen \cup {name} /\ mark.out = st.out
      /\ UnderWay(mark) = UnderWay(st) \cup {name}
  BY <1>2, EnterSound
<1>4. PICK new : new = Along(list, call, mark)
  OBVIOUS
<1>5. \A i \in 1..Len(list) : list[i] \in M => list[i] = name \/ Leads(idx, M, name, list[i])
  BY DEF Leads
<1>6. \A i \in 1..Len(list) : \A t : Sound(idx, M, levels, t) /\ UnderWay(t) = UnderWay(mark) =>
            /\ Sound(idx, M, levels, call[list[i]][t])
            /\ Onward(idx, M, levels, t, call[list[i]][t], {list[i]})
  <2> HIDE DEF list
  <2> QED
    BY <1>1, <1>3, <1>5 DEF Serves
<1>7. Sound(idx, M, levels, new) /\ Onward(idx, M, levels, mark, new, In(list))
  <2> HIDE DEF list
  <2> QED
    BY <1>1, <1>3, <1>4, <1>6, AlongOnward
<1>8. name \in UnderWay(new) /\ UnderWay(new) = OnTrail(q, n)
  BY <1>3, <1>7 DEF Onward
<1>9. \A d \in M : Leads(idx, M, name, d) => d \in In(list)
  BY DEF Leads, In
<1>10. Reaches(idx, M, levels) => \A d \in M : Leads(idx, M, name, d) => d \in new.seen
  <2> HIDE DEF list
  <2> QED
    BY <1>7, <1>9 DEF Onward
<1>11. Reaches(idx, M, levels) /\ NoLoop(idx, M) => \A d \in M : Leads(idx, M, name, d) => IsOut(new, d)
  <2> SUFFICES ASSUME Reaches(idx, M, levels), NoLoop(idx, M), NEW d \in M, Leads(idx, M, name, d)
               PROVE  IsOut(new, d)
    OBVIOUS
  <2>1. d \in new.seen
    BY <1>10
  <2>2. d \notin UnderWay(new)
    BY <1>8, NoWayBack
  <2> QED
    BY <2>1, <2>2 DEF UnderWay
<1>12. PICK fin : fin = [new EXCEPT !.out = Append(@, name)]
  OBVIOUS
<1>13. /\ Sound(idx, M, levels, fin) /\ fin.seen = new.seen
       /\ UnderWay(fin) = UnderWay(new) \ {name}
       /\ \A m : IsOut(fin, m) <=> IsOut(new, m) \/ m = name
  BY <1>7, <1>8, <1>10, <1>11, <1>12, LeaveSound
<1>14. fin = Entered(idx, call, name, st)
  BY <1>2, <1>4, <1>12 DEF Entered
<1>15. UnderWay(fin) = UnderWay(st)
  BY <1>3, <1>7, <1>13 DEF Onward, UnderWay
<1>16. \A m : IsOut(mark, m) <=> IsOut(st, m)
  BY <1>3 DEF IsOut
<1>17. st.seen \subseteq fin.seen /\ name \in fin.seen /\ \A m \in M : IsOut(st, m) => IsOut(fin, m)
  BY <1>3, <1>7, <1>13, <1>16 DEF Onward
<1>18. ASSUME NEW S \in SUBSET M, Shut(idx, M, S), {name} \cap M \subseteq S, NEW m \in M, IsOut(fin, m)
       PROVE  IsOut(st, m) \/ m \in S
  <2>1. name \in S
    BY <1>18
  <2>2. \A i \in 1..Len(list) : list[i] \in M => list[i] \in S
    BY <1>5, <1>18, <2>1 DEF Shut
  <2>3. In(list) \cap M \subseteq S
    <3> HIDE DEF list
    <3> QED
      BY <2>2 DEF In
  <2>4. CASE m = name
    BY <2>1, <2>4
  <2>5. CASE IsOut(new, m)
    BY <1>7, <1>16, <1>18, <2>3, <2>5 DEF Onward
  <2> QED
    BY <1>13, <1>18, <2>4, <2>5
<1>19. Onward(idx, M, levels, st, fin, {name})
  BY <1>15, <1>17, <1>18 DEF Onward
<1> QED
  BY <1>13, <1>14, <1>19

\* A call for a name, when the calls under way are for a trail that leads to it.
Comes(idx, M, p, n, name) == n > 0 /\ name \in M => name = p[n] \/ Leads(idx, M, p[n], name)

\* What a call gives, that many calls being under way.
GoesWell(idx, M, levels, call, under) ==
  \A name \in Nat : \A st, p :
     /\ Sound(idx, M, levels, st) /\ Trail(idx, M, p, under)
     /\ UnderWay(st) = OnTrail(p, under) /\ Comes(idx, M, p, under, name)
     => /\ Sound(idx, M, levels, call[name][st])
        /\ Onward(idx, M, levels, st, call[name][st], {name})

LEMMA WalkSound ==
  ASSUME NEW idx, NEW M, HasDeps(idx, M), NEW levels \in Nat, NEW g, ByLevel(g, idx, M, levels),
         NEW k \in 0..levels
  PROVE  GoesWell(idx, M, levels, g[k], levels - k)
<1> DEFINE Post(j, name, st) == /\ Sound(idx, M, levels, g[j][name][st])
                                /\ Onward(idx, M, levels, st, g[j][name][st], {name})
           Pre(j, name, st, p) ==
             /\ Sound(idx, M, levels, st) /\ Trail(idx, M, p, levels - j)
             /\ UnderWay(st) = OnTrail(p, levels - j) /\ Comes(idx, M, p, levels - j, name)
           V == {j \in Nat : j <= levels => \A name \in Nat : \A st, p : Pre(j, name, st, p) => Post(j, name, st)}
<1>0. /\ g \in [0..levels -> Calls(M)]
      /\ \A name \in Nat, st \in Walked(M) : g[0][name][st] = st
      /\ \A j \in 1..levels : \A name \in Nat, st \in Walked(M) :
           g[j][name][st] = IF name \in st.seen \/ name \notin M THEN st ELSE Entered(idx, g[j - 1], name, st)
  BY DEF ByLevel
<1>1. ASSUME NEW st, NEW name \in Nat, Sound(idx, M, levels, st),
             name \in M /\ Reaches(idx, M, levels) => name \in st.seen
      PROVE  Onward(idx, M, levels, st, st, {name})
  BY <1>1 DEF Onward
<1>2. 0 \in V
  <2> SUFFICES ASSUME NEW name \in Nat, NEW st, NEW p, Pre(0, name, st, p) PROVE Post(0, name, st)
    OBVIOUS
  <2>1. st \in Walked(M) /\ g[0][name][st] = st
    BY <1>0 DEF Sound
  <2>2. ASSUME name \in M, name \notin st.seen PROVE ~Reaches(idx, M, levels)
    <3>1. name \notin OnTrail(p, levels)
      BY <2>2 DEF UnderWay
    <3>2. levels > 0 => Leads(idx, M, p[levels], name)
      <4>1. levels > 0 => p[levels] \in OnTrail(p, levels)
        BY DEF OnTrail
      <4> QED
        BY <2>2, <3>1, <4>1 DEF Comes
    <3>3. \E q : Trail(idx, M, q, levels + 1)
      BY <2>2, <3>1, <3>2, TrailOn
    <3> QED
      BY <3>3 DEF Reaches
  <2>3. Onward(idx, M, levels, st, st, {name})
    BY <1>1, <2>2
  <2> QED
    BY <2>1, <2>3
<1>3. ASSUME NEW j \in Nat, j \in V PROVE j + 1 \in V
  <2> SUFFICES ASSUME j + 1 <= levels, NEW name \in Nat, NEW st, NEW p, Pre(j + 1, name, st, p)
               PROVE  Post(j + 1, name, st)
    <3> HIDE DEF Pre, Post
    <3> QED
      OBVIOUS
  <2>1. /\ st \in Walked(M)
        /\ g[j + 1][name][st] = IF name \in st.seen \/ name \notin M THEN st ELSE Entered(idx, g[j], name, st)
    <3>1. st \in Walked(M) /\ j + 1 \in 1..levels /\ (j + 1) - 1 = j
      BY DEF Sound
    <3> QED
      BY <1>0, <3>1
  <2>2. CASE name \in st.seen \/ name \notin M
    <3>1. Onward(idx, M, levels, st, st, {name})
      BY <1>1, <2>2
    <3> QED
      BY <2>1, <2>2, <3>1
  <2>3. CASE name \notin st.seen /\ name \in M
    <3> DEFINE n == levels - (j + 1)
    <3>1. n \in Nat /\ n + 1 = levels - j /\ j \in 0..levels /\ j <= levels
      OBVIOUS
    <3>4. Trail(idx, M, p, n) /\ Sound(idx, M, levels, st) /\ UnderWay(st) = OnTrail(p, n) /\ Comes(idx, M, p, n, name)
      OBVIOUS
    <3> HIDE DEF n
    <3>2. name \notin OnTrail(p, n)
      BY <2>3, <3>4 DEF UnderWay
    <3>3. n > 0 => Leads(idx, M, p[n], name)
      <4>1. n > 0 => p[n] \in OnTrail(p, n)
        BY <3>1 DEF OnTrail
      <4> QED
        BY <2>3, <3>2, <3>4, <4>1 DEF Comes
    <3>5. PICK q : Trail(idx, M, q, n + 1) /\ OnTrail(q, n + 1) = OnTrail(p, n) \cup {name} /\ q[n + 1] = name
      BY <2>3, <3>1, <3>2, <3>3, <3>4, TrailOn
    <3>6. ASSUME NEW d \in Nat, NEW t, Sound(idx, M, levels, t), UnderWay(t) = OnTrail(q, n + 1),
                 d \in M => d = name \/ Leads(idx, M, name, d)
          PROVE  Post(j, d, t)
      <4>1. Comes(idx, M, q, levels - j, d)
        BY <3>1, <3>5, <3>6 DEF Comes
      <4>2. Pre(j, d, t, q)
        BY <3>1, <3>5, <3>6, <4>1
      <4> HIDE DEF Pre, Post
      <4> QED
        BY <1>3, <3>1, <4>2
    <3>7. g[j] \in Calls(M) /\ n + 1 \in Nat /\ n + 1 > 0
      BY <1>0, <3>1
    <3>9. Serves(idx, M, levels, g[j], q, n + 1, name)
      BY <3>6 DEF Serves
    <3>10. PICK w \in Nat : w = n + 1 /\ w > 0
      BY <3>7
    <3>11. /\ Trail(idx, M, q, w) /\ q[w] = name /\ OnTrail(q, w) = UnderWay(st) \cup {name}
           /\ Sound(idx, M, levels, st) /\ name \in M /\ name \notin st.seen
           /\ Serves(idx, M, levels, g[j], q, w, name)
      BY <2>3, <3>4, <3>5, <3>9, <3>10
    <3>8. /\ Sound(idx, M, levels, Entered(idx, g[j], name, st))
          /\ Onward(idx, M, levels, st, Entered(idx, g[j], name, st), {name})
      <4> HIDE DEF Pre, Post
      <4> QED
        BY <3>7, <3>10, <3>11, EnteredSound
    <3> QED
      BY <2>1, <2>3, <3>8
  <2> QED
    BY <2>2, <2>3
<1>4. k \in V
  <2>1. k \in Nat
    OBVIOUS
  <2> HIDE DEF V
  <2> QED
    BY <1>2, <1>3, <2>1, Induction
<1>5. k <= levels
  OBVIOUS
<1> QED
  BY <1>4, <1>5 DEF GoesWell

\* What a whole walk from the roots puts out.
Selects(idx, M, levels, roots, res) ==
  /\ res \in Seq(M)
  /\ \A i, j \in 1..Len(res) : res[i] = res[j] => i = j
  /\ \A S \in SUBSET M : Shut(idx, M, S) /\ In(roots) \cap M \subseteq S => In(res) \subseteq S
  /\ Reaches(idx, M, levels) => In(roots) \cap M \subseteq In(res) /\ Shut(idx, M, In(res))
  /\ Reaches(idx, M, levels) /\ NoLoop(idx, M) =>
       \A i \in 1..Len(res), d \in M : Leads(idx, M, res[i], d) => \E k \in 1..i - 1 : res[k] = d

LEMMA WholeWalk ==
  ASSUME NEW idx, NEW M, HasDeps(idx, M), NEW levels \in Nat, NEW roots \in Seq(Nat)
  PROVE  Selects(idx, M, levels, roots, Along(roots, Walk(idx, M, levels), NothingYet).out)
<1>1. PICK g : ByLevel(g, idx, M, levels) /\ Walk(idx, M, levels) = g[levels]
  BY WalkIs
<1>2. GoesWell(idx, M, levels, g[levels], 0)
  <2>1. levels \in 0..levels /\ levels - levels = 0
    OBVIOUS
  <2>2. GoesWell(idx, M, levels, g[levels], levels - levels)
    BY <1>1, <2>1, WalkSound
  <2> QED
    BY <2>1, <2>2
<1>3. PICK p : p \in [1..0 -> M]
  <2>1. [i \in 1..0 |-> CHOOSE m \in M : TRUE] \in [1..0 -> M]
    OBVIOUS
  <2> QED
    BY <2>1
<1>4. Trail(idx, M, p, 0) /\ OnTrail(p, 0) = {} /\ \A name : Comes(idx, M, p, 0, name)
  BY <1>3 DEF Trail, OnTrail, Comes
<1>6. PICK call \in Calls(M) : call = Walk(idx, M, levels)
  BY <1>1 DEF ByLevel
<1>7. \A name \in Nat : \A st : Sound(idx, M, levels, st) /\ UnderWay(st) = {} =>
        /\ Sound(idx, M, levels, call[name][st])
        /\ Onward(idx, M, levels, st, call[name][st], {name})
  BY <1>1, <1>2, <1>4, <1>6 DEF GoesWell
<1>8. /\ NothingYet \in Walked(M) /\ NothingYet.seen = {} /\ NothingYet.out = <<>>
      /\ Len(NothingYet.out) = 0 /\ \A m : ~IsOut(NothingYet, m)
  BY DEF NothingYet, Walked, IsOut
<1>9. Sound(idx, M, levels, NothingYet) /\ UnderWay(NothingYet) = {}
  BY <1>8 DEF Sound, UnderWay
<1>10. PICK w : w = Along(roots, call, NothingYet)
  OBVIOUS
<1>11. \A i \in 1..Len(roots) : roots[i] \in Nat
  OBVIOUS
<1>12. Sound(idx, M, levels, w) /\ Onward(idx, M, levels, NothingYet, w, In(roots))
  <2>1. \A i \in 1..Len(roots) : \A t : Sound(idx, M, levels, t) /\ UnderWay(t) = UnderWay(NothingYet) =>
          /\ Sound(idx, M, levels, call[roots[i]][t])
          /\ Onward(idx, M, levels, t, call[roots[i]][t], {roots[i]})
    BY <1>7, <1>9, <1>11
  <2> QED
    BY <1>9, <1>10, <2>1, AlongOnward
<1>13. UnderWay(w) = {} /\ w \in Walked(M)
  BY <1>9, <1>12 DEF Onward, Sound
<1>14. w.seen \subseteq M /\ w.out \in Seq(M)
  BY <1>13 DEF Walked
<1>15. In(w.out) = w.seen /\ \A m : IsOut(w, m) <=> m \in In(w.out)
  <2>1. \A m : IsOut(w, m) <=> m \in In(w.out)
    BY DEF IsOut, In
  <2>2. \A m \in w.seen : IsOut(w, m)
    BY <1>13 DEF UnderWay
  <2>3. In(w.out) \subseteq w.seen
    BY <1>12 DEF Sound, In
  <2> QED
    BY <2>1, <2>2, <2>3
<1>16. \A S \in SUBSET M : Shut(idx, M, S) /\ In(roots) \cap M \subseteq S => In(w.out) \subseteq S
  <2> SUFFICES ASSUME NEW S \in SUBSET M, Shut(idx, M, S), In(roots) \cap M \subseteq S, NEW m \in In(w.out)
               PROVE  m \in S
    OBVIOUS
  <2>1. m \in M /\ IsOut(w, m)
    BY <1>14, <1>15
  <2> QED
    BY <1>8, <1>12, <2>1 DEF Onward
<1>17. Reaches(idx, M, levels) => In(roots) \cap M \subseteq In(w.out)
  BY <1>12, <1>15 DEF Onward
<1>18. Reaches(idx, M, levels) => Shut(idx, M, In(w.out))
  <2>1. Reaches(idx, M, levels) =>
          \A i \in 1..Len(w.out), d \in M : Leads(idx, M, w.out[i], d) => d \in w.seen
    BY <1>12 DEF Sound
  <2>2. \A m \in In(w.out) : \E i \in 1..Len(w.out) : m = w.out[i]
    BY DEF In
  <2> QED
    BY <1>15, <2>1, <2>2 DEF Shut
<1>19. Reaches(idx, M, levels) /\ NoLoop(idx, M) =>
         \A i \in 1..Len(w.out), d \in M : Leads(idx, M, w.out[i], d) => \E k \in 1..i - 1 : w.out[k] = d
  BY <1>12 DEF Sound
<1>20. \A i, j \in 1..Len(w.out) : w.out[i] = w.out[j] => i = j
  BY <1>12 DEF Sound
<1>21. Selects(idx, M, levels, roots, w.out)
  BY <1>14, <1>16, <1>17, <1>18, <1>19, <1>20 DEF Selects
<1> QED
  BY <1>6, <1>10, <1>21
(***************************************************************************)
(* The index with the symbols linked: what its modules need.               *)
(***************************************************************************)
IndexEntries == [deps : Seq(Nat), drives : SUBSET Devices, needs : SUBSET Symbols, exports : SUBSET Symbols]
IsIndex(idx) == DOMAIN idx \subseteq Nat /\ IsFiniteSet(DOMAIN idx) /\ idx \in [DOMAIN idx -> IndexEntries]

LEMMA SortedIs ==
  ASSUME NEW S \in SUBSET Nat, IsFiniteSet(S)
  PROVE  Sorted(S) \in Seq(S) /\ In(Sorted(S)) = S
<1> DEFINE Less == {p \in S \X S : p[1] < p[2]}
           q == Listed(S, Less)
<1>1. \A x, y \in S : <<x, y>> \in Less <=> x < y
  OBVIOUS
<1>2. Orders(Less, S)
  <2>1. \A x, y \in S : x \in Nat /\ y \in Nat
    OBVIOUS
  <2> HIDE DEF Less
  <2> QED
    BY <1>1, <2>1 DEF Orders
<1>3. /\ Cardinality(S) \in Nat /\ q \in [1..Cardinality(S) -> S]
      /\ \A x \in S : \E k \in 1..Cardinality(S) : q[k] = x
  <2> HIDE DEF Less
  <2> QED
    BY <1>2, SortedList
<1> HIDE DEF q
<1>4. q \in Seq(S) /\ Len(q) = Cardinality(S)
  BY <1>3
<1>5. In(q) = S
  BY <1>3, <1>4 DEF In
<1> QED
  BY <1>4, <1>5 DEF Sorted, q

LEMMA InToSet ==
  ASSUME NEW S, NEW q \in Seq(S)
  PROVE  ToSet(q) = In(q)
BY DEF ToSet, In

LEMMA InConcat ==
  ASSUME NEW S, NEW T, NEW q \in Seq(S), NEW r \in Seq(T)
  PROVE  q \o r \in Seq(S \cup T) /\ In(q \o r) = In(q) \cup In(r)
<1>1. q \in Seq(S \cup T) /\ r \in Seq(S \cup T)
  OBVIOUS
<1>2. /\ q \o r \in Seq(S \cup T) /\ Len(q \o r) = Len(q) + Len(r) /\ Len(q) \in Nat /\ Len(r) \in Nat
      /\ \A i \in 1..Len(q) : (q \o r)[i] = q[i]
      /\ \A i \in 1..Len(r) : (q \o r)[Len(q) + i] = r[i]
  BY <1>1
<1> DEFINE c == q \o r
           n == Len(q)
           k == Len(r)
<1>3. /\ c \in Seq(S \cup T) /\ Len(c) = n + k /\ n \in Nat /\ k \in Nat
      /\ \A i \in 1..n : c[i] = q[i]
      /\ \A i \in 1..k : c[n + i] = r[i]
  BY <1>2
<1>4. In(q) = {q[i] : i \in 1..n} /\ In(r) = {r[i] : i \in 1..k}
  BY DEF In
<1> HIDE DEF c, n, k
<1>5. In(c) = {c[i] : i \in 1..n + k}
  BY <1>3 DEF In
<1>6. \A i \in 1..n + k : i \in 1..n \/ (i - n \in 1..k /\ n + (i - n) = i)
  BY <1>3
<1>7. (\A i \in 1..n : i \in 1..n + k) /\ (\A i \in 1..k : n + i \in 1..n + k)
  BY <1>3
<1>8. In(c) \subseteq In(q) \cup In(r)
  <2> SUFFICES ASSUME NEW i \in 1..n + k PROVE c[i] \in In(q) \cup In(r)
    BY <1>5
  <2>1. CASE i \in 1..n
    BY <1>3, <1>4, <2>1
  <2>2. CASE i \notin 1..n
    <3>1. PICK j \in 1..k : n + j = i
      BY <1>6, <2>2
    <3>2. c[i] = r[j]
      BY <1>3, <3>1
    <3> QED
      BY <1>4, <3>2
  <2> QED
    BY <2>1, <2>2
<1>9. In(q) \cup In(r) \subseteq In(c)
  BY <1>3, <1>4, <1>5, <1>7
<1> QED
  BY <1>3, <1>8, <1>9 DEF c

LEMMA LinkedDeps ==
  ASSUME NEW idx, IsIndex(idx)
  PROVE  /\ DOMAIN LinkSymbols(idx) = DOMAIN idx
         /\ \A m \in DOMAIN idx :
              /\ LinkSymbols(idx)[m].deps \in Seq(Nat)
              /\ LinkSymbols(idx)[m].drives = idx[m].drives
              /\ \A d \in DOMAIN idx : d # m =>
                   (d \in In(LinkSymbols(idx)[m].deps) <=>
                      d \in ToSet(idx[m].deps) \/ \E s \in idx[m].needs : Exporters(idx, s) = {d})
<1> DEFINE Mods == DOMAIN idx
           to == LinkSymbols(idx)
<1>1. DOMAIN to = Mods
  BY DEF LinkSymbols
<1>2. ASSUME NEW m \in Mods
      PROVE  /\ to[m].deps \in Seq(Nat) /\ to[m].drives = idx[m].drives
             /\ \A d \in Mods : d # m =>
                  (d \in In(to[m].deps) <=>
                     d \in ToSet(idx[m].deps) \/ \E s \in idx[m].needs : Exporters(idx, s) = {d})
  <2>1. PICK q \in Seq(Nat), v \in SUBSET Devices, u \in SUBSET Symbols, x \in SUBSET Symbols :
          idx[m] = [deps |-> q, drives |-> v, needs |-> u, exports |-> x]
    <3>1. idx[m] \in IndexEntries
      BY DEF IsIndex
    <3> QED
      BY <3>1 DEF IndexEntries
  <2> DEFINE sole == {b \in Mods : \E s \in idx[m].needs : Exporters(idx, s) = {b}}
             more == sole \ (ToSet(q) \cup {m})
  <2>2. PICK r : r = Sorted(more)
    OBVIOUS
  <2>3. to[m] = [idx[m] EXCEPT !.deps = q \o r]
    <3>1. to[m] = [idx[m] EXCEPT !.deps = idx[m].deps \o Sorted(sole \ (ToSet(idx[m].deps) \cup {m}))]
      BY DEF LinkSymbols
    <3>2. idx[m].deps = q
      BY <2>1
    <3> HIDE DEF sole, to
    <3> QED
      BY <2>2, <3>1, <3>2
  <2>4. to[m].deps = q \o r /\ to[m].drives = idx[m].drives
    BY <2>1, <2>3
  <2>5. more \in SUBSET Mods /\ more \in SUBSET Nat /\ IsFiniteSet(more)
    <3>1. more \in SUBSET Mods /\ Mods \subseteq Nat /\ IsFiniteSet(Mods)
      BY DEF IsIndex
    <3> HIDE DEF more, Mods
    <3> QED
      BY <3>1, FS_Subset
  <2>6. r \in Seq(Nat) /\ In(r) = more
    <3>1. r \in Seq(more) /\ In(r) = more
      <4> HIDE DEF more
      <4> QED
        BY <2>2, <2>5, SortedIs
    <3> HIDE DEF more
    <3> QED
      BY <2>5, <3>1
  <2>7. q \o r \in Seq(Nat) /\ In(q \o r) = In(q) \cup more
    <3> HIDE DEF more
    <3> QED
      BY <2>6, InConcat
  <2>8. In(q) = ToSet(q) /\ ToSet(idx[m].deps) = ToSet(q)
    BY <2>1, InToSet
  <2>9. \A d \in Mods : d # m =>
          (d \in In(q \o r) <=> d \in ToSet(idx[m].deps) \/ \E s \in idx[m].needs : Exporters(idx, s) = {d})
    BY <2>7, <2>8
  <2> HIDE DEF to, Mods
  <2> QED
    BY <2>4, <2>7, <2>9
<1> QED
  BY <1>1, <1>2

LEMMA PackDeps ==
  ASSUME IsIndex(input.idx), NEW idx, idx = LinkSymbols(input.idx)
  PROVE  /\ DOMAIN idx = Pack
         /\ \A m \in Pack :
              /\ idx[m].deps \in Seq(Nat)
              /\ \A d \in Pack : d # m => (d \in In(idx[m].deps) <=> Needs(m, d))
<1>1. DOMAIN idx = Pack
  BY LinkedDeps DEF Pack
<1>2. ASSUME NEW m \in Pack
      PROVE  /\ idx[m].deps \in Seq(Nat)
             /\ \A d \in Pack : d # m => (d \in In(idx[m].deps) <=> Needs(m, d))
  <2>1. m \in DOMAIN input.idx /\ \A d : d \in Pack <=> d \in DOMAIN input.idx
    BY DEF Pack
  <2>2. /\ idx[m].deps \in Seq(Nat)
        /\ \A d \in DOMAIN input.idx : d # m =>
             (d \in In(idx[m].deps) <=>
                d \in ToSet(input.idx[m].deps) \/ \E s \in input.idx[m].needs : Exporters(input.idx, s) = {d})
    BY <2>1, LinkedDeps
  <2> QED
    BY <2>1, <2>2 DEF Needs
<1> QED
  BY <1>1, <1>2

\* Of some of its modules, one leads to another that it needs.
LEMMA LeadsNeeds ==
  ASSUME IsIndex(input.idx), NEW M \in SUBSET Pack
  PROVE  /\ HasDeps(LinkSymbols(input.idx), M)
         /\ \A m, d : Leads(LinkSymbols(input.idx), M, m, d) <=> m \in M /\ d \in M /\ Needs(m, d)
<1>1. PICK idx : idx = LinkSymbols(input.idx)
  OBVIOUS
<1>2. /\ DOMAIN idx = Pack
      /\ \A m \in Pack :
           /\ idx[m].deps \in Seq(Nat)
           /\ \A d \in Pack : d # m => (d \in In(idx[m].deps) <=> Needs(m, d))
  BY <1>1, PackDeps
<1>3. M \subseteq Nat
  BY DEF IsIndex, Pack
<1>4. HasDeps(idx, M)
  BY <1>2, <1>3 DEF HasDeps
<1>5. ASSUME NEW m, NEW d PROVE Leads(idx, M, m, d) <=> m \in M /\ d \in M /\ Needs(m, d)
  <2>1. Leads(idx, M, m, d) <=> m \in M /\ d \in M /\ d # m /\ d \in In(idx[m].deps)
    BY DEF Leads, In
  <2>2. Needs(m, d) => d # m
    BY DEF Needs
  <2> QED
    BY <1>2, <2>1, <2>2
<1> QED
  BY <1>1, <1>4, <1>5

LEMMA AcyclicNoLoop ==
  ASSUME IsIndex(input.idx), NEW M \in SUBSET Pack, Acyclic
  PROVE  NoLoop(LinkSymbols(input.idx), M)
<1>1. \A m, d : Leads(LinkSymbols(input.idx), M, m, d) => Needs(m, d)
  BY LeadsNeeds
<1>2. \A S \in SUBSET M : S \in SUBSET Pack
  OBVIOUS
<1> QED
  BY <1>1, <1>2 DEF NoLoop, Acyclic

LEMMA DeepReaches ==
  ASSUME IsIndex(input.idx), NEW M \in SUBSET Pack, ~TooDeep(M)
  PROVE  Reaches(LinkSymbols(input.idx), M, MaxDepth + 1)
<1> SUFFICES ASSUME NEW p, Trail(LinkSymbols(input.idx), M, p, (MaxDepth + 1) + 1) PROVE TooDeep(M)
  BY DEF Reaches
<1>1. \A m, d : Leads(LinkSymbols(input.idx), M, m, d) => Needs(m, d)
  BY LeadsNeeds
<1>2. (MaxDepth + 1) + 1 = MaxDepth + 2 /\ (MaxDepth + 2) - 1 = MaxDepth + 1 /\ MaxDepth \in Nat
  BY KmodAssumption
<1>3. Trail(LinkSymbols(input.idx), M, p, MaxDepth + 2)
  BY <1>2
<1>4. p \in [1..MaxDepth + 2 -> M] /\ \A i, j \in 1..MaxDepth + 2 : p[i] = p[j] => i = j
  BY <1>3 DEF Trail
<1>5. \A i \in 1..MaxDepth + 1 : Needs(p[i], p[i + 1])
  BY <1>1, <1>2, <1>3 DEF Trail
<1>6. IsInjective(p)
  BY <1>4 DEF IsInjective
<1> QED
  BY <1>4, <1>5, <1>6 DEF TooDeep

\* What a walk that reaches everything puts out is the closure of its roots.
LEMMA SelectsClosure ==
  ASSUME IsIndex(input.idx), NEW M \in SUBSET Pack, NEW levels \in Nat, NEW roots, NEW res,
         Selects(LinkSymbols(input.idx), M, levels, roots, res)
  PROVE  /\ In(res) \subseteq Closure(M, In(roots) \cap M)
         /\ Reaches(LinkSymbols(input.idx), M, levels) => In(res) = Closure(M, In(roots) \cap M)
<1> DEFINE idx == LinkSymbols(input.idx)
           A == In(roots) \cap M
           C == Closure(M, A)
<1>1. \A m, d : Leads(idx, M, m, d) <=> m \in M /\ d \in M /\ Needs(m, d)
  BY LeadsNeeds
<1>2. In(res) \subseteq M
  BY DEF Selects, In
<1>3. \A S \in SUBSET M : Shut(idx, M, S) <=> \A n \in S, d \in M : Needs(n, d) => d \in S
  <2> HIDE DEF idx
  <2> QED
    BY <1>1 DEF Shut
<1>4. C = {m \in M : \A S \in SUBSET M : A \subseteq S /\ Shut(idx, M, S) => m \in S}
  <2> HIDE DEF idx
  <2> QED
    BY <1>3 DEF Closure
<1>5. \A S \in SUBSET M : Shut(idx, M, S) /\ A \subseteq S => In(res) \subseteq S
  BY DEF Selects
<1> HIDE DEF idx
<1>6. In(res) \subseteq C
  BY <1>2, <1>4, <1>5
<1>7. ASSUME Reaches(idx, M, levels) PROVE C \subseteq In(res)
  <2>1. A \subseteq In(res) /\ Shut(idx, M, In(res))
    BY <1>7 DEF Selects, idx
  <2> QED
    BY <1>2, <1>4, <2>1
<1> QED
  BY <1>6, <1>7 DEF idx

\* The order of such a list: nothing before what it needs.
LEMMA SelectsOrder ==
  ASSUME IsIndex(input.idx), NEW M \in SUBSET Pack, NEW levels \in Nat, NEW roots, NEW res,
         Selects(LinkSymbols(input.idx), M, levels, roots, res), Acyclic,
         Reaches(LinkSymbols(input.idx), M, levels)
  PROVE  \A i, j \in DOMAIN res : i < j => ~Needs(res[i], res[j])
<1> SUFFICES ASSUME NEW i \in DOMAIN res, NEW j \in DOMAIN res, i < j, Needs(res[i], res[j]) PROVE FALSE
  OBVIOUS
<1>1. NoLoop(LinkSymbols(input.idx), M)
  BY AcyclicNoLoop
<1>2. res \in Seq(M) /\ \A h, k \in 1..Len(res) : res[h] = res[k] => h = k
  BY DEF Selects
<1>3. i \in 1..Len(res) /\ j \in 1..Len(res) /\ Len(res) \in Nat /\ res[i] \in M /\ res[j] \in M
  BY <1>2
<1>4. Leads(LinkSymbols(input.idx), M, res[i], res[j])
  BY <1>3, LeadsNeeds
<1>5. PICK k \in 1..i - 1 : res[k] = res[j]
  BY <1>1, <1>3, <1>4 DEF Selects
<1>6. k \in 1..Len(res) /\ k < j
  BY <1>3, <1>5
<1> QED
  BY <1>2, <1>3, <1>5, <1>6

LEMMA SeqWider ==
  ASSUME NEW S, NEW T, S \subseteq T, NEW q \in Seq(S)
  PROVE  q \in Seq(T)
OBVIOUS

LEMMA WantedAsked ==
  ASSUME IsIndex(input.idx)
  PROVE  Wanted(LinkSymbols(input.idx), input.devices, input.loaded, input.prefer) = {n \in Pack \ input.loaded : Asked(n)}
<1> DEFINE idx == LinkSymbols(input.idx)
           matched(d) == {n \in Pack : Claims(n, d)}
           called(d) == IF matched(d) \cap input.prefer # {} THEN matched(d) \cap input.prefer ELSE matched(d)
           found(d) == {n \in DOMAIN idx : d \in idx[n].drives}
           sought(d) == IF found(d) \cap input.prefer # {} THEN found(d) \cap input.prefer ELSE found(d)
           all == UNION {sought(d) : d \in input.devices}
<1>1. DOMAIN idx = Pack /\ \A n \in Pack : idx[n].drives = input.idx[n].drives
  BY LinkedDeps DEF Pack
<1>2. Wanted(idx, input.devices, input.loaded, input.prefer) = all \ input.loaded
  BY DEF Wanted
<1>3. \A d : found(d) = matched(d)
  <2> HIDE DEF idx
  <2> QED
    BY <1>1 DEF Claims
<1>4. \A d : sought(d) = called(d)
  <2> HIDE DEF found, matched
  <2> QED
    BY <1>3
<1>5. \A d, n : n \in called(d) <=> n \in Pack /\ Claims(n, d) /\ (n \in input.prefer \/ \A p \in input.prefer \cap Pack : ~Claims(p, d))
  OBVIOUS
<1>6. \A n : n \in all <=> n \in Pack /\ Asked(n)
  <2> HIDE DEF sought, called
  <2> QED
    BY <1>4, <1>5 DEF Asked
<1> HIDE DEF idx, all
<1>7. all \ input.loaded = {n \in Pack \ input.loaded : Asked(n)}
  BY <1>6
<1> QED
  BY <1>2, <1>7 DEF idx

LEMMA ResolveRight ==
  ASSUME IsIndex(input.idx), input.kind = "resolve",
         output = <<ResolvePreferring(LinkSymbols(input.idx), input.devices, input.loaded, input.prefer)>>
  PROVE  ClosedInOrder
<1> DEFINE idx == LinkSymbols(input.idx)
           M == Pack \ input.loaded
           want == {n \in M : Asked(n)}
           roots == Sorted(want)
           levels == MaxDepth + 1
<1>1. PICK res : res = ResolvePreferring(idx, input.devices, input.loaded, input.prefer)
  OBVIOUS
<1>2. Answer = res /\ output # <<>>
  BY <1>1 DEF Answer
<1>3. DOMAIN idx = Pack
  BY LinkedDeps DEF Pack
<1>4. M \in SUBSET Pack /\ levels \in Nat
  BY KmodAssumption
<1>5. want \in SUBSET Nat /\ IsFiniteSet(want) /\ want \subseteq M
  <2>1. Pack \subseteq Nat /\ IsFiniteSet(Pack)
    BY DEF IsIndex, Pack
  <2>2. want \in SUBSET Pack
    OBVIOUS
  <2> HIDE DEF want
  <2>3. IsFiniteSet(want)
    BY <2>1, <2>2, FS_Subset
  <2> QED
    BY <2>1, <2>2, <2>3 DEF want
<1>6. roots \in Seq(Nat) /\ In(roots) = want
  <2>1. roots \in Seq(want) /\ In(roots) = want
    <3> HIDE DEF want
    <3> QED
      BY <1>5, SortedIs
  <2> HIDE DEF want, roots
  <2>2. roots \in Seq(Nat)
    BY <1>5, <2>1, SeqWider
  <2> QED
    BY <2>1, <2>2
<1>7. res = Along(roots, Walk(idx, M, levels), NothingYet).out
  BY <1>1, <1>3, WantedAsked DEF ResolvePreferring, Add
<1>8. HasDeps(idx, M)
  BY <1>4, LeadsNeeds
<1> HIDE DEF want, roots, levels, M
<1>9. Selects(idx, M, levels, roots, res)
  <2> HIDE DEF idx
  <2> QED
    BY <1>4, <1>6, <1>7, <1>8, WholeWalk
<1>10. In(roots) \cap M = want
  BY <1>5, <1>6
<1>11. /\ In(res) \subseteq Closure(M, want)
       /\ Reaches(idx, M, levels) => In(res) = Closure(M, want)
  BY <1>4, <1>9, <1>10, SelectsClosure
<1>12. TooDeep(M) \/ Reaches(idx, M, levels)
  BY <1>4, DeepReaches DEF levels
<1>13. res \in Seq(M) /\ \A i, j \in 1..Len(res) : res[i] = res[j] => i = j
  BY <1>9 DEF Selects
<1>14. ToSet(res) = In(res)
  BY <1>13, InToSet
<1>15. IsInjective(res)
  BY <1>13 DEF IsInjective
<1>16. Complete
  <2>1. ToSet(Answer) \subseteq Closure(M, want) /\ (TooDeep(M) \/ ToSet(Answer) = Closure(M, want))
    BY <1>2, <1>11, <1>12, <1>14
  <2>2. ~Answered("byname")
    BY DEF Answered
  <2> QED
    BY <1>2, <1>15, <2>1, <2>2 DEF Complete, M, want
<1>17. DependenciesFirst
  <2>1. ~Answered("byname")
    BY DEF Answered
  <2>2. ASSUME ~TooDeep(M), Acyclic PROVE \A i, j \in DOMAIN Answer : i < j => ~Needs(Answer[i], Answer[j])
    BY <1>2, <1>4, <1>9, <1>12, <2>2, SelectsOrder
  <2> QED
    BY <2>1, <2>2 DEF DependenciesFirst, M
<1> QED
  BY <1>16, <1>17 DEF ClosedInOrder

(***************************************************************************)
(* The names called for and all they depend on: sets that grow.            *)
(***************************************************************************)

\* A set that has what the modules in it depend on.
Kept(idx, S) == \A m \in S \cap DOMAIN idx : In(idx[m].deps) \subseteq S

\* One set and a later one, which has more names and all that what came depends on, and no more than that.
Grown(idx, had, has, more) ==
  /\ had \subseteq has /\ has \subseteq Nat /\ more \subseteq has
  /\ \A m \in (has \ had) \cap DOMAIN idx : In(idx[m].deps) \subseteq has
  /\ \A S \in SUBSET Nat : Kept(idx, S) /\ had \subseteq S /\ more \subseteq S => has \subseteq S

LEMMA GrownTrans ==
  ASSUME NEW idx, NEW r, NEW s, NEW t, NEW A, NEW B, Grown(idx, r, s, A), Grown(idx, s, t, B)
  PROVE  Grown(idx, r, t, A \cup B)
<1>1. r \subseteq t /\ t \subseteq Nat /\ A \cup B \subseteq t
  BY DEF Grown
<1>2. ASSUME NEW m \in (t \ r) \cap DOMAIN idx PROVE In(idx[m].deps) \subseteq t
  <2>1. CASE m \in s
    <3>1. In(idx[m].deps) \subseteq s
      BY <1>2, <2>1 DEF Grown
    <3> QED
      BY <3>1 DEF Grown
  <2>2. CASE m \notin s
    BY <1>2, <2>2 DEF Grown
  <2> QED
    BY <2>1, <2>2
<1>3. ASSUME NEW S \in SUBSET Nat, Kept(idx, S), r \subseteq S, A \cup B \subseteq S PROVE t \subseteq S
  <2>1. A \subseteq S /\ B \subseteq S
    BY <1>3
  <2>2. s \subseteq S
    BY <1>3, <2>1 DEF Grown
  <2> QED
    BY <1>3, <2>1, <2>2 DEF Grown
<1> QED
  BY <1>1, <1>2, <1>3 DEF Grown

LEMMA AlongGrown ==
  ASSUME NEW idx, NEW f \in Makes(Nat, SUBSET Nat), NEW list \in Seq(Nat), NEW s \in SUBSET Nat,
         \A i \in 1..Len(list) : \A t \in SUBSET Nat : s \subseteq t => Grown(idx, t, f[list[i]][t], {list[i]})
  PROVE  Grown(idx, s, Along(list, f, s), In(list))
<1> DEFINE N == Len(list)
           Up(n) == {list[i] : i \in 1..n}
<1>1. N \in Nat
  OBVIOUS
<1>2. PICK after : Stages(after, SUBSET Nat, list, f, s) /\ Along(list, f, s) = after[N]
  <2>1. PICK S : S = SUBSET Nat
    OBVIOUS
  <2>2. f \in Makes(Nat, S) /\ s \in S /\ list \in Seq(Nat)
    BY <2>1
  <2>3. \E after : Stages(after, S, list, f, s) /\ Along(list, f, s) = after[N]
    BY <2>2, AlongIs
  <2> QED
    BY <2>1, <2>3
<1> DEFINE V == {n \in Nat : n <= N => Grown(idx, s, after[n], Up(n))}
<1>3. 0 \in V
  <2>1. after[0] = s /\ Up(0) = {}
    BY <1>2 DEF Stages
  <2>2. Grown(idx, s, s, {})
    BY DEF Grown
  <2> QED
    BY <2>1, <2>2
<1>4. ASSUME NEW n \in Nat, n \in V PROVE n + 1 \in V
  <2> SUFFICES ASSUME n + 1 <= N PROVE Grown(idx, s, after[n + 1], Up(n + 1))
    OBVIOUS
  <2>1. Grown(idx, s, after[n], Up(n))
    BY <1>1, <1>4
  <2>2. n + 1 \in 1..N /\ after[n + 1] = f[list[n + 1]][after[n]]
    <3>1. n + 1 \in 1..N /\ (n + 1) - 1 = n
      BY <1>1
    <3> QED
      BY <1>2, <3>1 DEF Stages
  <2>3. s \subseteq after[n] /\ after[n] \in SUBSET Nat
    BY <2>1 DEF Grown
  <2>4. Grown(idx, after[n], after[n + 1], {list[n + 1]})
    BY <2>2, <2>3
  <2>5. Up(n + 1) = Up(n) \cup {list[n + 1]}
    <3>1. \A i : i \in 1..n + 1 <=> i \in 1..n \/ i = n + 1
      OBVIOUS
    <3> QED
      BY <3>1
  <2>6. Grown(idx, s, after[n + 1], Up(n) \cup {list[n + 1]})
    BY <2>1, <2>4, GrownTrans
  <2> QED
    BY <2>5, <2>6
<1>5. N \in V
  <2> HIDE DEF V, N
  <2> QED
    BY <1>1, <1>3, <1>4, Induction
<1>6. Grown(idx, s, after[N], Up(N))
  BY <1>1, <1>5
<1>7. Up(N) = In(list)
  BY DEF In
<1> QED
  BY <1>2, <1>6, <1>7

\* A name that came with what it depends on.
LEMMA GrownByName ==
  ASSUME NEW idx, NEW n \in DOMAIN idx, NEW s, NEW t, Grown(idx, s \cup {n}, t, In(idx[n].deps))
  PROVE  Grown(idx, s, t, {n})
<1>1. s \subseteq t /\ t \subseteq Nat /\ {n} \subseteq t
  BY DEF Grown
<1>2. ASSUME NEW m \in (t \ s) \cap DOMAIN idx PROVE In(idx[m].deps) \subseteq t
  <2>1. CASE m = n
    BY <2>1 DEF Grown
  <2>2. CASE m # n
    BY <1>2, <2>2 DEF Grown
  <2> QED
    BY <2>1, <2>2
<1>3. ASSUME NEW S \in SUBSET Nat, Kept(idx, S), s \subseteq S, {n} \subseteq S PROVE t \subseteq S
  <2>1. In(idx[n].deps) \subseteq S
    BY <1>3 DEF Kept
  <2>2. s \cup {n} \subseteq S
    BY <1>3
  <2> QED
    BY <1>3, <2>1, <2>2 DEF Grown
<1> QED
  BY <1>1, <1>2, <1>3 DEF Grown

\* addDepends, level by level.
Follow(c) == [d \in Nat |-> [s \in SUBSET Nat |-> IF d \in s THEN s ELSE c[d][s \cup {d}]]]
Names == Makes(Nat, SUBSET Nat)
ByDepth(g, idx) ==
  /\ g \in [0..Cardinality(DOMAIN idx) -> Names]
  /\ \A n \in Nat, had \in SUBSET Nat : g[0][n][had] = had
  /\ \A k \in 1..Cardinality(DOMAIN idx) : \A n \in Nat, had \in SUBSET Nat :
       g[k][n][had] = IF n \notin DOMAIN idx THEN had ELSE Along(idx[n].deps, Follow(g[k - 1]), had)

LEMMA FollowTyped ==
  ASSUME NEW c \in Names
  PROVE  Follow(c) \in Names
<1>1. \A d \in Nat, s \in SUBSET Nat : (IF d \in s THEN s ELSE c[d][s \cup {d}]) \in SUBSET Nat
  <2> SUFFICES ASSUME NEW d \in Nat, NEW s \in SUBSET Nat PROVE c[d][s \cup {d}] \in SUBSET Nat
    OBVIOUS
  <2>1. s \cup {d} \in SUBSET Nat /\ c[d] \in [SUBSET Nat -> SUBSET Nat]
    BY DEF Names, Makes
  <2> QED
    BY <2>1
<1> QED
  BY <1>1 DEF Names, Makes, Follow

LEMMA AlongTyped ==
  ASSUME NEW X, NEW S, NEW f \in Makes(X, S), NEW s \in S, NEW list \in Seq(X)
  PROVE  Along(list, f, s) \in S
<1>1. PICK after : Stages(after, S, list, f, s) /\ Along(list, f, s) = after[Len(list)]
  BY AlongIs
<1>2. after \in [0..Len(list) -> S] /\ Len(list) \in 0..Len(list)
  BY <1>1 DEF Stages
<1> QED
  BY <1>1, <1>2

LEMMA DependsAre ==
  ASSUME NEW idx, HasDeps(idx, DOMAIN idx), IsFiniteSet(DOMAIN idx)
  PROVE  \E g : /\ ByDepth(g, idx)
                /\ \A name, into : AddDepends(idx, name, into) = g[Cardinality(DOMAIN idx)][name][into]
<1> DEFINE Mods == DOMAIN idx
           levels == Cardinality(Mods)
           S == SUBSET Nat
           One(c) == [n \in Nat |-> [had \in S |-> IF n \notin Mods THEN had ELSE Along(idx[n].deps, Follow(c), had)]]
           F == [c \in Names |-> One(c)]
           base == [n \in Nat |-> [had \in S |-> had]]
           Level(h, left) == [n \in Nat |-> [had \in S |->
                            IF left = 0 \/ n \notin Mods THEN had ELSE Along(idx[n].deps, Follow(h[left - 1]), had)]]
           P(h) == h = [left \in 0..levels |-> Level(h, left)]
<1>0. levels \in Nat
  BY FS_CardinalityType
<1> HIDE DEF levels
<1>1. ASSUME NEW c \in Names PROVE One(c) \in Names
  <2>1. ASSUME NEW n \in Mods, NEW had \in S PROVE Along(idx[n].deps, Follow(c), had) \in S
    <3>1. Follow(c) \in Makes(Nat, S)
      BY FollowTyped DEF Names
    <3>2. idx[n].deps \in Seq(Nat)
      BY DEF HasDeps
    <3> QED
      BY <3>1, <3>2, AlongTyped
  <2> QED
    BY <2>1 DEF Names, Makes
<1>2. (\A c \in Names : F[c] \in Names /\ F[c] = One(c)) /\ base \in Names
  <2>1. base \in Names
    BY DEF Names, Makes
  <2> HIDE DEF One, base
  <2> QED
    BY <1>1, <2>1
<1>3. PICK g : g \in [0..levels -> Names] /\ g[0] = base /\ \A k \in 1..levels : g[k] = F[g[k - 1]]
  <2> HIDE DEF F, base, One
  <2>1. \E g : Upwards(g, Names, F, base, levels)
    BY <1>0, <1>2, UpwardsExist
  <2> QED
    BY <2>1 DEF Upwards
<1>4. \A k \in 1..levels : g[k] = One(g[k - 1])
  <2> HIDE DEF One, F
  <2>1. \A k \in 1..levels : g[k - 1] \in Names
    BY <1>0, <1>3
  <2> QED
    BY <1>2, <1>3, <2>1
<1>5. P(g)
  <2>1. \A left \in 0..levels : g[left] = Level(g, left)
    <3> SUFFICES ASSUME NEW left \in 0..levels PROVE g[left] = Level(g, left)
      OBVIOUS
    <3>1. CASE left = 0
      <4>1. Level(g, left) = base
        BY <3>1
      <4> QED
        BY <1>3, <3>1, <4>1
    <3>2. CASE left # 0
      <4>1. Level(g, left) = One(g[left - 1])
        BY <3>2
      <4>2. left \in 1..levels
        BY <1>0, <3>2
      <4> HIDE DEF Level, One
      <4> QED
        BY <1>4, <4>1, <4>2
    <3> QED
      BY <3>1, <3>2
  <2> HIDE DEF Level
  <2> QED
    BY <1>3, <2>1
<1> DEFINE c == CHOOSE h : P(h)
<1>6. P(c)
  <2> HIDE DEF P
  <2> QED
    BY <1>5
<1>7. \A name, into : AddDepends(idx, name, into) = c[levels][name][into]
  BY DEF AddDepends, Follow, levels
<1> HIDE DEF c
<1>8. \A left \in 0..levels : c[left] = Level(c, left)
  <2> HIDE DEF Level
  <2> QED
    BY <1>6
<1>9. c[0] = base
  <2>1. c[0] = Level(c, 0)
    <3>1. 0 \in 0..levels
      BY <1>0
    <3> HIDE DEF Level, levels
    <3> QED
      BY <1>8, <3>1
  <2> QED
    BY <2>1
<1>10. \A k \in 1..levels : c[k] = One(c[k - 1])
  <2> SUFFICES ASSUME NEW k \in 1..levels PROVE c[k] = One(c[k - 1])
    OBVIOUS
  <2>1. c[k] = Level(c, k)
    <3> HIDE DEF Level
    <3> QED
      BY <1>0, <1>8
  <2>2. k # 0
    BY <1>0
  <2>3. Level(c, k) = One(c[k - 1])
    BY <2>2
  <2> QED
    BY <2>1, <2>3
<1> HIDE DEF One, Level, F
<1>11. ASSUME NEW k \in 0..levels PROVE c[k] \in Names
  <2> DEFINE V == {n \in Nat : n <= levels => c[n] \in Names}
  <2>1. 0 \in V
    BY <1>2, <1>9
  <2>2. ASSUME NEW n \in Nat, n \in V PROVE n + 1 \in V
    <3> SUFFICES ASSUME n + 1 <= levels PROVE c[n + 1] \in Names
      OBVIOUS
    <3>1. c[n] \in Names /\ n + 1 \in 1..levels /\ (n + 1) - 1 = n
      BY <1>0, <2>2
    <3>2. c[n + 1] = One(c[n])
      BY <1>10, <3>1
    <3> QED
      BY <1>1, <3>1, <3>2
  <2>3. k \in V
    <3>1. k \in Nat
      BY <1>0
    <3> HIDE DEF V
    <3> QED
      BY <2>1, <2>2, <3>1, Induction
  <2> QED
    BY <1>0, <2>3
<1>12. c \in [0..levels -> Names]
  BY <1>6, <1>11
<1>13. \A n \in Nat, had \in S : c[0][n][had] = had
  BY <1>9
<1>14. \A k \in 1..levels : \A n \in Nat, had \in S :
          c[k][n][had] = IF n \notin Mods THEN had ELSE Along(idx[n].deps, Follow(c[k - 1]), had)
  <2> SUFFICES ASSUME NEW k \in 1..levels, NEW n \in Nat, NEW had \in S
               PROVE  c[k][n][had] = IF n \notin Mods THEN had ELSE Along(idx[n].deps, Follow(c[k - 1]), had)
    OBVIOUS
  <2>1. c[k] = One(c[k - 1])
    BY <1>10
  <2> HIDE DEF S
  <2> QED
    BY <2>1 DEF One
<1>15. ByDepth(c, idx)
  BY <1>12, <1>13, <1>14 DEF ByDepth, levels
<1> QED
  BY <1>7, <1>15 DEF levels
LEMMA FewerLeft ==
  ASSUME NEW Mods, IsFiniteSet(Mods), NEW s, NEW t, s \subseteq t
  PROVE  /\ Cardinality(Mods \ s) \in Nat /\ Cardinality(Mods \ t) \in Nat
         /\ Cardinality(Mods \ t) <= Cardinality(Mods \ s)
         /\ \A d \in t : d \in Mods /\ d \notin s => Cardinality(Mods \ t) < Cardinality(Mods \ s)
<1> DEFINE A == Mods \ t
           B == Mods \ s
<1>1. A \in SUBSET B /\ B \in SUBSET Mods
  OBVIOUS
<1>2. \A d \in t : d \in Mods /\ d \notin s => d \in B /\ d \notin A
  OBVIOUS
<1> HIDE DEF A, B
<1>3. IsFiniteSet(B) /\ IsFiniteSet(A)
  BY <1>1, FS_Subset
<1>4. Cardinality(A) \in Nat /\ Cardinality(B) \in Nat
  BY <1>3, FS_CardinalityType
<1>5. Cardinality(A) <= Cardinality(B) /\ (A # B => Cardinality(A) < Cardinality(B))
  <2>1. Cardinality(A) <= Cardinality(B) /\ (Cardinality(A) = Cardinality(B) => A = B)
    BY <1>1, <1>3, FS_Subset
  <2> QED
    BY <1>4, <2>1
<1>6. \A d \in t : d \in Mods /\ d \notin s => Cardinality(A) < Cardinality(B)
  BY <1>2, <1>5
<1> QED
  BY <1>4, <1>5, <1>6 DEF A, B

\* What calls that deep give a name that has come: all that it depends on.
Fills(idx, call, left) ==
  \A n \in DOMAIN idx : \A had \in SUBSET Nat :
     Cardinality(DOMAIN idx \ had) < left => Grown(idx, had, call[n][had], In(idx[n].deps))

LEMMA FillsNext ==
  ASSUME NEW idx, HasDeps(idx, DOMAIN idx), IsFiniteSet(DOMAIN idx), NEW c \in Names, NEW left \in Nat,
         Fills(idx, c, left), \A n \in Nat \ DOMAIN idx, had \in SUBSET Nat : c[n][had] = had,
         NEW n \in DOMAIN idx, NEW had \in SUBSET Nat, Cardinality(DOMAIN idx \ had) < left + 1
  PROVE  Grown(idx, had, Along(idx[n].deps, Follow(c), had), In(idx[n].deps))
<1> DEFINE Mods == DOMAIN idx
           list == idx[n].deps
<1>1. list \in Seq(Nat) /\ Mods \subseteq Nat
  BY DEF HasDeps
<1>2. ASSUME NEW d \in Nat, NEW t \in SUBSET Nat, had \subseteq t
      PROVE  Grown(idx, t, Follow(c)[d][t], {d})
  <2>1. Follow(c)[d][t] = IF d \in t THEN t ELSE c[d][t \cup {d}]
    BY DEF Follow
  <2>2. CASE d \in t
    BY <2>1, <2>2 DEF Grown
  <2>3. CASE d \notin t /\ d \notin Mods
    <3>1. t \cup {d} \in SUBSET Nat
      OBVIOUS
    <3>2. Follow(c)[d][t] = t \cup {d}
      BY <2>1, <2>3, <3>1
    <3> QED
      BY <2>3, <3>1, <3>2 DEF Grown
  <2>4. CASE d \notin t /\ d \in Mods
    <3>1. PICK u \in SUBSET Nat : u = t \cup {d}
      OBVIOUS
    <3>2. Cardinality(Mods \ u) < left
      <4>1. /\ Cardinality(Mods \ u) \in Nat /\ Cardinality(Mods \ t) \in Nat /\ Cardinality(Mods \ had) \in Nat
            /\ Cardinality(Mods \ u) < Cardinality(Mods \ t)
        BY <2>4, <3>1, FewerLeft
      <4>2. Cardinality(Mods \ t) <= Cardinality(Mods \ had)
        BY <1>2, FewerLeft
      <4> QED
        BY <4>1, <4>2
    <3>3. Grown(idx, u, c[d][u], In(idx[d].deps))
      BY <2>4, <3>2 DEF Fills
    <3>4. Grown(idx, t, c[d][u], {d})
      BY <2>4, <3>1, <3>3, GrownByName
    <3> QED
      BY <2>1, <2>4, <3>1, <3>4
  <2> QED
    BY <2>2, <2>3, <2>4
<1>3. Follow(c) \in Makes(Nat, SUBSET Nat)
  BY FollowTyped DEF Names
<1>4. \A i \in 1..Len(list) : list[i] \in Nat
  <2> HIDE DEF list
  <2> QED
    BY <1>1
<1>5. \A i \in 1..Len(list) : \A t \in SUBSET Nat : had \subseteq t => Grown(idx, t, Follow(c)[list[i]][t], {list[i]})
  <2> HIDE DEF list
  <2> QED
    BY <1>2, <1>4
<1> HIDE DEF list
<1>6. Grown(idx, had, Along(list, Follow(c), had), In(list))
  BY <1>1, <1>3, <1>5, AlongGrown
<1> QED
  BY <1>6 DEF list

LEMMA FillsAll ==
  ASSUME NEW idx, HasDeps(idx, DOMAIN idx), IsFiniteSet(DOMAIN idx), NEW g, ByDepth(g, idx)
  PROVE  Fills(idx, g[Cardinality(DOMAIN idx)], Cardinality(DOMAIN idx))
<1> DEFINE K == Cardinality(DOMAIN idx)
           V == {k \in Nat : k <= K => Fills(idx, g[k], k)}
<1>1. K \in Nat
  BY FS_CardinalityType
<1>2. 0 \in V
  <2>1. \A had : Cardinality(DOMAIN idx \ had) \in Nat
    BY FewerLeft
  <2>2. \A had : ~(Cardinality(DOMAIN idx \ had) < 0)
    BY <2>1
  <2> QED
    BY <2>2 DEF Fills
<1>3. ASSUME NEW k \in Nat, k \in V PROVE k + 1 \in V
  <2> SUFFICES ASSUME k + 1 <= K PROVE Fills(idx, g[k + 1], k + 1)
    OBVIOUS
  <2>1. k \in 0..K /\ k + 1 \in 1..K /\ (k + 1) - 1 = k /\ k <= K
    BY <1>1
  <2>2. Fills(idx, g[k], k)
    BY <1>3, <2>1
  <2>3. g[k] \in Names
    BY <2>1 DEF ByDepth
  <2>4. \A n \in Nat, had \in SUBSET Nat :
          g[k + 1][n][had] = IF n \notin DOMAIN idx THEN had ELSE Along(idx[n].deps, Follow(g[k]), had)
    BY <2>1 DEF ByDepth
  <2>5. \A n \in Nat \ DOMAIN idx, had \in SUBSET Nat : g[k][n][had] = had
    <3>1. CASE k = 0
      BY <3>1 DEF ByDepth
    <3>2. CASE k # 0
      <4>1. k \in 1..K
        BY <2>1, <3>2
      <4> QED
        BY <4>1 DEF ByDepth
    <3> QED
      BY <3>1, <3>2
  <2>6. ASSUME NEW n \in DOMAIN idx, NEW had \in SUBSET Nat, Cardinality(DOMAIN idx \ had) < k + 1
        PROVE  Grown(idx, had, g[k + 1][n][had], In(idx[n].deps))
    <3>1. n \in Nat
      BY DEF HasDeps
    <3>2. PICK c \in Names : c = g[k]
      BY <2>3
    <3>3. Grown(idx, had, Along(idx[n].deps, Follow(c), had), In(idx[n].deps))
      BY <2>2, <2>5, <2>6, <3>2, FillsNext
    <3> QED
      BY <2>4, <3>1, <3>2, <3>3
  <2> QED
    BY <2>6 DEF Fills
<1>4. K \in V
  <2> HIDE DEF V, K
  <2> QED
    BY <1>1, <1>2, <1>3, Induction
<1> QED
  BY <1>1, <1>4

LEMMA DependingGrown ==
  ASSUME NEW idx, HasDeps(idx, DOMAIN idx), IsFiniteSet(DOMAIN idx), NEW names \in Seq(Nat)
  PROVE  Grown(idx, {}, Depending(idx, names), In(names) \cap DOMAIN idx)
<1> DEFINE Mods == DOMAIN idx
           K == Cardinality(Mods)
           list == Within(names, Mods)
           f == [n \in Nat |-> [into \in SUBSET Nat |-> AddDepends(idx, n, into \cup {n})]]
<1>1. PICK g : ByDepth(g, idx) /\ \A name, into : AddDepends(idx, name, into) = g[K][name][into]
  BY DependsAre
<1>2. K \in Nat /\ g[K] \in Names
  <2>1. K \in Nat
    BY FS_CardinalityType
  <2> HIDE DEF K
  <2> QED
    BY <1>1, <2>1 DEF ByDepth, K
<1>3. PICK c \in Names : c = g[K]
  BY <1>2
<1>4. Fills(idx, c, K)
  BY <1>1, <1>3, FillsAll
<1>5. \A n \in Nat, into \in SUBSET Nat : f[n][into] = c[n][into \cup {n}] /\ f[n][into] \in SUBSET Nat
  <2> SUFFICES ASSUME NEW n \in Nat, NEW into \in SUBSET Nat
               PROVE  f[n][into] = c[n][into \cup {n}] /\ f[n][into] \in SUBSET Nat
    OBVIOUS
  <2>1. f[n][into] = AddDepends(idx, n, into \cup {n})
    OBVIOUS
  <2>2. AddDepends(idx, n, into \cup {n}) = c[n][into \cup {n}]
    BY <1>1, <1>3
  <2>3. PICK u \in SUBSET Nat : u = into \cup {n}
    OBVIOUS
  <2>4. c[n][u] \in SUBSET Nat
    BY DEF Names, Makes
  <2> HIDE DEF f
  <2> QED
    BY <2>1, <2>2, <2>3, <2>4
<1>6. f \in Makes(Nat, SUBSET Nat)
  <2>1. \A n \in Nat, into \in SUBSET Nat : AddDepends(idx, n, into \cup {n}) \in SUBSET Nat
    BY <1>5
  <2> QED
    BY <2>1 DEF Makes
<1>7. list \in Seq(Nat) /\ In(list) = In(names) \cap Mods
  <2>1. list \in Seq(Nat \cap Mods)
    BY WithinPlaces
  <2>2. /\ \A k \in 1..Len(list) : \E i \in 1..Len(names) : list[k] = names[i]
        /\ \A i \in 1..Len(names) : names[i] \in Mods => \E k \in 1..Len(list) : list[k] = names[i]
    BY WithinSet
  <2> HIDE DEF list
  <2>3. list \in Seq(Nat) /\ \A k \in 1..Len(list) : list[k] \in Mods
    <3>1. Nat \cap Mods \subseteq Nat
      OBVIOUS
    <3>2. list \in Seq(Nat)
      BY <2>1, <3>1, SeqWider
    <3> QED
      BY <2>1, <3>2
  <2>4. In(list) \subseteq In(names) \cap Mods
    <3> SUFFICES ASSUME NEW k \in 1..Len(list) PROVE list[k] \in In(names) \cap Mods
      BY DEF In
    <3>1. PICK i \in 1..Len(names) : list[k] = names[i]
      BY <2>2
    <3> QED
      BY <2>3, <3>1 DEF In
  <2>5. In(names) \cap Mods \subseteq In(list)
    <3> SUFFICES ASSUME NEW i \in 1..Len(names), names[i] \in Mods PROVE names[i] \in In(list)
      BY DEF In
    <3> QED
      BY <2>2 DEF In
  <2> QED
    BY <2>3, <2>4, <2>5
<1>8. ASSUME NEW n \in Mods, NEW t \in SUBSET Nat PROVE Grown(idx, t, f[n][t], {n})
  <2>1. n \in Nat
    BY DEF HasDeps
  <2>2. PICK u \in SUBSET Nat : u = t \cup {n}
    BY <2>1
  <2>3. Cardinality(Mods \ u) < K
    <3>1. Cardinality(Mods \ u) < Cardinality(Mods \ {})
      BY <2>2, FewerLeft
    <3>2. Mods \ {} = Mods
      OBVIOUS
    <3> QED
      BY <3>1, <3>2
  <2>4. Grown(idx, u, c[n][u], In(idx[n].deps))
    BY <1>4, <2>3 DEF Fills
  <2>5. Grown(idx, t, c[n][u], {n})
    BY <2>2, <2>4, GrownByName
  <2> HIDE DEF f
  <2> QED
    BY <1>5, <2>1, <2>2, <2>5
<1>9. Depending(idx, names) = Along(list, f, {})
  BY DEF Depending
<1>10. \A i \in 1..Len(list) : \A t \in SUBSET Nat : {} \subseteq t => Grown(idx, t, f[list[i]][t], {list[i]})
  <2>1. \A i \in 1..Len(list) : list[i] \in Mods
    BY <1>7 DEF In
  <2> HIDE DEF f, list
  <2> QED
    BY <1>8, <2>1
<1>11. Grown(idx, {}, Along(list, f, {}), In(list))
  <2> HIDE DEF f, list
  <2>1. {} \in SUBSET Nat
    OBVIOUS
  <2> QED
    BY <1>6, <1>7, <1>10, <2>1, AlongGrown
<1> QED
  BY <1>7, <1>9, <1>11

LEMMA DependingIs ==
  ASSUME IsIndex(input.idx), NEW names \in Seq(Nat)
  PROVE  Pack \cap Depending(LinkSymbols(input.idx), names) = Closure(Pack, Pack \cap In(names))
<1>1. PICK idx : idx = LinkSymbols(input.idx)
  OBVIOUS
<1>2. /\ DOMAIN idx = Pack
      /\ \A m \in Pack :
           /\ idx[m].deps \in Seq(Nat)
           /\ \A d \in Pack : d # m => (d \in In(idx[m].deps) <=> Needs(m, d))
  BY <1>1, PackDeps
<1>3. Pack \subseteq Nat /\ IsFiniteSet(Pack) /\ HasDeps(idx, Pack)
  BY <1>2 DEF IsIndex, Pack, HasDeps
<1>4. PICK want : want = Depending(idx, names)
  OBVIOUS
<1>5. Grown(idx, {}, want, In(names) \cap Pack)
  BY <1>2, <1>3, <1>4, DependingGrown
<1> DEFINE A == Pack \cap In(names)
<1>6. A \subseteq want /\ want \subseteq Nat /\ \A m \in want \cap Pack : In(idx[m].deps) \subseteq want
  BY <1>2, <1>5 DEF Grown
<1>7. Closure(Pack, A) \subseteq Pack \cap want
  <2>1. \A n \in Pack \cap want, d \in Pack : Needs(n, d) => d \in Pack \cap want
    BY <1>2, <1>6 DEF Needs
  <2>2. Pack \cap want \in SUBSET Pack /\ A \subseteq Pack \cap want
    BY <1>6
  <2> HIDE DEF A
  <2> QED
    BY <2>1, <2>2 DEF Closure
<1>8. ASSUME NEW m \in Pack \cap want, NEW S \in SUBSET Pack, A \subseteq S,
             \A n \in S, d \in Pack : Needs(n, d) => d \in S
      PROVE  m \in S
  <2> DEFINE T == S \cup (Nat \ Pack)
  <2>1. Kept(idx, T)
    <3> SUFFICES ASSUME NEW n \in S, NEW d \in In(idx[n].deps) PROVE d \in T
      BY <1>2 DEF Kept
    <3>1. d \in Nat
      <4>1. idx[n].deps \in Seq(Nat)
        BY <1>2
      <4>2. \A q \in Seq(Nat) : \A e \in In(q) : e \in Nat
        BY DEF In
      <4> QED
        BY <4>1, <4>2
    <3>2. CASE d \in Pack
      BY <1>2, <1>8, <3>2
    <3> QED
      BY <3>1, <3>2
  <2>2. T \in SUBSET Nat /\ In(names) \cap Pack \subseteq T
    BY <1>3, <1>8
  <2> HIDE DEF T
  <2>3. want \subseteq T
    BY <1>5, <2>1, <2>2 DEF Grown
  <2> QED
    BY <2>3 DEF T
<1>9. Pack \cap want \subseteq Closure(Pack, A)
  <2> HIDE DEF A
  <2> QED
    BY <1>8 DEF Closure
<1> QED
  BY <1>1, <1>4, <1>7, <1>9

LEMMA EnoughLevels ==
  ASSUME NEW idx, NEW Mods, IsFiniteSet(Mods), NEW M \in SUBSET Mods
  PROVE  Reaches(idx, M, Cardinality(Mods))
<1> SUFFICES ASSUME NEW p, Trail(idx, M, p, Cardinality(Mods) + 1) PROVE FALSE
  BY DEF Reaches
<1>1. PICK n \in Nat : n = Cardinality(Mods) + 1 /\ Cardinality(Mods) < n
  BY FS_CardinalityType
<1>2. IsFiniteSet(1..n) /\ Cardinality(1..n) = n
  BY FS_Interval
<1>3. p \in [1..n -> Mods] /\ \A i, j \in 1..n : p[i] = p[j] => i = j
  BY <1>1 DEF Trail
<1>4. \E i, j \in 1..n : i # j /\ p[i] = p[j]
  BY <1>1, <1>2, <1>3, FS_PigeonHole
<1> QED
  BY <1>3, <1>4

LEMMA ByNameRight ==
  ASSUME IsIndex(input.idx), input.kind = "byname", input.names \in Seq(Nat), input.first \in Seq(Nat),
         Pack \subseteq ToSet(input.first),
         output = <<ByName(LinkSymbols(input.idx), input.names, input.first)>>
  PROVE  ClosedInOrder
<1> DEFINE idx == LinkSymbols(input.idx)
           M == Pack \cap Depending(idx, input.names)
           levels == Cardinality(Pack)
<1>1. PICK res : res = ByName(idx, input.names, input.first)
  OBVIOUS
<1>2. Answer = res /\ output # <<>>
  BY <1>1 DEF Answer
<1>3. DOMAIN idx = Pack
  BY LinkedDeps DEF Pack
<1>4. M \in SUBSET Pack /\ levels \in Nat /\ IsFiniteSet(Pack)
  BY FS_CardinalityType DEF IsIndex, Pack
<1>5. M = Closure(Pack, Pack \cap ToSet(input.names))
  BY DependingIs, InToSet
<1>6. res = Along(input.first, Walk(idx, M, levels), NothingYet).out
  BY <1>1, <1>3 DEF ByName, Visit
<1>7. HasDeps(idx, M)
  BY <1>4, LeadsNeeds
<1> HIDE DEF levels, M, idx
<1>8. Selects(idx, M, levels, input.first, res)
  BY <1>4, <1>6, <1>7, WholeWalk
<1>9. Reaches(idx, M, levels)
  BY <1>4, EnoughLevels DEF levels
<1>10. res \in Seq(M) /\ \A i, j \in 1..Len(res) : res[i] = res[j] => i = j
  BY <1>8 DEF Selects
<1>11. ToSet(res) = In(res) /\ In(res) \subseteq M
  BY <1>10, InToSet DEF In
<1>12. M \subseteq In(input.first)
  BY <1>4, InToSet
<1>13. In(res) = M
  BY <1>8, <1>9, <1>11, <1>12 DEF Selects
<1>14. IsInjective(res)
  BY <1>10 DEF IsInjective
<1>15. ~Answered("resolve")
  BY DEF Answered
<1>16. Complete
  BY <1>2, <1>5, <1>11, <1>13, <1>14, <1>15 DEF Complete
<1>17. ASSUME Acyclic PROVE \A i, j \in DOMAIN Answer : i < j => ~Needs(Answer[i], Answer[j])
  BY <1>2, <1>4, <1>8, <1>9, <1>17, SelectsOrder DEF idx
<1>18. DependenciesFirst
  BY <1>15, <1>17 DEF DependenciesFirst
<1> QED
  BY <1>16, <1>18 DEF ClosedInOrder

\* What the inputs are, and what was made of one.
PacksInv ==
  /\ input \in Inputs
  /\ output # <<>> =>
       \/ /\ input.kind = "resolve"
          /\ output = <<ResolvePreferring(LinkSymbols(input.idx), input.devices, input.loaded, input.prefer)>>
       \/ /\ input.kind = "byname"
          /\ output = <<ByName(LinkSymbols(input.idx), input.names, input.first)>>

LEMMA PacksInvHolds == PacksSpec => []PacksInv
<1>1. PacksInit => PacksInv
  BY DEF PacksInit, PacksInv
<1>2. PacksInv /\ [PacksNext]_packsVars => PacksInv'
  <2> SUFFICES ASSUME PacksInv, [PacksNext]_packsVars PROVE PacksInv'
    OBVIOUS
  <2>1. CASE Resolve
    BY <2>1 DEF PacksInv, Resolve
  <2>2. CASE Select
    BY <2>2 DEF PacksInv, Select
  <2>3. CASE UNCHANGED packsVars
    BY <2>3 DEF PacksInv, packsVars
  <2> QED
    BY <2>1, <2>2, <2>3 DEF PacksNext
<1> QED
  BY <1>1, <1>2, PTL DEF PacksSpec

THEOREM ClosedInOrderCorrect == PacksSpec => []ClosedInOrder
<1>1. PacksInv => ClosedInOrder
  <2> SUFFICES ASSUME PacksInv PROVE ClosedInOrder
    OBVIOUS
  <2>1. IsIndex(input.idx)
    BY InputsAssumption DEF PacksInv, IsIndex, IndexEntries
  <2>2. CASE output = <<>>
    BY <2>2 DEF ClosedInOrder, Complete, DependenciesFirst, Answered
  <2>3. CASE /\ input.kind = "resolve"
             /\ output = <<ResolvePreferring(LinkSymbols(input.idx), input.devices, input.loaded, input.prefer)>>
    BY <2>1, <2>3, ResolveRight
  <2>4. CASE /\ input.kind = "byname"
             /\ output = <<ByName(LinkSymbols(input.idx), input.names, input.first)>>
    <3>1. input.names \in Seq(Nat) /\ input.first \in Seq(Nat) /\ Pack \subseteq ToSet(input.first)
      BY <2>4, InputsAssumption DEF PacksInv, Pack
    <3> QED
      BY <2>1, <2>4, <3>1, ByNameRight
  <2> QED
    BY <2>2, <2>3, <2>4 DEF PacksInv
<1> QED
  BY <1>1, PacksInvHolds, PTL
(***************************************************************************)
(* The passes. What a module needs, as the least set that holds it.        *)
(***************************************************************************)
Pool == DOMAIN pack.idx

LEMMA PackIs ==
  ASSUME pack \in Packs
  PROVE  /\ Pool \subseteq Nat /\ IsFiniteSet(Pool) /\ HasDeps(pack.idx, Pool)
         /\ \A m \in Pool : pack.idx[m].deps \in Seq(Nat) /\ m # NoDriver
         /\ \A m \in Pool : \A y : Uses(m, y) <=> y \in Pool /\ y \in In(pack.idx[m].deps)
         /\ pack.prefer \subseteq Pool
<1>1. /\ Pool \subseteq Nat /\ IsFiniteSet(Pool) /\ pack.prefer \subseteq Pool
      /\ \A m \in Pool : pack.idx[m].deps \in Seq(Nat) /\ m # NoDriver
  BY PassesAssumption DEF Pool
<1>2. HasDeps(pack.idx, Pool)
  BY <1>1 DEF HasDeps
<1>3. ASSUME NEW m \in Pool, NEW y PROVE Uses(m, y) <=> y \in Pool /\ y \in In(pack.idx[m].deps)
  <2>1. ToSet(pack.idx[m].deps) = In(pack.idx[m].deps)
    BY <1>1, InToSet
  <2> QED
    BY <2>1 DEF Uses, Pool
<1> QED
  BY <1>1, <1>2, <1>3

LEMMA NeededLeast ==
  ASSUME pack \in Packs, NEW m \in Pool
  PROVE  Grown(pack.idx, {m}, Needed(m), In(pack.idx[m].deps))
<1> DEFINE idx == pack.idx
           K == Cardinality(Pool)
<1>1. HasDeps(idx, DOMAIN idx) /\ IsFiniteSet(DOMAIN idx) /\ m \in Nat
  BY PackIs DEF Pool
<1>2. PICK g : /\ ByDepth(g, idx)
               /\ \A name, into : AddDepends(idx, name, into) = g[Cardinality(DOMAIN idx)][name][into]
  BY <1>1, DependsAre
<1>3. Fills(idx, g[K], K)
  BY <1>1, <1>2, FillsAll DEF Pool
<1>4. Cardinality(Pool \ {m}) < K
  <2>1. Cardinality(DOMAIN idx \ {m}) < Cardinality(DOMAIN idx \ {})
    BY <1>1, FewerLeft DEF Pool
  <2>2. DOMAIN idx \ {} = Pool
    BY DEF Pool
  <2> QED
    BY <2>1, <2>2 DEF Pool
<1>5. {m} \in SUBSET Nat
  BY <1>1
<1>6. Grown(idx, {m}, g[K][m][{m}], In(idx[m].deps))
  BY <1>3, <1>4, <1>5 DEF Fills, Pool
<1> QED
  BY <1>2, <1>6 DEF Needed, Pool

\* It is closed, and what it holds needs no more.
LEMMA NeededIs ==
  ASSUME pack \in Packs, NEW m \in Pool
  PROVE  /\ m \in Needed(m) /\ Needed(m) \subseteq Nat
         /\ \A n \in Needed(m) \cap Pool : \A y : Uses(n, y) => y \in Needed(m)
         /\ \A n \in Needed(m) \cap Pool : Needed(n) \subseteq Needed(m)
<1>1. Grown(pack.idx, {m}, Needed(m), In(pack.idx[m].deps))
  BY NeededLeast
<1>2. m \in Needed(m) /\ Needed(m) \subseteq Nat
  BY <1>1 DEF Grown
<1>3. \A n \in Needed(m) \cap Pool : In(pack.idx[n].deps) \subseteq Needed(m)
  BY <1>1 DEF Grown, Pool
<1>4. ASSUME NEW n \in Needed(m) \cap Pool PROVE Needed(n) \subseteq Needed(m)
  <2>1. Grown(pack.idx, {n}, Needed(n), In(pack.idx[n].deps))
    BY NeededLeast
  <2>2. Kept(pack.idx, Needed(m))
    BY <1>3 DEF Kept, Pool
  <2> QED
    BY <1>2, <1>3, <1>4, <2>1, <2>2 DEF Grown
<1>5. \A n \in Needed(m) \cap Pool : \A y : Uses(n, y) => y \in Needed(m)
  BY <1>3, PackIs
<1> QED
  BY <1>2, <1>4, <1>5

\* What a module needs besides itself, something that it uses needs.
LEMMA Through ==
  ASSUME pack \in Packs, NEW m \in Pool, NEW n \in Needed(m) \cap Pool, n # m
  PROVE  \E y \in Pool : Uses(m, y) /\ n \in Needed(y)
<1> DEFINE Below == UNION {Needed(y) : y \in {z \in Pool : Uses(m, z)}}
           T == {m} \cup Below \cup (Nat \ Pool)
<1>1. T \in SUBSET Nat
  <2>1. Below \subseteq Nat
    BY NeededIs
  <2> QED
    BY <2>1, PackIs
<1>2. \A z \in Pool : z \in In(pack.idx[m].deps) => z \in Below
  <2> SUFFICES ASSUME NEW z \in Pool, z \in In(pack.idx[m].deps) PROVE z \in Below
    OBVIOUS
  <2>1. Uses(m, z) /\ z \in Needed(z)
    BY PackIs, NeededIs
  <2> QED
    BY <2>1
<1>3. \A x \in Pool : In(pack.idx[x].deps) \subseteq Nat
  <2>1. \A q \in Seq(Nat) : In(q) \subseteq Nat
    BY DEF In
  <2> QED
    BY <2>1, PackIs
<1>4. Kept(pack.idx, T)
  <2> SUFFICES ASSUME NEW x \in T \cap Pool, NEW z \in In(pack.idx[x].deps) PROVE z \in T
    BY DEF Kept, Pool
  <2>1. CASE z \notin Pool
    BY <1>3, <2>1
  <2>2. CASE z \in Pool /\ x = m
    BY <1>2, <2>2
  <2>3. CASE z \in Pool /\ x # m
    <3>1. PICK y \in Pool : Uses(m, y) /\ x \in Needed(y)
      BY <2>3
    <3>2. Uses(x, z)
      BY <2>3, PackIs
    <3>3. z \in Needed(y)
      BY <3>1, <3>2, NeededIs
    <3> QED
      BY <3>1, <3>3
  <2> QED
    BY <2>1, <2>2, <2>3
<1>5. {m} \subseteq T /\ In(pack.idx[m].deps) \subseteq T
  BY <1>2, <1>3
<1> HIDE DEF T
<1>6. Needed(m) \subseteq T
  BY <1>1, <1>4, <1>5, NeededLeast DEF Grown
<1> QED
  BY <1>6 DEF T

\* No two modules need each other.
LEMMA NoRing ==
  ASSUME pack \in Packs, Orderly, NEW m \in Pool, NEW n \in Needed(m) \cap Pool, m \in Needed(n)
  PROVE  n = m
<1> SUFFICES ASSUME n # m PROVE FALSE
  OBVIOUS
<1> DEFINE S == {x \in Pool : x \in Needed(m) /\ m \in Needed(x)}
<1>1. S \in SUBSET Pool /\ S # {} /\ n \in S /\ m \in S
  <2>1. m \in Needed(m) /\ n \in Needed(n) /\ n \in Pool
    BY NeededIs
  <2>2. n \in S /\ m \in S /\ S \subseteq Pool
    BY <2>1
  <2> HIDE DEF S
  <2> QED
    BY <2>2
<1>2. PICK x \in S : \A d \in S : ~Uses(x, d)
  <2> HIDE DEF S
  <2> QED
    BY <1>1 DEF Orderly, Pool
<1>3. \E goal \in S : goal # x /\ goal \in Needed(x)
  <2>1. CASE x = m
    BY <1>1, <2>1
  <2>2. CASE x # m
    BY <1>1, <2>2
  <2> QED
    BY <2>1, <2>2
<1>4. PICK goal \in S : goal # x /\ goal \in Needed(x)
  BY <1>3
<1>5. PICK y \in Pool : Uses(x, y) /\ goal \in Needed(y)
  BY <1>4, Through
<1>6. y \in Needed(x) /\ Needed(x) \subseteq Needed(m)
  BY <1>5, NeededIs
<1>7. m \in Needed(y)
  BY <1>4, <1>5, NeededIs
<1>8. y \in S
  BY <1>6, <1>7
<1> QED
  BY <1>2, <1>5, <1>8

\* What a willing module needs is willing, and asks for no device.
LEMMA WillingBelow ==
  ASSUME pack \in Packs, Orderly, NEW m \in Pool, Willing(m), NEW n \in Needed(m) \cap Pool
  PROVE  Willing(n) /\ (n # m => n \notin pack.shy)
<1>1. Needed(n) \subseteq Needed(m)
  BY NeededIs
<1>2. m \in Needed(n) => n = m
  BY NoRing
<1> QED
  BY <1>1, <1>2 DEF Willing

(***************************************************************************)
(* What a pass finds to load.                                              *)
(***************************************************************************)

\* Devices that are there call for it, by a module that asks for them.
Called(n) == \E e \in present : \E m \in Pool : AsksFor(m, e) /\ n \in Needed(m)

Preferred == IF stage = "init" THEN pack.prefer ELSE {}

LEMMA WantedByDevices ==
  ASSUME pack \in Packs, stage \in {"boot", "init"}
  PROVE  \A n : n \in Wanted(pack.idx, present, InKernel, Preferred) <=>
                n \in Pool \ InKernel /\ \E e \in present : AsksFor(n, e)
<1> DEFINE found(d) == {n \in DOMAIN pack.idx : d \in pack.idx[n].drives}
           sought(d) == IF found(d) \cap Preferred # {} THEN found(d) \cap Preferred ELSE found(d)
           all == UNION {sought(d) : d \in present}
<1>1. Wanted(pack.idx, present, InKernel, Preferred) = all \ InKernel
  BY DEF Wanted
<1>2. \A d, n : n \in found(d) <=> n \in Pool /\ Drives(n, d)
  BY DEF Pool, Drives
<1>3. pack.prefer \subseteq Pool
  BY PackIs
<1>4. ASSUME NEW d, NEW n PROVE n \in sought(d) <=> n \in Pool /\ AsksFor(n, d)
  <2> HIDE DEF found
  <2>1. CASE stage = "init"
    <3>1. Preferred = pack.prefer
      BY <2>1 DEF Preferred
    <3> QED
      BY <1>2, <1>3, <2>1, <3>1 DEF AsksFor
  <2>2. CASE stage = "boot"
    <3>1. Preferred = {}
      BY <2>2 DEF Preferred
    <3> QED
      BY <1>2, <2>2, <3>1 DEF AsksFor
  <2> QED
    BY <2>1, <2>2
<1> HIDE DEF sought
<1>5. \A n : n \in all <=> \E d \in present : n \in sought(d)
  OBVIOUS
<1> HIDE DEF all
<1> QED
  BY <1>1, <1>4, <1>5

\* A pack in order has no loop and no trail too deep, in any of its parts.
LEMMA OrderlyWalks ==
  ASSUME pack \in Packs, Orderly, NEW M \in SUBSET Pool
  PROVE  /\ NoLoop(pack.idx, M) /\ Reaches(pack.idx, M, MaxDepth + 1)
         /\ \A m \in Pool : ~Uses(m, m)
<1>1. \A m, d : Leads(pack.idx, M, m, d) => m \in M /\ d \in M /\ Uses(m, d)
  BY PackIs DEF Leads, In
<1>2. NoLoop(pack.idx, M)
  <2> SUFFICES ASSUME NEW S \in SUBSET M, S # {} PROVE \E m \in S : \A d \in S : ~Leads(pack.idx, M, m, d)
    BY DEF NoLoop
  <2>1. S \in SUBSET Pool
    OBVIOUS
  <2>2. PICK m \in S : \A d \in S : ~Uses(m, d)
    BY <2>1 DEF Orderly, Pool
  <2> QED
    BY <1>1, <2>2
<1>3. Reaches(pack.idx, M, MaxDepth + 1)
  <2> SUFFICES ASSUME NEW p, Trail(pack.idx, M, p, (MaxDepth + 1) + 1) PROVE FALSE
    BY DEF Reaches
  <2>1. (MaxDepth + 1) + 1 = MaxDepth + 2 /\ (MaxDepth + 2) - 1 = MaxDepth + 1 /\ MaxDepth \in Nat
    BY KmodAssumption
  <2>2. Trail(pack.idx, M, p, MaxDepth + 2)
    BY <2>1
  <2>3. p \in [1 .. MaxDepth + 2 -> M] /\ \A i \in 1 .. MaxDepth + 1 : Leads(pack.idx, M, p[i], p[i + 1])
    BY <2>1, <2>2 DEF Trail
  <2>4. p \in [1 .. MaxDepth + 2 -> DOMAIN pack.idx]
    BY <2>3 DEF Pool
  <2>5. \A i \in 1 .. MaxDepth + 1 : Uses(p[i], p[i + 1])
    BY <1>1, <2>3
  <2> QED
    BY <2>4, <2>5 DEF Orderly
<1>4. ASSUME NEW m \in Pool PROVE ~Uses(m, m)
  <2>1. PICK S \in SUBSET Pool : S = {m}
    OBVIOUS
  <2>2. PICK x \in S : \A d \in S : ~Uses(x, d)
    BY <2>1 DEF Orderly, Pool
  <2> QED
    BY <2>1, <2>2
<1> QED
  BY <1>2, <1>3, <1>4

\* What a pass puts in its list.
ListOK(res) ==
  /\ res \in Seq(Pool)
  /\ \A i, j \in 1..Len(res) : res[i] = res[j] => i = j
  /\ ToSet(res) \cap InKernel = {}
  /\ \A n \in ToSet(res) : Called(n)
FullList(res) ==
  /\ \A n \in Pool \ InKernel : Called(n) => n \in ToSet(res)
  /\ \A i, j \in 1..Len(res) : i <= j => ~Uses(res[i], res[j])

KernelLinked == \A m \in InKernel : \A y : Uses(m, y) => y \in InKernel

LEMMA PassList ==
  ASSUME pack \in Packs, stage \in {"boot", "init"}, InKernel \subseteq Pool, KernelLinked,
         NEW res, res = ResolvePreferring(pack.idx, present, InKernel, Preferred)
  PROVE  ListOK(res) /\ (Orderly => FullList(res))
<1> DEFINE idx == pack.idx
           M == Pool \ InKernel
           want == Wanted(idx, present, InKernel, Preferred)
           roots == Sorted(want)
           levels == MaxDepth + 1
<1>1. /\ Pool \subseteq Nat /\ IsFiniteSet(Pool) /\ HasDeps(idx, M) /\ levels \in Nat
      /\ \A m \in Pool : \A y : Uses(m, y) <=> y \in Pool /\ y \in In(idx[m].deps)
  BY PackIs, KmodAssumption DEF HasDeps
<1>2. \A n : n \in want <=> n \in M /\ \E e \in present : AsksFor(n, e)
  BY WantedByDevices
<1>3. roots \in Seq(Nat) /\ In(roots) = want
  <2>1. want \in SUBSET Nat /\ IsFiniteSet(want)
    <3>1. want \subseteq Pool
      BY <1>2
    <3> HIDE DEF want
    <3> QED
      BY <1>1, <3>1, FS_Subset
  <2> HIDE DEF want
  <2>2. roots \in Seq(want) /\ In(roots) = want
    BY <2>1, SortedIs
  <2> QED
    BY <2>1, <2>2, SeqWider
<1>4. res = Along(roots, Walk(idx, M, levels), NothingYet).out
  BY DEF ResolvePreferring, Add, Pool
<1> HIDE DEF roots, levels, want
<1>5. Selects(idx, M, levels, roots, res)
  BY <1>1, <1>3, <1>4, WholeWalk
<1>6. res \in Seq(M) /\ \A i, j \in 1..Len(res) : res[i] = res[j] => i = j
  BY <1>5 DEF Selects
<1>7. res \in Seq(Pool) /\ ToSet(res) = In(res) /\ In(res) \subseteq M
  <2>1. M \subseteq Pool
    OBVIOUS
  <2>2. res \in Seq(Pool)
    BY <1>6, <2>1, SeqWider
  <2>3. In(res) \subseteq M
    BY <1>6 DEF In
  <2> QED
    BY <2>2, <2>3, InToSet
<1>8. \A m, d : Leads(idx, M, m, d) <=> m \in M /\ d \in M /\ d # m /\ Uses(m, d)
  <2> SUFFICES ASSUME NEW m, NEW d PROVE Leads(idx, M, m, d) <=> m \in M /\ d \in M /\ d # m /\ Uses(m, d)
    OBVIOUS
  <2>1. Leads(idx, M, m, d) <=> m \in M /\ d \in M /\ d # m /\ d \in In(idx[m].deps)
    BY DEF Leads, In
  <2> QED
    BY <1>1, <2>1
<1>9. \A n \in ToSet(res) : Called(n)
  <2> DEFINE S == {n \in M : Called(n)}
  <2>1. Shut(idx, M, S)
    <3> SUFFICES ASSUME NEW m \in S, NEW d \in M, Leads(idx, M, m, d) PROVE Called(d)
      BY DEF Shut
    <3>1. Uses(m, d)
      BY <1>8
    <3>2. PICK e \in present, w \in Pool : AsksFor(w, e) /\ m \in Needed(w)
      BY DEF Called
    <3>3. d \in Needed(w)
      BY <3>1, <3>2, NeededIs
    <3> QED
      BY <3>2, <3>3 DEF Called
  <2>2. In(roots) \cap M \subseteq S
    <3> SUFFICES ASSUME NEW n \in M, n \in want PROVE Called(n)
      BY <1>3
    <3>1. n \in Needed(n)
      BY NeededIs
    <3> QED
      BY <1>2, <3>1 DEF Called
  <2>3. S \in SUBSET M
    OBVIOUS
  <2> HIDE DEF S
  <2>4. In(res) \subseteq S
    BY <1>5, <2>1, <2>2, <2>3 DEF Selects
  <2> QED
    BY <1>7, <2>4 DEF S
<1>10. ListOK(res)
  BY <1>6, <1>7, <1>9 DEF ListOK
<1>11. ASSUME Orderly PROVE FullList(res)
  <2>1. NoLoop(idx, M) /\ Reaches(idx, M, levels) /\ \A m \in Pool : ~Uses(m, m)
    BY <1>11, OrderlyWalks DEF levels
  <2>2. want \subseteq In(res) /\ Shut(idx, M, In(res))
    <3>1. In(roots) \cap M = want
      BY <1>2, <1>3
    <3> QED
      BY <1>5, <2>1, <3>1 DEF Selects
  <2>3. \A i \in 1..Len(res), d \in M : Leads(idx, M, res[i], d) => \E k \in 1..i - 1 : res[k] = d
    BY <1>5, <2>1 DEF Selects
  <2>4. ASSUME NEW n \in M, Called(n) PROVE n \in ToSet(res)
    <3>1. PICK e \in present, w \in Pool : AsksFor(w, e) /\ n \in Needed(w)
      BY <2>4 DEF Called
    <3> DEFINE T == InKernel \cup In(res) \cup (Nat \ Pool)
    <3>2. Kept(idx, T)
      <4> SUFFICES ASSUME NEW x \in T \cap Pool, NEW z \in In(idx[x].deps) PROVE z \in T
        BY DEF Kept, Pool
      <4>1. z \in Nat
        <5>1. idx[x].deps \in Seq(Nat)
          BY PackIs
        <5> QED
          BY <5>1 DEF In
      <4>2. CASE z \notin Pool
        BY <4>1, <4>2
      <4>3. CASE z \in Pool
        <5>1. Uses(x, z)
          BY <1>1, <4>3
        <5>2. CASE x \in InKernel
          BY <5>1, <5>2 DEF KernelLinked
        <5>3. CASE x \in In(res)
          <6>1. CASE z \in InKernel \/ z = x
            BY <5>3, <6>1
          <6>2. CASE z \in M /\ z # x
            <7>1. Leads(idx, M, x, z)
              BY <1>7, <1>8, <5>1, <5>3, <6>2
            <7> QED
              BY <2>2, <5>3, <6>2, <7>1 DEF Shut
          <6> QED
            BY <4>3, <6>1, <6>2
        <5> QED
          BY <5>2, <5>3
      <4> QED
        BY <4>2, <4>3
    <3>3. w \in T /\ T \in SUBSET Nat
      <4>1. w \in InKernel \/ w \in want
        BY <1>2, <3>1
      <4>2. T \subseteq Nat
        BY <1>1, <1>7
      <4> QED
        BY <2>2, <4>1, <4>2
    <3>4. In(idx[w].deps) \subseteq T
      BY <3>2, <3>3 DEF Kept, Pool
    <3> HIDE DEF T
    <3>5. Needed(w) \subseteq T
      BY <3>2, <3>3, <3>4, NeededLeast DEF Grown
    <3> QED
      BY <1>7, <3>1, <3>5 DEF T
  <2>5. ASSUME NEW i \in 1..Len(res), NEW j \in 1..Len(res), i <= j, Uses(res[i], res[j]) PROVE FALSE
    <3>1. res[i] \in M /\ res[j] \in M /\ Len(res) \in Nat
      BY <1>6
    <3>2. res[i] # res[j]
      BY <2>1, <2>5, <3>1
    <3>3. PICK k \in 1..i - 1 : res[k] = res[j]
      BY <1>8, <2>3, <2>5, <3>1, <3>2
    <3>4. k \in 1..Len(res) /\ k # j
      BY <2>5, <3>1, <3>3
    <3> QED
      BY <1>6, <3>3, <3>4
  <2> QED
    BY <2>4, <2>5 DEF FullList
<1> QED
  BY <1>10, <1>11

(***************************************************************************)
(* The invariant of the passes, part by part.                              *)
(***************************************************************************)
PassTyped ==
  /\ machine \in Machines /\ pack \in Packs /\ stage \in {"boot", "init"}
  /\ pc \in {"names", "scan", "load", "pause", "done", "failed"} /\ pass \in Nat
  /\ toLoad \in Seq(Pool) /\ mods \in Seq(Pool) /\ failed \subseteq Pool
  /\ present \subseteq Devices /\ driver \in [Devices -> Pool \cup {NoDriver}]

\* Where the run may be; nothing is left to load outside of a pass.
Phases ==
  /\ pc # "load" => toLoad = <<>>
  /\ pc \in {"pause", "done"} => pass > 0
  /\ pc = "names" => stage = "boot" /\ pass = 0
  /\ stage = "init" /\ pass = 0 => pc # "load" /\ mods = <<>>
  /\ stage = "boot" => failed = {} /\ (pc = "done" => pass >= Passes)

\* What the kernel has is linked and has the devices that it can take.
Kernel ==
  /\ KernelLinked
  /\ \A d \in Devices : driver[d] # NoDriver => d \in present /\ driver[d] \in InKernel
  /\ \A d \in present : \A m \in InKernel : Drives(m, d) => driver[d] # NoDriver
  /\ \A d \in Devices : machine.parent[d] = NoDevice => d \in present

\* In a pass there is nothing that the kernel has, or that is not called for; in
\* the DSM ramdisk nothing else is loaded ever.
Asks ==
  /\ pass > 0 => ListOK(toLoad)
  /\ stage = "init" => \A n \in InKernel : Called(n)

\* Willing modules do not fail: what they need is loaded, or is before them.
Succeeds ==
  Orderly =>
    /\ \A m \in failed : ~Willing(m)
    /\ pass > 0 =>
         /\ \A i, j \in 1..Len(toLoad) : i <= j => ~Uses(toLoad[i], toLoad[j])
         /\ \A h \in ToSet(toLoad) : Willing(h) => Needed(h) \cap Pool \subseteq InKernel \cup ToSet(toLoad)

BaseInv == PassTyped /\ Phases /\ Kernel /\ Asks /\ Succeeds

(***************************************************************************)
(* Lists from their heads on, and what no step changes.                    *)
(***************************************************************************)
LEMMA HeadTail ==
  ASSUME NEW S, NEW q \in Seq(S), q # <<>>
  PROVE  /\ Head(q) \in S /\ Tail(q) \in Seq(S) /\ Head(q) = q[1] /\ 1 \in 1..Len(q)
         /\ Len(Tail(q)) = Len(q) - 1 /\ Len(q) \in Nat
         /\ \A i \in 1..Len(Tail(q)) : Tail(q)[i] = q[i + 1] /\ i + 1 \in 1..Len(q)
         /\ ToSet(q) = {Head(q)} \cup ToSet(Tail(q))
<1>1. /\ Head(q) \in S /\ Tail(q) \in Seq(S) /\ Head(q) = q[1] /\ 1 \in 1..Len(q)
      /\ Len(Tail(q)) = Len(q) - 1 /\ Len(q) \in Nat
      /\ \A i \in 1..Len(Tail(q)) : Tail(q)[i] = q[i + 1] /\ i + 1 \in 1..Len(q)
  OBVIOUS
<1>2. \A i \in 1..Len(q) : i = 1 \/ (i - 1 \in 1..Len(Tail(q)) /\ q[i] = Tail(q)[i - 1])
  <2> SUFFICES ASSUME NEW i \in 1..Len(q), i # 1 PROVE i - 1 \in 1..Len(Tail(q)) /\ q[i] = Tail(q)[i - 1]
    OBVIOUS
  <2>1. i - 1 \in 1..Len(Tail(q)) /\ (i - 1) + 1 = i
    BY <1>1
  <2> QED
    BY <1>1, <2>1
<1>3. ToSet(q) = In(q) /\ ToSet(Tail(q)) = In(Tail(q))
  BY <1>1, InToSet
<1>4. In(q) = {Head(q)} \cup In(Tail(q))
  <2>1. In(q) \subseteq {Head(q)} \cup In(Tail(q))
    <3> SUFFICES ASSUME NEW i \in 1..Len(q) PROVE q[i] = Head(q) \/ \E k \in 1..Len(Tail(q)) : q[i] = Tail(q)[k]
      BY DEF In
    <3> QED
      BY <1>1, <1>2
  <2>2. \A k \in 1..Len(Tail(q)) : Tail(q)[k] \in In(q)
    BY <1>1 DEF In
  <2>3. Head(q) \in In(q)
    BY <1>1 DEF In
  <2> QED
    BY <2>1, <2>2, <2>3 DEF In
<1> QED
  BY <1>1, <1>3, <1>4

LEMMA AppendSet ==
  ASSUME NEW S, NEW q \in Seq(S), NEW m \in S
  PROVE  Append(q, m) \in Seq(S) /\ ToSet(Append(q, m)) = ToSet(q) \cup {m}
<1>1. /\ Append(q, m) \in Seq(S) /\ Len(Append(q, m)) = Len(q) + 1 /\ Len(q) \in Nat
      /\ \A i \in 1..Len(q) : Append(q, m)[i] = q[i]
      /\ Append(q, m)[Len(q) + 1] = m
  OBVIOUS
<1>2. \A i : i \in 1..Len(q) + 1 <=> i \in 1..Len(q) \/ i = Len(q) + 1
  BY <1>1
<1>3. In(Append(q, m)) = In(q) \cup {m}
  BY <1>1, <1>2 DEF In
<1> QED
  BY <1>1, <1>3, InToSet

LEMMA KernelIn ==
  ASSUME PassTyped
  PROVE  InKernel \subseteq Pool /\ InKernel = In(mods) /\ ToSet(toLoad) \subseteq Pool /\ ToSet(toLoad) = In(toLoad)
<1>1. InKernel = In(mods) /\ ToSet(toLoad) = In(toLoad)
  BY InToSet DEF PassTyped, InKernel
<1>2. In(mods) \subseteq Pool /\ In(toLoad) \subseteq Pool
  BY DEF In, PassTyped
<1> QED
  BY <1>1, <1>2

\* A step leaves the machine, the stage and the pack, and all that is of them alone.
LEMMA Fixed ==
  ASSUME [PassesNext]_passVars
  PROVE  /\ machine' = machine /\ stage' = stage /\ pack' = pack /\ Pool' = Pool
         /\ (Orderly' <=> Orderly)
         /\ \A m : Needed(m)' = Needed(m) /\ (Willing(m)' <=> Willing(m))
         /\ \A m, d : (Drives(m, d)' <=> Drives(m, d)) /\ (AsksFor(m, d)' <=> AsksFor(m, d)) /\ (Uses(m, d)' <=> Uses(m, d))
         /\ \A d : Meant(d)' <=> Meant(d)
         /\ \A path : Meets(path)' <=> Meets(path)
<1>1. machine' = machine /\ stage' = stage /\ pack' = pack
  BY DEF PassesNext, Loader, ByNames, Scan, ScanFails, EndPass, Wake, Insmod, Refused, NothingDone, Register, passVars
<1>2. Pool' = Pool /\ (Orderly' <=> Orderly)
  BY <1>1 DEF Pool, Orderly, Uses
<1>3. \A m : Needed(m)' = Needed(m) /\ (Willing(m)' <=> Willing(m))
  BY <1>1 DEF Needed, Willing
<1>4. \A m, d : (Drives(m, d)' <=> Drives(m, d)) /\ (AsksFor(m, d)' <=> AsksFor(m, d)) /\ (Uses(m, d)' <=> Uses(m, d))
  BY <1>1 DEF Drives, AsksFor, Uses
<1>5. \A d : Meant(d)' <=> Meant(d)
  BY <1>1 DEF Meant, AsksFor, Drives, Willing, Needed
<1>6. \A path : Meets(path)' <=> Meets(path)
  BY <1>1 DEF Meets, Meant, AsksFor, Drives, Willing, Needed
<1> QED
  BY <1>1, <1>2, <1>3, <1>4, <1>5, <1>6

\* The head of a list that is willing, and that no device's absence stops, is loaded.
LEMMA HeadLoads ==
  ASSUME BaseInv, Orderly, pass > 0, NEW h \in Pool, Turn(h), Willing(h), h \notin InKernel
  PROVE  Linked(h) /\ h \notin pack.bad /\ ~Unasked(h)
<1>1. toLoad \in Seq(Pool) /\ toLoad # <<>> /\ h = Head(toLoad) /\ pack \in Packs
  BY DEF BaseInv, PassTyped, Turn
<1>2. h = toLoad[1] /\ h \in ToSet(toLoad) /\ ToSet(toLoad) = In(toLoad)
  BY <1>1, HeadTail, InToSet
<1>3. \A j \in 1..Len(toLoad) : ~Uses(h, toLoad[j])
  <2>1. 1 \in 1..Len(toLoad) /\ \A j \in 1..Len(toLoad) : 1 <= j
    BY <1>1, HeadTail
  <2> QED
    BY <1>2, <2>1 DEF BaseInv, Succeeds
<1>4. Needed(h) \cap Pool \subseteq InKernel \cup ToSet(toLoad) /\ h \notin failed
  BY <1>2 DEF BaseInv, Succeeds
<1>5. h \in Needed(h)
  BY <1>1, NeededIs
<1>6. ASSUME NEW y, Uses(h, y) PROVE y \in InKernel
  <2>1. y \in Pool /\ y \in Needed(h)
    BY <1>1, <1>6, NeededIs, PackIs
  <2>2. y \notin ToSet(toLoad)
    BY <1>2, <1>3, <1>6 DEF In
  <2> QED
    BY <1>4, <2>1, <2>2
<1>7. Linked(h)
  BY <1>6 DEF Linked, Uses
<1>8. h \notin pack.bad
  BY <1>5 DEF Willing
<1> QED
  BY <1>4, <1>7, <1>8 DEF Unasked

(***************************************************************************)
(* Each step keeps it.                                                     *)
(***************************************************************************)

\* A step that leaves the kernel and its devices alone.
LEMMA KernelStays ==
  ASSUME BaseInv, [PassesNext]_passVars, mods' = mods, present' = present, driver' = driver
  PROVE  /\ InKernel' = InKernel /\ Coming' = Coming /\ Kernel'
         /\ \A n : Called(n)' <=> Called(n)
<1>1. InKernel' = InKernel
  BY DEF InKernel
<1>2. Coming' = Coming
  BY Fixed DEF Coming
<1>3. Kernel'
  BY <1>1, Fixed DEF BaseInv, Kernel, KernelLinked
<1>4. \A n : Called(n)' <=> Called(n)
  BY Fixed DEF Called
<1> QED
  BY <1>1, <1>2, <1>3, <1>4

\* A step that leaves the list alone as well.
LEMMA ListStays ==
  ASSUME BaseInv, [PassesNext]_passVars, mods' = mods, present' = present, driver' = driver,
         toLoad' = toLoad, pass' = pass, failed' = failed
  PROVE  Asks' /\ Succeeds' /\ (PassTyped' <=> pc' \in {"names", "scan", "load", "pause", "done", "failed"})
<1>1. InKernel' = InKernel /\ Pool' = Pool /\ \A n : Called(n)' <=> Called(n)
  BY KernelStays, Fixed
<1>2. Asks'
  BY <1>1, Fixed DEF BaseInv, Asks, ListOK
<1>3. Succeeds'
  BY <1>1, Fixed DEF BaseInv, Succeeds
<1>4. PassTyped' <=> pc' \in {"names", "scan", "load", "pause", "done", "failed"}
  BY <1>1, Fixed DEF BaseInv, PassTyped
<1> QED
  BY <1>2, <1>3, <1>4

LEMMA InitBase == PassesInit => BaseInv
<1> SUFFICES ASSUME PassesInit PROVE BaseInv
  OBVIOUS
<1>1. InKernel = {} /\ toLoad = <<>> /\ mods = <<>>
  BY DEF PassesInit, InKernel, ToSet
<1>2. PassTyped
  BY DEF PassesInit, PassTyped
<1>3. Phases
  BY DEF PassesInit, Phases
<1>4. Kernel
  BY <1>1 DEF PassesInit, Kernel, KernelLinked
<1>5. Asks /\ Succeeds
  BY <1>1 DEF PassesInit, Asks, Succeeds
<1> QED
  BY <1>2, <1>3, <1>4, <1>5 DEF BaseInv

LEMMA ByNamesBase == BaseInv /\ ByNames => BaseInv'
<1> SUFFICES ASSUME BaseInv, ByNames PROVE BaseInv'
  OBVIOUS
<1>0. [PassesNext]_passVars
  BY DEF PassesNext, Loader
<1>1. pack \in Packs /\ stage = "boot" /\ pass = 0 /\ pc' = "load"
  BY DEF BaseInv, PassTyped, Phases, ByNames
<1>2. PICK first \in SetToSeqs(Pool) : toLoad' = ByName(pack.idx, Bootstrap, first)
  BY DEF ByNames, Pool
<1>3. toLoad' \in Seq(Pool)
  <2> DEFINE M == Pool \cap Depending(pack.idx, Bootstrap)
             levels == Cardinality(Pool)
  <2>1. first \in Seq(Nat)
    <3>1. first \in [1..levels -> Pool]
      BY DEF SetToSeqs
    <3>2. levels \in Nat /\ Pool \subseteq Nat
      BY <1>1, PackIs, FS_CardinalityType
    <3> HIDE DEF levels
    <3>3. first \in [1..levels -> Nat]
      BY <3>1, <3>2
    <3> QED
      BY <3>2, <3>3
  <2>2. levels \in Nat /\ HasDeps(pack.idx, M)
    BY <1>1, PackIs, FS_CardinalityType DEF HasDeps
  <2>3. toLoad' = Along(first, Walk(pack.idx, M, levels), NothingYet).out
    BY <1>2 DEF ByName, Visit, Pool
  <2> HIDE DEF M, levels
  <2>4. toLoad' \in Seq(M)
    BY <2>1, <2>2, <2>3, WholeWalk DEF Selects
  <2>5. M \subseteq Pool
    BY DEF M
  <2> QED
    BY <2>4, <2>5, SeqWider
<1>4. UNCHANGED <<machine, stage, pack, pass, failed, mods, present, driver>>
  BY DEF ByNames
<1>5. /\ InKernel' = InKernel /\ Kernel' /\ Pool' = Pool
      /\ (Orderly' <=> Orderly) /\ \A m : Willing(m)' <=> Willing(m)
  BY <1>0, <1>4, KernelStays, Fixed
<1>6. PassTyped'
  BY <1>1, <1>3, <1>4, <1>5 DEF BaseInv, PassTyped
<1>7. Phases'
  BY <1>1, <1>4 DEF BaseInv, Phases
<1>8. Asks' /\ Succeeds'
  BY <1>1, <1>4, <1>5 DEF BaseInv, Asks, Succeeds
<1> QED
  BY <1>5, <1>6, <1>7, <1>8 DEF BaseInv

\* What a pass has found.
LEMMA ScanFinds ==
  ASSUME BaseInv, Scan
  PROVE  ListOK(toLoad') /\ (Orderly => FullList(toLoad'))
<1>1. toLoad' = ResolvePreferring(pack.idx, present, InKernel, Preferred)
  BY DEF Scan, Preferred
<1>2. pack \in Packs /\ stage \in {"boot", "init"} /\ InKernel \subseteq Pool /\ KernelLinked
  BY KernelIn DEF BaseInv, PassTyped, Kernel
<1> QED
  BY <1>1, <1>2, PassList

LEMMA ScanBase == BaseInv /\ Scan => BaseInv'
<1> SUFFICES ASSUME BaseInv, Scan PROVE BaseInv'
  OBVIOUS
<1>0. [PassesNext]_passVars
  BY DEF PassesNext, Loader
<1>1. /\ UNCHANGED <<machine, stage, pack, failed, mods, present, driver>>
      /\ pass' = pass + 1 /\ pass \in Nat /\ pack \in Packs
      /\ pc' = IF stage = "init" /\ toLoad' = <<>> THEN "done" ELSE "load"
  BY DEF Scan, BaseInv, PassTyped
<1>2. /\ InKernel' = InKernel /\ Kernel' /\ Pool' = Pool /\ \A n : Called(n)' <=> Called(n)
      /\ (Orderly' <=> Orderly)
      /\ \A m : Needed(m)' = Needed(m) /\ (Willing(m)' <=> Willing(m))
      /\ \A m, d : Uses(m, d)' <=> Uses(m, d)
  BY <1>0, <1>1, KernelStays, Fixed
<1>3. ListOK(toLoad') /\ (Orderly => FullList(toLoad'))
  BY ScanFinds
<1>4. ListOK(toLoad)'
  BY <1>2, <1>3 DEF ListOK
<1>5. PassTyped'
  <2>1. toLoad' \in Seq(Pool)
    BY <1>3 DEF ListOK
  <2> QED
    BY <1>1, <1>2, <2>1 DEF BaseInv, PassTyped
<1>6. Phases'
  BY <1>1 DEF BaseInv, Phases, PassTyped
<1>7. Asks'
  BY <1>1, <1>2, <1>4 DEF BaseInv, Asks
<1>8. Succeeds'
  <2> SUFFICES ASSUME Orderly
               PROVE  /\ \A m \in failed : ~Willing(m)
                      /\ \A i, j \in 1..Len(toLoad') : i <= j => ~Uses(toLoad'[i], toLoad'[j])
                      /\ \A h \in ToSet(toLoad') : Willing(h) => Needed(h) \cap Pool \subseteq InKernel \cup ToSet(toLoad')
    BY <1>1, <1>2 DEF Succeeds
  <2>1. \A m \in failed : ~Willing(m)
    BY DEF BaseInv, Succeeds
  <2>2. ASSUME NEW h \in ToSet(toLoad'), NEW y \in Needed(h) \cap Pool, y \notin InKernel
        PROVE  y \in ToSet(toLoad')
    <3>1. PICK e \in present, w \in Pool : AsksFor(w, e) /\ h \in Needed(w)
      BY <1>3 DEF ListOK, Called
    <3>2. h \in Pool
      <4>1. toLoad' \in Seq(Pool)
        BY <1>3 DEF ListOK
      <4>2. h \in In(toLoad')
        BY <4>1, InToSet
      <4> QED
        BY <4>1, <4>2 DEF In
    <3>3. y \in Needed(w)
      BY <1>1, <3>1, <3>2, NeededIs
    <3>4. Called(y)
      BY <3>1, <3>3 DEF Called
    <3> QED
      BY <1>3, <2>2, <3>4 DEF FullList
  <2> QED
    BY <1>3, <2>1, <2>2 DEF FullList
<1> QED
  BY <1>2, <1>5, <1>6, <1>7, <1>8 DEF BaseInv

LEMMA BetweenBase == BaseInv /\ (ScanFails \/ EndPass \/ Wake \/ UNCHANGED passVars) => BaseInv'
<1> SUFFICES ASSUME BaseInv, ScanFails \/ EndPass \/ Wake \/ UNCHANGED passVars PROVE BaseInv'
  OBVIOUS
<1>0. [PassesNext]_passVars
  BY DEF PassesNext, Loader
<1>1. UNCHANGED <<machine, stage, pack, pass, toLoad, failed, mods, present, driver>>
  BY DEF ScanFails, EndPass, Wake, passVars
<1>2. Phases' /\ pc' \in {"names", "scan", "load", "pause", "done", "failed"}
  <2>1. CASE ScanFails
    BY <1>1, <2>1 DEF ScanFails, BaseInv, Phases
  <2>2. CASE EndPass
    BY <1>1, <2>2, PassesAssumption DEF EndPass, BaseInv, Phases, PassTyped
  <2>3. CASE Wake
    BY <1>1, <2>3, PassesAssumption DEF Wake, BaseInv, Phases, PassTyped
  <2>4. CASE UNCHANGED passVars
    BY <1>1, <2>4 DEF passVars, BaseInv, Phases, PassTyped
  <2> QED
    BY <2>1, <2>2, <2>3, <2>4
<1>3. Kernel' /\ Asks' /\ Succeeds' /\ PassTyped'
  BY <1>0, <1>1, <1>2, KernelStays, ListStays
<1> QED
  BY <1>2, <1>3 DEF BaseInv

\* A list without its head.
LEMMA TurnIs ==
  ASSUME BaseInv, NEW h, Turn(h)
  PROVE  /\ h \in Pool /\ toLoad' \in Seq(Pool) /\ ToSet(toLoad) = {h} \cup ToSet(toLoad')
         /\ pass > 0 =>
              /\ h \notin ToSet(toLoad') /\ h \notin InKernel /\ Called(h)
              /\ \A i, j \in 1..Len(toLoad') : toLoad'[i] = toLoad'[j] => i = j
              /\ Orderly => /\ \A i, j \in 1..Len(toLoad') : i <= j => ~Uses(toLoad'[i], toLoad'[j])
                            /\ \A y \in ToSet(toLoad') : ~Uses(h, y)
<1> DEFINE q == toLoad
           t == toLoad'
<1>1. q \in Seq(Pool) /\ q # <<>> /\ h = Head(q) /\ t = Tail(q)
  BY DEF BaseInv, PassTyped, Turn
<1>2. /\ h \in Pool /\ t \in Seq(Pool) /\ h = q[1] /\ 1 \in 1..Len(q)
      /\ Len(t) = Len(q) - 1 /\ Len(q) \in Nat
      /\ \A i \in 1..Len(t) : t[i] = q[i + 1] /\ i + 1 \in 1..Len(q)
      /\ ToSet(q) = {h} \cup ToSet(t)
  <2> HIDE DEF q, t
  <2> QED
    BY <1>1, HeadTail
<1>3. ToSet(t) = In(t)
  BY <1>2, InToSet
<1>4. ASSUME pass > 0
      PROVE  /\ h \notin ToSet(t) /\ h \notin InKernel /\ Called(h)
             /\ \A i, j \in 1..Len(t) : t[i] = t[j] => i = j
             /\ Orderly => /\ \A i, j \in 1..Len(t) : i <= j => ~Uses(t[i], t[j])
                           /\ \A y \in ToSet(t) : ~Uses(h, y)
  <2>1. ListOK(q)
    BY <1>4 DEF BaseInv, Asks
  <2>2. \A i, j \in 1..Len(q) : q[i] = q[j] => i = j
    BY <2>1 DEF ListOK
  <2>3. h \notin InKernel /\ Called(h)
    BY <1>2, <2>1 DEF ListOK
  <2> HIDE DEF q, t
  <2>4. \A i \in 1..Len(t) : t[i] # h
    <3> SUFFICES ASSUME NEW i \in 1..Len(t), t[i] = h PROVE FALSE
      OBVIOUS
    <3>1. i + 1 = 1
      BY <1>2, <2>2
    <3> QED
      BY <3>1
  <2>5. \A i, j \in 1..Len(t) : t[i] = t[j] => i = j
    <3> SUFFICES ASSUME NEW i \in 1..Len(t), NEW j \in 1..Len(t), t[i] = t[j] PROVE i = j
      OBVIOUS
    <3>1. i + 1 = j + 1
      BY <1>2, <2>2
    <3> QED
      BY <3>1
  <2>6. ASSUME Orderly
        PROVE  /\ \A i, j \in 1..Len(t) : i <= j => ~Uses(t[i], t[j])
               /\ \A y \in ToSet(t) : ~Uses(h, y)
    <3>1. \A i, j \in 1..Len(q) : i <= j => ~Uses(q[i], q[j])
      BY <1>4, <2>6 DEF BaseInv, Succeeds, q
    <3>2. \A i, j \in 1..Len(t) : i <= j => ~Uses(t[i], t[j])
      <4> SUFFICES ASSUME NEW i \in 1..Len(t), NEW j \in 1..Len(t), i <= j PROVE ~Uses(t[i], t[j])
        OBVIOUS
      <4>1. i + 1 <= j + 1
        BY <1>2
      <4> QED
        BY <1>2, <3>1, <4>1
    <3>3. \A j \in 1..Len(t) : ~Uses(h, t[j])
      <4> SUFFICES ASSUME NEW j \in 1..Len(t) PROVE ~Uses(h, t[j])
        OBVIOUS
      <4>1. 1 <= j + 1
        OBVIOUS
      <4> QED
        BY <1>2, <3>1, <4>1
    <3> QED
      BY <1>3, <3>2, <3>3 DEF In
  <2> QED
    BY <1>3, <2>3, <2>4, <2>5, <2>6 DEF In
<1> QED
  BY <1>2, <1>4

LEMMA InsmodBase == ASSUME BaseInv, NEW h \in Pool, Insmod(h) PROVE BaseInv'
<1>0. [PassesNext]_passVars
  BY DEF PassesNext, Loader, Pool
<1>1. /\ Turn(h) /\ ~Unasked(h) /\ h \notin InKernel /\ Linked(h) /\ pc = "load"
      /\ mods' = Append(mods, h)
      /\ driver' = [d \in Devices |->
                      IF d \in present /\ driver[d] = NoDriver /\ Drives(h, d) THEN h ELSE driver[d]]
      /\ UNCHANGED <<machine, stage, pack, pc, pass, failed, present>>
  BY DEF Insmod, Turn
<1>2. /\ Pool' = Pool /\ (Orderly' <=> Orderly)
      /\ \A m : Needed(m)' = Needed(m) /\ (Willing(m)' <=> Willing(m))
      /\ \A m, d : (Drives(m, d)' <=> Drives(m, d)) /\ (AsksFor(m, d)' <=> AsksFor(m, d)) /\ (Uses(m, d)' <=> Uses(m, d))
  BY <1>0, Fixed
<1>3. mods' \in Seq(Pool) /\ InKernel' = InKernel \cup {h}
  BY <1>1, AppendSet DEF InKernel, BaseInv, PassTyped
<1>4. \A n : Called(n)' <=> Called(n)
  BY <1>1, <1>2 DEF Called
<1>5. /\ toLoad' \in Seq(Pool) /\ ToSet(toLoad) = {h} \cup ToSet(toLoad')
      /\ pass > 0 =>
           /\ h \notin ToSet(toLoad') /\ h \notin InKernel /\ Called(h)
           /\ \A i, j \in 1..Len(toLoad') : toLoad'[i] = toLoad'[j] => i = j
           /\ Orderly => \A i, j \in 1..Len(toLoad') : i <= j => ~Uses(toLoad'[i], toLoad'[j])
  BY <1>1, TurnIs
<1>6. PassTyped'
  <2>1. driver' \in [Devices -> Pool \cup {NoDriver}]
    BY <1>1 DEF BaseInv, PassTyped
  <2> QED
    BY <1>1, <1>2, <1>3, <1>5, <2>1 DEF BaseInv, PassTyped
<1>7. Phases'
  BY <1>1 DEF BaseInv, Phases
<1>8. Kernel'
  <2>1. KernelLinked'
    <3>1. \A y : Uses(h, y) => y \in InKernel
      BY <1>1 DEF Linked, Uses
    <3> QED
      BY <1>2, <1>3, <3>1 DEF BaseInv, Kernel, KernelLinked
  <2>2. \A d \in Devices : driver'[d] # NoDriver => d \in present /\ driver'[d] \in InKernel'
    BY <1>1, <1>3 DEF BaseInv, Kernel
  <2>3. h # NoDriver
    BY PackIs DEF BaseInv, PassTyped
  <2>4. \A d \in present : \A m \in InKernel' : Drives(m, d) => driver'[d] # NoDriver
    <3> SUFFICES ASSUME NEW d \in present, NEW m \in InKernel', Drives(m, d) PROVE driver'[d] # NoDriver
      OBVIOUS
    <3>1. d \in Devices
      BY DEF BaseInv, PassTyped
    <3> QED
      BY <1>1, <1>3, <2>3, <3>1 DEF BaseInv, Kernel
  <2> QED
    BY <1>1, <1>2, <2>1, <2>2, <2>4 DEF BaseInv, Kernel
<1>9. Asks'
  <2>1. ASSUME pass > 0 PROVE ListOK(toLoad)'
    <3>1. ListOK(toLoad)
      BY <2>1 DEF BaseInv, Asks
    <3>2. ToSet(toLoad') \cap InKernel' = {}
      BY <1>3, <1>5, <2>1, <3>1 DEF ListOK
    <3>3. \A n \in ToSet(toLoad') : Called(n)'
      BY <1>4, <1>5, <3>1 DEF ListOK
    <3> QED
      BY <1>2, <1>5, <2>1, <3>2, <3>3 DEF ListOK
  <2>2. ASSUME stage = "init" PROVE \A n \in InKernel' : Called(n)'
    <3>1. pass > 0
      BY <1>1, <2>2 DEF BaseInv, Phases, PassTyped
    <3> QED
      BY <1>3, <1>4, <1>5, <2>2, <3>1 DEF BaseInv, Asks
  <2> QED
    BY <1>1, <2>1, <2>2 DEF Asks
<1>10. Succeeds'
  <2> SUFFICES ASSUME Orderly
               PROVE  /\ \A m \in failed : ~Willing(m)
                      /\ pass > 0 =>
                           /\ \A i, j \in 1..Len(toLoad') : i <= j => ~Uses(toLoad'[i], toLoad'[j])
                           /\ \A g \in ToSet(toLoad') : Willing(g) => Needed(g) \cap Pool \subseteq InKernel' \cup ToSet(toLoad')
    BY <1>1, <1>2 DEF Succeeds
  <2>1. ASSUME pass > 0, NEW g \in ToSet(toLoad'), Willing(g)
        PROVE  Needed(g) \cap Pool \subseteq InKernel' \cup ToSet(toLoad')
    BY <1>3, <1>5, <2>1 DEF BaseInv, Succeeds
  <2> QED
    BY <1>5, <2>1 DEF BaseInv, Succeeds
<1> QED
  BY <1>6, <1>7, <1>8, <1>9, <1>10 DEF BaseInv

\* What is left when a willing head does not come to be loaded: that cannot be.
LEMMA SkippedBase ==
  ASSUME BaseInv, NEW h \in Pool, Refused(h) \/ NothingDone(h)
  PROVE  BaseInv'
<1>0. [PassesNext]_passVars
  BY DEF PassesNext, Loader, Pool
<1>1. /\ Turn(h) /\ pc = "load" /\ UNCHANGED <<machine, stage, pack, pc, pass, mods, present, driver>>
      /\ failed' = failed \/ (Refused(h) /\ stage = "init" /\ failed' = failed \cup {h})
  BY DEF Refused, NothingDone, Turn
<1>2. /\ Pool' = Pool /\ (Orderly' <=> Orderly) /\ InKernel' = InKernel /\ Kernel'
      /\ \A m : Needed(m)' = Needed(m) /\ (Willing(m)' <=> Willing(m))
      /\ \A m, d : Uses(m, d)' <=> Uses(m, d)
      /\ \A n : Called(n)' <=> Called(n)
  BY <1>0, <1>1, Fixed, KernelStays
<1>3. /\ toLoad' \in Seq(Pool) /\ ToSet(toLoad) = {h} \cup ToSet(toLoad')
      /\ pass > 0 =>
           /\ h \notin ToSet(toLoad') /\ h \notin InKernel /\ Called(h)
           /\ \A i, j \in 1..Len(toLoad') : toLoad'[i] = toLoad'[j] => i = j
           /\ Orderly => \A i, j \in 1..Len(toLoad') : i <= j => ~Uses(toLoad'[i], toLoad'[j])
  BY <1>1, TurnIs
<1>4. PassTyped'
  BY <1>1, <1>2, <1>3 DEF BaseInv, PassTyped
<1>5. Phases'
  BY <1>1 DEF BaseInv, Phases
<1>6. Asks'
  <2>1. ASSUME pass > 0 PROVE ListOK(toLoad)'
    BY <1>2, <1>3, <2>1 DEF BaseInv, Asks, ListOK
  <2> QED
    BY <1>1, <1>2, <2>1 DEF BaseInv, Asks
<1>7. ASSUME Orderly, pass > 0, Willing(h) PROVE ~Refused(h)
  <2>1. Linked(h) /\ h \notin pack.bad
    BY <1>1, <1>3, <1>7, HeadLoads
  <2> QED
    BY <2>1 DEF Refused
<1>8. ASSUME Orderly, pass > 0, Willing(h), h \notin pack.shy PROVE FALSE
  <2>1. ~Unasked(h)
    BY <1>1, <1>3, <1>8, HeadLoads
  <2>2. NothingDone(h)
    BY <1>7, <1>8
  <2> QED
    BY <1>3, <1>8, <2>1, <2>2 DEF NothingDone, GivesUp
<1>9. Succeeds'
  <2> SUFFICES ASSUME Orderly
               PROVE  /\ \A m \in failed' : ~Willing(m)
                      /\ pass > 0 =>
                           /\ \A i, j \in 1..Len(toLoad') : i <= j => ~Uses(toLoad'[i], toLoad'[j])
                           /\ \A g \in ToSet(toLoad') : Willing(g) => Needed(g) \cap Pool \subseteq InKernel \cup ToSet(toLoad')
    BY <1>1, <1>2 DEF Succeeds
  <2>1. ASSUME NEW m \in failed' PROVE ~Willing(m)
    <3>1. CASE m \in failed
      BY <3>1 DEF BaseInv, Succeeds
    <3>2. CASE m \notin failed
      <4>1. m = h /\ Refused(h) /\ stage = "init"
        BY <1>1, <2>1, <3>2
      <4>2. pass > 0
        BY <1>1, <4>1 DEF BaseInv, Phases, PassTyped
      <4> QED
        BY <1>7, <4>1, <4>2
    <3> QED
      BY <3>1, <3>2
  <2>2. ASSUME pass > 0, NEW g \in ToSet(toLoad'), Willing(g), NEW y \in Needed(g) \cap Pool
        PROVE  y \in InKernel \cup ToSet(toLoad')
    <3>1. y \in InKernel \cup {h} \cup ToSet(toLoad')
      BY <1>3, <2>2 DEF BaseInv, Succeeds
    <3>2. ASSUME y = h PROVE FALSE
      <4>1. g \in Pool /\ g # h /\ pack \in Packs
        BY <1>3, <2>2, KernelIn DEF BaseInv, PassTyped
      <4>2. Willing(h) /\ h \notin pack.shy
        BY <2>2, <3>2, <4>1, WillingBelow
      <4> QED
        BY <1>8, <2>2, <4>2
    <3> QED
      BY <3>1, <3>2
  <2> QED
    BY <1>3, <2>1, <2>2
<1> QED
  BY <1>2, <1>4, <1>5, <1>6, <1>9 DEF BaseInv

\* The driver that a device gets when it is registered.
LEMMA RegisterIs ==
  ASSUME BaseInv, NEW d \in Devices, Register(d)
  PROVE  /\ d \notin present /\ present' = present \cup {d}
         /\ UNCHANGED <<machine, stage, pack, pc, pass, toLoad, failed, mods>>
         /\ driver' \in [Devices -> Pool \cup {NoDriver}]
         /\ \A e \in Devices \ {d} : driver'[e] = driver[e]
         /\ driver'[d] # NoDriver => driver'[d] \in InKernel
         /\ \A m \in InKernel : Drives(m, d) => driver'[d] # NoDriver
<1> DEFINE T == {m \in InKernel : Drives(m, d)}
           match == Within(mods, T)
<1>1. /\ d \notin present /\ present' = present \cup {d}
      /\ UNCHANGED <<machine, stage, pack, pc, pass, toLoad, failed, mods>>
      /\ driver' = [driver EXCEPT ![d] = IF @ = NoDriver /\ match # <<>> THEN Head(match) ELSE @]
  BY DEF Register, Coming
<1>2. mods \in Seq(Pool) /\ driver \in [Devices -> Pool \cup {NoDriver}] /\ InKernel = In(mods) /\ InKernel \subseteq Pool
  BY KernelIn DEF BaseInv, PassTyped
<1>3. /\ match \in Seq(Pool \cap T)
      /\ \A i \in 1..Len(mods) : mods[i] \in T => \E k \in 1..Len(match) : match[k] = mods[i]
  <2> HIDE DEF T
  <2> QED
    BY <1>2, WithinPlaces, WithinSet
<1>4. driver[d] = NoDriver
  BY <1>1 DEF BaseInv, Kernel
<1> HIDE DEF match
<1>5. match # <<>> => Head(match) \in Pool \cap T
  <2> HIDE DEF T
  <2> QED
    BY <1>3, HeadTail
<1>6. driver' \in [Devices -> Pool \cup {NoDriver}] /\ \A e \in Devices \ {d} : driver'[e] = driver[e]
  BY <1>1, <1>2, <1>5
<1>7. driver'[d] = IF match # <<>> THEN Head(match) ELSE NoDriver
  BY <1>1, <1>2, <1>4
<1>8. driver'[d] # NoDriver => driver'[d] \in InKernel
  BY <1>5, <1>7
<1>9. ASSUME NEW m \in InKernel, Drives(m, d) PROVE driver'[d] # NoDriver
  <2>1. PICK i \in 1..Len(mods) : m = mods[i]
    BY <1>2 DEF In
  <2>2. \E k \in 1..Len(match) : match[k] = m
    BY <1>3, <1>9, <2>1
  <2>3. match # <<>>
    BY <2>2
  <2> QED
    BY <1>5, <1>7, <2>3, PackIs DEF BaseInv, PassTyped
<1> QED
  BY <1>1, <1>6, <1>8, <1>9

LEMMA RegisterBase == ASSUME BaseInv, NEW d \in Devices, Register(d) PROVE BaseInv'
<1>0. [PassesNext]_passVars
  BY DEF PassesNext
<1>1. /\ d \notin present /\ present' = present \cup {d}
      /\ UNCHANGED <<machine, stage, pack, pc, pass, toLoad, failed, mods>>
      /\ driver' \in [Devices -> Pool \cup {NoDriver}]
      /\ \A e \in Devices \ {d} : driver'[e] = driver[e]
      /\ driver'[d] # NoDriver => driver'[d] \in InKernel
      /\ \A m \in InKernel : Drives(m, d) => driver'[d] # NoDriver
  BY RegisterIs
<1>2. /\ Pool' = Pool /\ (Orderly' <=> Orderly)
      /\ \A m : Needed(m)' = Needed(m) /\ (Willing(m)' <=> Willing(m))
      /\ \A m, e : (Drives(m, e)' <=> Drives(m, e)) /\ (AsksFor(m, e)' <=> AsksFor(m, e)) /\ (Uses(m, e)' <=> Uses(m, e))
  BY <1>0, Fixed
<1>3. InKernel' = InKernel
  BY <1>1 DEF InKernel
<1>4. \A n : Called(n) => Called(n)'
  BY <1>1, <1>2 DEF Called
<1>5. PassTyped'
  BY <1>1, <1>2 DEF BaseInv, PassTyped
<1>6. Phases'
  BY <1>1 DEF BaseInv, Phases
<1>7. Kernel'
  <2>1. KernelLinked'
    BY <1>2, <1>3 DEF BaseInv, Kernel, KernelLinked
  <2>2. \A e \in Devices : driver'[e] # NoDriver => e \in present' /\ driver'[e] \in InKernel
    BY <1>1 DEF BaseInv, Kernel
  <2>3. \A e \in present' : \A m \in InKernel : Drives(m, e) => driver'[e] # NoDriver
    <3> SUFFICES ASSUME NEW e \in present', NEW m \in InKernel, Drives(m, e) PROVE driver'[e] # NoDriver
      OBVIOUS
    <3>1. CASE e = d
      BY <1>1, <3>1
    <3>2. CASE e # d
      <4>1. e \in present /\ e \in Devices \ {d}
        BY <1>1, <3>2 DEF BaseInv, PassTyped
      <4> QED
        BY <1>1, <4>1 DEF BaseInv, Kernel
    <3> QED
      BY <3>1, <3>2
  <2>4. \A e \in Devices : machine'.parent[e] = NoDevice => e \in present'
    BY <1>1 DEF BaseInv, Kernel
  <2> QED
    BY <1>2, <1>3, <2>1, <2>2, <2>3, <2>4 DEF Kernel
<1>8. Asks'
  BY <1>1, <1>2, <1>3, <1>4 DEF BaseInv, Asks, ListOK
<1>9. Succeeds'
  BY <1>1, <1>2, <1>3 DEF BaseInv, Succeeds
<1> QED
  BY <1>5, <1>6, <1>7, <1>8, <1>9 DEF BaseInv

LEMMA NextBase == BaseInv /\ [PassesNext]_passVars => BaseInv'
<1> SUFFICES ASSUME BaseInv, [PassesNext]_passVars PROVE BaseInv'
  OBVIOUS
<1>1. CASE ByNames
  BY <1>1, ByNamesBase
<1>2. CASE Scan
  BY <1>2, ScanBase
<1>3. CASE ScanFails \/ EndPass \/ Wake \/ UNCHANGED passVars
  BY <1>3, BetweenBase
<1>4. ASSUME NEW h \in Pool, Insmod(h) PROVE BaseInv'
  BY <1>4, InsmodBase
<1>5. ASSUME NEW h \in Pool, Refused(h) \/ NothingDone(h) PROVE BaseInv'
  BY <1>5, SkippedBase
<1>6. ASSUME NEW d \in Devices, Register(d) PROVE BaseInv'
  BY <1>6, RegisterBase
<1> QED
  BY <1>1, <1>2, <1>3, <1>4, <1>5, <1>6 DEF PassesNext, Loader, Pool

(***************************************************************************)
(* Devices behind devices: with each pass one step more has its driver.    *)
(***************************************************************************)
Reliable == machine.prompt = Devices /\ Orderly

\* The device is there, and what is meant for it is loaded or in the list.
OnTheWay(d) ==
  d \in present /\ \A m \in Pool : AsksFor(m, d) /\ Willing(m) => m \in InKernel \cup ToSet(toLoad)

Stands(path, i) ==
  /\ pc \in {"scan", "pause"} /\ i <= pass => driver[path[i]] # NoDriver
  /\ pc = "load" /\ i < pass => driver[path[i]] # NoDriver
  /\ pc = "load" /\ i = pass => OnTheWay(path[i])
  /\ pc = "done" /\ i <= Passes => driver[path[i]] # NoDriver

PathInv ==
  Reliable =>
    /\ pc = "scan" /\ pass > 0 => Coming = {}
    /\ \A n \in Nat : \A path \in [1..n -> Devices] : n > 0 /\ Meets(path) => \A i \in 1..n : Stands(path, i)

LEMMA PathParts ==
  ASSUME BaseInv, NEW n \in Nat, n > 0, NEW path \in [1..n -> Devices], Meets(path)
  PROVE  /\ path[1] \in present
         /\ \A i \in 1..n : path[i] \in Devices /\ Meant(path[i])
         /\ \A i \in 1..n : i > 1 => i - 1 \in 1..n /\ machine.parent[path[i]] = path[i - 1]
<1>1. DOMAIN path = 1..n /\ 1 \in 1..n
  OBVIOUS
<1>2. path[1] \in present
  BY <1>1 DEF Meets, BaseInv, Kernel
<1>3. \A i \in 1..n : path[i] \in Devices /\ Meant(path[i])
  BY <1>1 DEF Meets
<1>4. \A i \in 1..n : i > 1 => i - 1 \in 1..n /\ machine.parent[path[i]] = path[i - 1]
  <2>1. \A i \in 1..n : i > 1 => i - 1 \in 1..n
    OBVIOUS
  <2>2. \A i \in 1..n : i > 1 => machine.parent[path[i]] = path[i - 1]
    BY <1>1 DEF Meets
  <2> QED
    BY <2>1, <2>2
<1> QED
  BY <1>2, <1>3, <1>4

\* When no device is on its way, those behind a device with a driver are there.
LEMMA BehindIsThere ==
  ASSUME Coming = {}, NEW d \in Devices, machine.parent[d] \in Devices, driver[machine.parent[d]] # NoDriver
  PROVE  d \in present
BY PassesAssumption DEF Coming

\* A module that asks for a device that is there is called for, and drives it.
LEMMA AskedIsCalled ==
  ASSUME BaseInv, NEW d \in present, NEW m \in Pool, AsksFor(m, d)
  PROVE  Called(m) /\ Drives(m, d) /\ (m \in InKernel => driver[d] # NoDriver)
<1>1. m \in Needed(m)
  BY NeededIs DEF BaseInv, PassTyped
<1> QED
  BY <1>1 DEF Called, AsksFor, BaseInv, Kernel

LEMMA DriversStay ==
  ASSUME BaseInv, [PassesNext]_passVars
  PROVE  \A d \in Devices : driver[d] # NoDriver => driver'[d] # NoDriver
<1>1. CASE driver' = driver
  BY <1>1
<1>2. ASSUME NEW h \in Pool, Insmod(h) PROVE \A d \in Devices : driver[d] # NoDriver => driver'[d] # NoDriver
  BY <1>2 DEF Insmod
<1>3. ASSUME NEW e \in Devices, Register(e) PROVE \A d \in Devices : driver[d] # NoDriver => driver'[d] # NoDriver
  <2>1. e \notin present /\ \A d \in Devices \ {e} : driver'[d] = driver[d]
    BY <1>3, RegisterIs
  <2>2. driver[e] = NoDriver
    BY <2>1 DEF BaseInv, Kernel
  <2> QED
    BY <2>1, <2>2
<1>4. CASE ByNames \/ Scan \/ ScanFails \/ EndPass \/ Wake \/ UNCHANGED passVars \/ \E h \in Pool : Refused(h) \/ NothingDone(h)
  BY <1>1, <1>4 DEF ByNames, Scan, ScanFails, EndPass, Wake, Refused, NothingDone, passVars
<1> QED
  BY <1>2, <1>3, <1>4 DEF PassesNext, Loader, Pool

LEMMA InitPath == PassesInit => PathInv
<1> SUFFICES ASSUME PassesInit PROVE PathInv
  OBVIOUS
<1>1. pass = 0 /\ pc \in {"names", "scan"}
  BY DEF PassesInit
<1>2. \A path, i : i \in Nat /\ i > 0 => Stands(path, i)
  BY <1>1 DEF Stands
<1> QED
  BY <1>1, <1>2 DEF PathInv

LEMMA ScanPath ==
  ASSUME BaseInv, PathInv, Reliable, Scan, NEW n \in Nat, n > 0, NEW path \in [1..n -> Devices], Meets(path)
  PROVE  \A i \in 1..n : Stands(path, i)'
<1>0. [PassesNext]_passVars
  BY DEF PassesNext, Loader
<1>1. /\ UNCHANGED <<machine, stage, pack, failed, mods, present, driver>>
      /\ pass' = pass + 1 /\ pass \in Nat /\ pc = "scan" /\ Orderly
      /\ pc' = IF stage = "init" /\ toLoad' = <<>> THEN "done" ELSE "load"
  BY DEF Scan, BaseInv, PassTyped, Reliable
<1>2. /\ InKernel' = InKernel /\ Pool' = Pool
      /\ \A m : Willing(m)' <=> Willing(m)
      /\ \A m, d : AsksFor(m, d)' <=> AsksFor(m, d)
  BY <1>0, <1>1, KernelStays, Fixed
<1>3. FullList(toLoad')
  BY <1>1, ScanFinds
<1>4. /\ path[1] \in present
      /\ \A i \in 1..n : path[i] \in Devices /\ Meant(path[i])
      /\ \A i \in 1..n : i > 1 => i - 1 \in 1..n /\ machine.parent[path[i]] = path[i - 1]
  BY PathParts
<1>5. \A i \in 1..n : i <= pass => driver[path[i]] # NoDriver
  BY <1>1 DEF PathInv, Stands
<1>6. ASSUME NEW d \in present, NEW m \in Pool, AsksFor(m, d), Willing(m)
      PROVE  m \in InKernel \cup ToSet(toLoad')
  <2>1. Called(m)
    BY <1>6, AskedIsCalled
  <2> QED
    BY <1>3, <2>1 DEF FullList
<1>7. ASSUME NEW i \in 1..n, i > 1, driver[path[i - 1]] # NoDriver, pass > 0 PROVE path[i] \in present
  <2>1. Coming = {}
    BY <1>1, <1>7 DEF PathInv
  <2> QED
    BY <1>4, <1>7, <2>1, BehindIsThere
<1>8. ASSUME NEW i \in 1..n, i <= pass + 1 PROVE path[i] \in present
  <2>1. CASE i = 1
    BY <1>4, <2>1
  <2>2. CASE i # 1
    <3>1. i > 1 /\ i - 1 <= pass /\ pass > 0
      BY <1>1, <1>8, <2>2
    <3> QED
      BY <1>4, <1>5, <1>7, <3>1
  <2> QED
    BY <2>1, <2>2
<1>9. CASE pc' = "load"
  <2> SUFFICES ASSUME NEW i \in 1..n PROVE Stands(path, i)'
    OBVIOUS
  <2>1. i < pass' => driver'[path[i]] # NoDriver
    BY <1>1, <1>5
  <2>2. ASSUME i = pass' PROVE OnTheWay(path[i])'
    <3>1. path[i] \in present
      BY <1>1, <1>8, <2>2
    <3> QED
      BY <1>1, <1>2, <1>6, <3>1 DEF OnTheWay
  <2> QED
    BY <1>9, <2>1, <2>2 DEF Stands
<1>10. CASE pc' = "done"
  <2>1. stage = "init" /\ toLoad' = <<>> /\ ToSet(toLoad') = {}
    BY <1>1, <1>10 DEF ToSet
  <2> DEFINE Bare == {i \in 1..n : driver[path[i]] = NoDriver}
  <2>2. ASSUME Bare # {} PROVE FALSE
    <3>1. PICK k \in Bare : \A i \in Bare : k <= i
      <4>1. Bare \subseteq Nat
        OBVIOUS
      <4> HIDE DEF Bare
      <4> QED
        BY <2>2, <4>1, LeastElement
    <3>2. path[k] \in present
      <4>1. CASE k = 1
        BY <1>4, <4>1
      <4>2. CASE k # 1
        <5>1. k > 1 /\ k - 1 \in 1..n /\ ~(k <= k - 1)
          <6>1. k \in 1..n /\ k # 1
            BY <4>2
          <6> HIDE DEF Bare
          <6> QED
            BY <6>1
        <5>2. driver[path[k - 1]] # NoDriver
          BY <3>1, <5>1
        <5>3. InKernel # {}
          BY <1>4, <5>1, <5>2 DEF BaseInv, Kernel
        <5>4. pass > 0
          BY <1>1, <2>1, <5>3 DEF BaseInv, Phases, InKernel, ToSet
        <5> QED
          BY <1>7, <5>1, <5>2, <5>4
      <4> QED
        BY <4>1, <4>2
    <3>3. PICK m \in Pool : AsksFor(m, path[k]) /\ Willing(m)
      BY <1>4 DEF Meant, Pool
    <3>4. m \in InKernel
      BY <1>6, <2>1, <3>2, <3>3
    <3> QED
      BY <3>1, <3>2, <3>3, <3>4, AskedIsCalled
  <2> QED
    BY <1>1, <1>10, <2>2 DEF Stands
<1> QED
  BY <1>1, <1>9, <1>10

LEMMA StepPath ==
  ASSUME BaseInv, PathInv, Reliable, [PassesNext]_passVars, ~Scan,
         NEW n \in Nat, n > 0, NEW path \in [1..n -> Devices], Meets(path), NEW i \in 1..n
  PROVE  Stands(path, i)'
<1>1. /\ path[i] \in Devices /\ Meant(path[i]) /\ i > 0 /\ i \in Nat /\ Orderly /\ Stands(path, i)
      /\ pass \in Nat /\ Passes \in Nat
  <2>1. path[i] \in Devices /\ Meant(path[i])
    BY PathParts
  <2>2. Stands(path, i)
    BY DEF PathInv
  <2> QED
    BY <2>1, <2>2, PassesAssumption DEF Reliable, BaseInv, PassTyped
<1>2. driver[path[i]] # NoDriver => driver'[path[i]] # NoDriver
  BY <1>1, DriversStay
<1>3. /\ Pool' = Pool
      /\ \A m : Willing(m)' <=> Willing(m)
      /\ \A m, d : AsksFor(m, d)' <=> AsksFor(m, d)
  BY Fixed
<1>4. CASE ByNames
  <2>1. pc' = "load" /\ pass' = 0
    BY <1>4 DEF ByNames, BaseInv, Phases
  <2> QED
    BY <1>1, <2>1 DEF Stands
<1>5. CASE ScanFails
  <2>1. pc' = "failed"
    BY <1>5 DEF ScanFails
  <2> QED
    BY <2>1 DEF Stands
<1>6. CASE EndPass
  <2>1. /\ pc = "load" /\ toLoad = <<>> /\ ToSet(toLoad) = {} /\ pass' = pass
        /\ pc' = CASE pass = 0 -> "scan" [] stage = "boot" /\ pass = Passes -> "done" [] OTHER -> "pause"
    BY <1>6 DEF EndPass, ToSet
  <2>2. ASSUME i <= pass PROVE driver[path[i]] # NoDriver
    <3>1. CASE i < pass
      BY <1>1, <2>1, <3>1 DEF Stands
    <3>2. CASE i = pass
      <4>1. OnTheWay(path[i])
        BY <1>1, <2>1, <3>2 DEF Stands
      <4>2. PICK m \in Pool : AsksFor(m, path[i]) /\ Willing(m)
        BY <1>1 DEF Meant, Pool
      <4> QED
        BY <2>1, <4>1, <4>2, AskedIsCalled DEF OnTheWay
    <3> QED
      BY <1>1, <2>2, <3>1, <3>2
  <2> QED
    BY <1>1, <1>2, <2>1, <2>2 DEF Stands
<1>7. CASE Wake
  <2>1. pc = "pause" /\ pass' = pass /\ pc' = IF pass >= Passes THEN "done" ELSE "scan"
    BY <1>7 DEF Wake
  <2> QED
    BY <1>1, <1>2, <2>1 DEF Stands
<1>8. ASSUME NEW h \in Pool, Insmod(h) PROVE Stands(path, i)'
  <2>1. /\ Turn(h) /\ pc' = pc /\ pass' = pass /\ present' = present /\ mods' = Append(mods, h)
    BY <1>8 DEF Insmod
  <2>2. InKernel' = InKernel \cup {h} /\ ToSet(toLoad) = {h} \cup ToSet(toLoad')
    BY <2>1, TurnIs, AppendSet DEF InKernel, BaseInv, PassTyped
  <2>3. OnTheWay(path[i]) => OnTheWay(path[i])'
    BY <1>3, <2>1, <2>2 DEF OnTheWay
  <2> QED
    BY <1>1, <1>2, <2>1, <2>3 DEF Stands
<1>9. ASSUME NEW h \in Pool, Refused(h) \/ NothingDone(h) PROVE Stands(path, i)'
  <2>1. /\ Turn(h) /\ pc' = pc /\ pass' = pass /\ UNCHANGED <<mods, present, driver>>
    BY <1>9 DEF Refused, NothingDone
  <2>2. InKernel' = InKernel /\ ToSet(toLoad) = {h} \cup ToSet(toLoad') /\ (pass > 0 => h \notin InKernel)
    BY <2>1, TurnIs DEF InKernel
  <2>3. ASSUME OnTheWay(path[i]), pass > 0, AsksFor(h, path[i]), Willing(h) PROVE FALSE
    <3>1. Linked(h) /\ h \notin pack.bad /\ ~Unasked(h)
      BY <1>1, <2>1, <2>2, <2>3, HeadLoads
    <3>2. ~GivesUp(h)
      BY <2>3 DEF OnTheWay, GivesUp, AsksFor
    <3> QED
      BY <1>9, <2>2, <2>3, <3>1, <3>2 DEF Refused, NothingDone
  <2>4. OnTheWay(path[i]) /\ pass > 0 => OnTheWay(path[i])'
    BY <1>3, <2>1, <2>2, <2>3 DEF OnTheWay
  <2> QED
    BY <1>1, <1>2, <2>1, <2>4 DEF Stands
<1>10. ASSUME NEW d \in Devices, Register(d) PROVE Stands(path, i)'
  <2>1. present' = present \cup {d} /\ UNCHANGED <<pc, pass, toLoad, mods>>
    BY <1>10, RegisterIs
  <2>2. OnTheWay(path[i]) => OnTheWay(path[i])'
    BY <1>3, <2>1 DEF OnTheWay, InKernel
  <2> QED
    BY <1>1, <1>2, <2>1, <2>2 DEF Stands
<1>11. CASE UNCHANGED passVars
  <2>1. UNCHANGED <<pc, pass, toLoad, mods, present, driver>>
    BY <1>11 DEF passVars
  <2>2. OnTheWay(path[i]) => OnTheWay(path[i])'
    BY <1>3, <2>1 DEF OnTheWay, InKernel
  <2> QED
    BY <1>1, <2>1, <2>2 DEF Stands
<1> QED
  BY <1>4, <1>5, <1>6, <1>7, <1>8, <1>9, <1>10, <1>11 DEF PassesNext, Loader, Pool

LEMMA QuietScan ==
  ASSUME BaseInv, PathInv, Reliable, [PassesNext]_passVars, pc' = "scan", pass' > 0
  PROVE  Coming' = {}
<1>1. CASE Wake
  <2>1. Coming \cap Devices = {} /\ UNCHANGED <<machine, driver, present>>
    BY <1>1 DEF Wake, Reliable
  <2> QED
    BY <2>1 DEF Coming
<1>2. CASE UNCHANGED passVars
  BY <1>2 DEF passVars, PathInv, Coming
<1>3. ASSUME NEW d \in Devices, Register(d) PROVE FALSE
  <2>1. pc = "scan" /\ pass > 0
    BY <1>3, RegisterIs
  <2> QED
    BY <1>3, <2>1 DEF PathInv, Register
<1>4. ~ByNames /\ ~ScanFails /\ ~Scan
  BY DEF ByNames, ScanFails, Scan
<1>5. ~EndPass
  <2> SUFFICES ASSUME EndPass PROVE FALSE
    OBVIOUS
  <2>1. pass # 0
    BY DEF EndPass
  <2> QED
    BY <2>1 DEF EndPass
<1>6. ASSUME NEW h \in Pool, Insmod(h) \/ Refused(h) \/ NothingDone(h) PROVE FALSE
  BY <1>6 DEF Insmod, Refused, NothingDone, Turn
<1> QED
  BY <1>1, <1>2, <1>3, <1>4, <1>5, <1>6 DEF PassesNext, Loader, Pool

LEMMA NextPath == BaseInv /\ PathInv /\ [PassesNext]_passVars => PathInv'
<1> SUFFICES ASSUME BaseInv, PathInv, [PassesNext]_passVars, Reliable
             PROVE  /\ pc' = "scan" /\ pass' > 0 => Coming' = {}
                    /\ \A n \in Nat : \A path \in [1..n -> Devices] : n > 0 /\ Meets(path) => \A i \in 1..n : Stands(path, i)'
  BY Fixed DEF PathInv, Reliable
<1>1. CASE Scan
  BY <1>1, ScanPath, QuietScan
<1>2. CASE ~Scan
  BY <1>2, StepPath, QuietScan
<1> QED
  BY <1>1, <1>2

LEMMA PathReached == BaseInv /\ PathInv => Reached
<1> SUFFICES ASSUME BaseInv, PathInv, Over, NEW n \in 1..Passes, NEW path \in [1..n -> Devices], Meets(path)
             PROVE  driver[path[n]] # NoDriver
  BY DEF Reached
<1>1. n \in Nat /\ n > 0 /\ n \in 1..n /\ n <= Passes
  BY PassesAssumption
<1>2. Reliable /\ pc = "done"
  BY DEF Over, Reliable
<1>3. Stands(path, n)
  BY <1>1, <1>2 DEF PathInv
<1> QED
  BY <1>1, <1>2, <1>3 DEF Stands

(***************************************************************************)
(* Devices that come late: a pass that finds no new one was the last that  *)
(* could load anything, so as many passes as there are devices are enough. *)
(***************************************************************************)

\* Loading it would do nothing, and does nothing for as long as no device comes.
Stuck(m) ==
  Unasked(m) \/ m \in pack.bad \/ GivesUp(m) \/ \E y \in Pool : Uses(m, y) /\ y \notin InKernel
StuckNow(m) ==
  Unasked(m) \/ m \in pack.bad \/ GivesUp(m) \/ \E y \in Pool : Uses(m, y) /\ y \notin InKernel \cup ToSet(toLoad)

Quiet == Coming = {} /\ \A m \in Pool \ InKernel : Called(m) => Stuck(m)
Tried == \A m \in Pool \ InKernel : Called(m) => m \in ToSet(toLoad) \/ StuckNow(m)
More(k) == Cardinality(present) >= k

GainInv ==
  Reliable =>
    /\ pc = "scan" => More(pass + 1) \/ Quiet
    /\ pc \in {"load", "pause"} /\ pass > 0 => More(pass + 1) \/ (More(pass) /\ Tried) \/ Quiet
    /\ pc = "done" => More(Passes + 1) \/ (More(Passes) /\ Tried) \/ Quiet

LEMMA PresentFinite ==
  ASSUME PassTyped
  PROVE  IsFiniteSet(present) /\ Cardinality(present) \in Nat /\ Cardinality(present) <= Cardinality(Devices)
<1>1. IsFiniteSet(Devices) /\ present \subseteq Devices
  BY PassesAssumption DEF PassTyped
<1>2. IsFiniteSet(present) /\ Cardinality(present) <= Cardinality(Devices)
  BY <1>1, FS_Subset
<1> QED
  BY <1>2, FS_CardinalityType

\* A machine without devices has nothing to load.
LEMMA MoreOrQuiet ==
  ASSUME BaseInv
  PROVE  More(1) \/ Quiet
<1>1. /\ IsFiniteSet(present) /\ Cardinality(present) \in Nat
      /\ (Cardinality(present) = 0 <=> present = {})
  BY PresentFinite, FS_EmptySet DEF BaseInv
<1>2. CASE present = {}
  <2>1. ASSUME NEW d \in Coming PROVE FALSE
    <3>1. machine.parent[d] \in Devices /\ driver[machine.parent[d]] # NoDriver
      BY PassesAssumption DEF Coming, BaseInv, PassTyped
    <3> QED
      BY <1>2, <3>1 DEF BaseInv, Kernel
  <2>2. \A m : ~Called(m)
    BY <1>2 DEF Called
  <2> QED
    BY <2>1, <2>2 DEF Quiet
<1>3. CASE present # {}
  BY <1>1, <1>3 DEF More
<1> QED
  BY <1>2, <1>3

\* What stays true when nothing is loaded and no device comes.
LEMMA GainStays ==
  ASSUME BaseInv, [PassesNext]_passVars, mods' = mods, present' = present, driver' = driver, failed \subseteq failed'
  PROVE  /\ Quiet => Quiet'
         /\ toLoad' = toLoad /\ Tried => Tried'
         /\ \A k : More(k)' <=> More(k)
<1>1. /\ InKernel' = InKernel /\ Coming' = Coming /\ Pool' = Pool /\ stage' = stage /\ pack' = pack
      /\ \A n : Called(n)' <=> Called(n)
      /\ \A m, d : (Drives(m, d)' <=> Drives(m, d)) /\ (Uses(m, d)' <=> Uses(m, d))
  BY KernelStays, Fixed
<1>2. \A m : (Unasked(m) => Unasked(m)') /\ (GivesUp(m)' <=> GivesUp(m))
  BY <1>1 DEF Unasked, GivesUp
<1>3. \A m : Stuck(m) => Stuck(m)'
  BY <1>1, <1>2 DEF Stuck
<1>4. Quiet => Quiet'
  BY <1>1, <1>3 DEF Quiet
<1>5. toLoad' = toLoad => \A m : StuckNow(m) => StuckNow(m)'
  BY <1>1, <1>2 DEF StuckNow
<1>6. toLoad' = toLoad /\ Tried => Tried'
  BY <1>1, <1>5 DEF Tried
<1> QED
  BY <1>4, <1>6 DEF More

LEMMA InitGain == PassesInit => GainInv
<1> SUFFICES ASSUME PassesInit PROVE GainInv
  OBVIOUS
<1>1. More(1) \/ Quiet
  BY InitBase, MoreOrQuiet
<1>2. pass = 0 /\ pc \in {"names", "scan"} /\ pass + 1 = 1
  BY DEF PassesInit
<1> QED
  BY <1>1, <1>2 DEF GainInv

LEMMA ScanGain ==
  ASSUME BaseInv, PathInv, GainInv, Reliable, Scan
  PROVE  GainInv'
<1>0. [PassesNext]_passVars
  BY DEF PassesNext, Loader
<1>1. /\ UNCHANGED <<machine, stage, pack, failed, mods, present, driver>>
      /\ pass' = pass + 1 /\ pass \in Nat /\ pc = "scan"
      /\ pc' = IF stage = "init" /\ toLoad' = <<>> THEN "done" ELSE "load"
  BY DEF Scan, BaseInv, PassTyped
<1>2. (Quiet => Quiet') /\ \A k : More(k)' <=> More(k)
  BY <1>0, <1>1, GainStays
<1>3. /\ InKernel' = InKernel /\ Pool' = Pool /\ Coming' = Coming
      /\ \A n : Called(n)' <=> Called(n)
  BY <1>0, <1>1, KernelStays, Fixed
<1>4. FullList(toLoad')
  BY ScanFinds DEF Reliable
<1>5. CASE pc' = "load"
  <2>1. Tried'
    BY <1>3, <1>4 DEF Tried, FullList
  <2>2. More(pass + 1) \/ Quiet
    BY <1>1 DEF GainInv
  <2> QED
    BY <1>1, <1>2, <1>5, <2>1, <2>2 DEF GainInv
<1>6. CASE pc' = "done"
  <2>1. stage = "init" /\ ToSet(toLoad') = {}
    BY <1>1, <1>6 DEF ToSet
  <2>2. Coming = {}
    <3>1. CASE pass > 0
      BY <1>1, <3>1 DEF PathInv
    <3>2. CASE pass = 0
      <4>1. InKernel = {}
        BY <2>1, <3>2 DEF BaseInv, Phases, InKernel, ToSet
      <4>2. \A d \in Devices : driver[d] = NoDriver
        BY <4>1 DEF BaseInv, Kernel
      <4>3. ASSUME NEW d \in Coming PROVE FALSE
        BY <4>2, <4>3, PassesAssumption DEF Coming, BaseInv, PassTyped
      <4> QED
        BY <4>3
    <3> QED
      BY <1>1, <3>1, <3>2
  <2>3. \A m \in Pool \ InKernel : ~Called(m)
    BY <1>4, <2>1 DEF FullList
  <2>4. Quiet'
    BY <1>3, <2>2, <2>3 DEF Quiet
  <2> QED
    BY <1>6, <2>4 DEF GainInv
<1> QED
  BY <1>1, <1>5, <1>6

LEMMA InsmodGain ==
  ASSUME BaseInv, GainInv, Reliable, NEW h \in Pool, Insmod(h)
  PROVE  GainInv'
<1>0. [PassesNext]_passVars
  BY DEF PassesNext, Loader, Pool
<1>1. /\ Turn(h) /\ pc = "load" /\ mods' = Append(mods, h)
      /\ UNCHANGED <<machine, stage, pack, pc, pass, failed, present>>
  BY DEF Insmod, Turn
<1>2. /\ InKernel' = InKernel \cup {h} /\ ToSet(toLoad) = {h} \cup ToSet(toLoad')
      /\ (pass > 0 => h \notin InKernel /\ Called(h))
  BY <1>1, TurnIs, AppendSet DEF InKernel, BaseInv, PassTyped
<1>3. /\ Pool' = Pool
      /\ \A m, d : (AsksFor(m, d)' <=> AsksFor(m, d)) /\ (Drives(m, d)' <=> Drives(m, d)) /\ (Uses(m, d)' <=> Uses(m, d))
      /\ \A m : Needed(m)' = Needed(m)
  BY <1>0, Fixed
<1>4. \A n : Called(n)' <=> Called(n)
  BY <1>1, <1>3 DEF Called
<1>5. \A m : (Unasked(m)' <=> Unasked(m)) /\ (GivesUp(m)' <=> GivesUp(m))
  BY <1>1, <1>3 DEF Unasked, GivesUp
<1>6. ASSUME pass > 0, Quiet PROVE FALSE
  <2>1. Stuck(h)
    BY <1>2, <1>6 DEF Quiet
  <2>2. ~Unasked(h) /\ h \notin pack.bad /\ ~GivesUp(h) /\ Linked(h)
    BY DEF Insmod
  <2>3. \A y : Uses(h, y) => y \in InKernel
    BY <2>2 DEF Linked, Uses
  <2> QED
    BY <2>1, <2>2, <2>3 DEF Stuck
<1>7. Tried => Tried'
  <2> SUFFICES ASSUME Tried, NEW m \in Pool, m \notin InKernel', Called(m)
               PROVE  m \in ToSet(toLoad') \/ StuckNow(m)'
    BY <1>3, <1>4 DEF Tried
  <2>1. m # h /\ m \notin InKernel
    BY <1>2
  <2>2. m \in ToSet(toLoad) \/ StuckNow(m)
    BY <2>1 DEF Tried
  <2>3. \A y : y \notin InKernel \cup ToSet(toLoad) => y \notin InKernel' \cup ToSet(toLoad')
    BY <1>2
  <2>4. StuckNow(m) => StuckNow(m)'
    BY <1>1, <1>3, <1>5, <2>3 DEF StuckNow
  <2> QED
    BY <1>2, <2>1, <2>2, <2>4
<1>8. \A k : More(k)' <=> More(k)
  BY <1>1 DEF More
<1> QED
  BY <1>1, <1>6, <1>7, <1>8 DEF GainInv

LEMMA SkippedGain ==
  ASSUME BaseInv, GainInv, Reliable, NEW h \in Pool, Refused(h) \/ NothingDone(h)
  PROVE  GainInv'
<1>0. [PassesNext]_passVars
  BY DEF PassesNext, Loader, Pool
<1>1. /\ Turn(h) /\ pc = "load" /\ UNCHANGED <<machine, stage, pack, pc, pass, mods, present, driver>>
      /\ failed \subseteq failed'
  BY DEF Refused, NothingDone, Turn
<1>2. ToSet(toLoad) = {h} \cup ToSet(toLoad') /\ (pass > 0 => h \notin InKernel /\ \A y \in ToSet(toLoad') : ~Uses(h, y))
  BY <1>1, TurnIs DEF Reliable
<1>3. /\ InKernel' = InKernel /\ Pool' = Pool
      /\ \A n : Called(n)' <=> Called(n)
      /\ \A m, d : (Drives(m, d)' <=> Drives(m, d)) /\ (Uses(m, d)' <=> Uses(m, d))
  BY <1>0, <1>1, KernelStays, Fixed
<1>4. \A m : (Unasked(m) => Unasked(m)') /\ (GivesUp(m)' <=> GivesUp(m))
  BY <1>1, <1>3 DEF Unasked, GivesUp
<1>5. (Quiet => Quiet') /\ \A k : More(k)' <=> More(k)
  BY <1>0, <1>1, GainStays
<1>6. ASSUME pass > 0 PROVE StuckNow(h)'
  <2>1. CASE Unasked(h) \/ h \in pack.bad \/ GivesUp(h)
    BY <1>1, <1>4, <2>1 DEF StuckNow
  <2>2. CASE ~Linked(h)
    <3>1. PICK y \in Pool : Uses(h, y) /\ y \notin InKernel
      BY <2>2 DEF Linked, Uses, Pool
    <3>2. y \notin InKernel \cup ToSet(toLoad')
      BY <1>2, <1>6, <3>1
    <3> QED
      BY <1>3, <3>1, <3>2 DEF StuckNow
  <2> QED
    BY <1>2, <1>6, <2>1, <2>2 DEF Refused, NothingDone
<1>7. pass > 0 /\ Tried => Tried'
  <2> SUFFICES ASSUME pass > 0, Tried, NEW m \in Pool, m \notin InKernel, Called(m)
               PROVE  m \in ToSet(toLoad') \/ StuckNow(m)'
    BY <1>3 DEF Tried
  <2>1. m \in ToSet(toLoad) \/ StuckNow(m)
    BY DEF Tried
  <2>2. \A y : y \notin InKernel \cup ToSet(toLoad) => y \notin InKernel \cup ToSet(toLoad')
    BY <1>2
  <2>3. StuckNow(m) => StuckNow(m)'
    BY <1>1, <1>3, <1>4, <2>2 DEF StuckNow
  <2> QED
    BY <1>2, <1>6, <2>1, <2>3
<1> QED
  BY <1>1, <1>5, <1>7 DEF GainInv

\* Another device, or one that no pass waits for any more.
LEMMA RegisterGain ==
  ASSUME BaseInv, PathInv, GainInv, Reliable, NEW d \in Devices, Register(d)
  PROVE  GainInv'
<1>1. /\ d \notin present /\ present' = present \cup {d} /\ d \in Coming
      /\ UNCHANGED <<pc, pass>> /\ pass \in Nat /\ Passes \in Nat
  BY RegisterIs, PassesAssumption DEF Register, BaseInv, PassTyped
<1>2. ~Quiet /\ ~(pc = "scan" /\ pass > 0)
  BY <1>1 DEF Quiet, PathInv
<1>3. Cardinality(present') = Cardinality(present) + 1 /\ Cardinality(present) \in Nat
  BY <1>1, PresentFinite, FS_AddElement DEF BaseInv
<1>4. \A k \in Nat : More(k) => More(k)' /\ More(k + 1)'
  BY <1>3 DEF More
<1>5. pass + 1 \in Nat /\ Passes + 1 \in Nat
  BY <1>1
<1>6. pc = "scan" => More(pass + 1)'
  BY <1>1, <1>2, <1>4, <1>5 DEF GainInv
<1>7. pc \in {"load", "pause"} /\ pass > 0 => More(pass + 1)'
  BY <1>1, <1>2, <1>4, <1>5 DEF GainInv
<1>8. pc = "done" => More(Passes + 1)'
  BY <1>1, <1>2, <1>4, <1>5 DEF GainInv
<1> QED
  BY <1>1, <1>6, <1>7, <1>8 DEF GainInv, More

LEMMA BetweenGain ==
  ASSUME BaseInv, GainInv, Reliable, ByNames \/ ScanFails \/ EndPass \/ Wake \/ UNCHANGED passVars
  PROVE  GainInv'
<1>0. [PassesNext]_passVars
  BY DEF PassesNext, Loader
<1>1. UNCHANGED <<pass, failed, mods, present, driver>> /\ pass \in Nat /\ Passes \in Nat
  BY PassesAssumption DEF ByNames, ScanFails, EndPass, Wake, passVars, BaseInv, PassTyped
<1>2. /\ Quiet => Quiet'
      /\ toLoad' = toLoad /\ Tried => Tried'
      /\ \A k : More(k)' <=> More(k)
  BY <1>0, <1>1, GainStays
<1>3. CASE ByNames
  <2>1. pc' = "load" /\ pass' = 0
    BY <1>1, <1>3 DEF ByNames, BaseInv, Phases
  <2> QED
    BY <2>1 DEF GainInv
<1>4. CASE ScanFails
  <2>1. pc' = "failed"
    BY <1>4 DEF ScanFails
  <2> QED
    BY <2>1 DEF GainInv
<1>5. CASE EndPass
  <2>1. /\ pc = "load" /\ toLoad' = toLoad
        /\ pc' = CASE pass = 0 -> "scan" [] stage = "boot" /\ pass = Passes -> "done" [] OTHER -> "pause"
    BY <1>5 DEF EndPass
  <2>2. CASE pass = 0
    <3>1. pc' = "scan"
      BY <2>1, <2>2, PassesAssumption
    <3>2. pass' + 1 = 1
      BY <1>1, <2>2
    <3> QED
      BY <1>2, <3>1, <3>2, MoreOrQuiet DEF GainInv
  <2>3. CASE pass > 0
    <3>1. More(pass + 1) \/ (More(pass) /\ Tried) \/ Quiet
      BY <2>1, <2>3 DEF GainInv
    <3>2. pc' = "pause" \/ (pc' = "done" /\ pass = Passes)
      BY <2>1, <2>3
    <3> QED
      BY <1>1, <1>2, <2>1, <3>1, <3>2 DEF GainInv
  <2> QED
    BY <1>1, <2>2, <2>3
<1>6. CASE Wake
  <2>1. /\ pc = "pause" /\ Coming \cap machine.prompt = {} /\ toLoad' = toLoad
        /\ pc' = IF pass >= Passes THEN "done" ELSE "scan"
    BY <1>6 DEF Wake
  <2>2. Coming = {} /\ pass > 0 /\ ToSet(toLoad) = {}
    BY <2>1 DEF Reliable, Coming, BaseInv, Phases, ToSet
  <2>3. More(pass + 1) \/ Quiet
    <3>1. Tried => Quiet
      <4> SUFFICES ASSUME Tried, NEW m \in Pool \ InKernel, Called(m) PROVE Stuck(m)
        BY <2>2 DEF Quiet
      <4>1. StuckNow(m)
        BY <2>2 DEF Tried
      <4> QED
        BY <4>1 DEF StuckNow, Stuck
    <3> QED
      BY <2>1, <2>2, <3>1 DEF GainInv
  <2>4. CASE pass >= Passes
    <3>1. Cardinality(present) \in Nat
      BY PresentFinite DEF BaseInv
    <3>2. More(pass + 1) => More(Passes + 1)
      BY <1>1, <2>4, <3>1 DEF More
    <3> QED
      BY <1>2, <2>1, <2>3, <2>4, <3>2 DEF GainInv
  <2>5. CASE ~(pass >= Passes)
    BY <1>1, <1>2, <2>1, <2>3, <2>5 DEF GainInv
  <2> QED
    BY <2>4, <2>5
<1>7. CASE UNCHANGED passVars
  <2>1. UNCHANGED <<pc, pass, toLoad>>
    BY <1>7 DEF passVars
  <2> QED
    BY <1>2, <2>1 DEF GainInv
<1> QED
  BY <1>3, <1>4, <1>5, <1>6, <1>7

LEMMA NextGain == BaseInv /\ PathInv /\ GainInv /\ [PassesNext]_passVars => GainInv'
<1> SUFFICES ASSUME BaseInv, PathInv, GainInv, [PassesNext]_passVars PROVE GainInv'
  OBVIOUS
<1>1. Reliable' <=> Reliable
  BY Fixed DEF Reliable
<1>2. CASE ~Reliable
  BY <1>1, <1>2 DEF GainInv
<1>3. CASE Reliable
  <2>1. CASE Scan
    BY <1>3, <2>1, ScanGain
  <2>2. ASSUME NEW h \in Pool, Insmod(h) PROVE GainInv'
    BY <1>3, <2>2, InsmodGain
  <2>3. ASSUME NEW h \in Pool, Refused(h) \/ NothingDone(h) PROVE GainInv'
    BY <1>3, <2>3, SkippedGain
  <2>4. ASSUME NEW d \in Devices, Register(d) PROVE GainInv'
    BY <1>3, <2>4, RegisterGain
  <2>5. CASE ByNames \/ ScanFails \/ EndPass \/ Wake \/ UNCHANGED passVars
    BY <1>3, <2>5, BetweenGain
  <2> QED
    BY <2>1, <2>2, <2>3, <2>4, <2>5 DEF PassesNext, Loader, Pool
<1> QED
  BY <1>2, <1>3

(***************************************************************************)
(* What the invariant comes to when the passes are over.                   *)
(***************************************************************************)
LEMMA GainNoneLeft == BaseInv /\ GainInv => NoneLeft
<1> SUFFICES ASSUME BaseInv, GainInv, Over, Cardinality(Devices) <= Passes, NEW d \in present, Meant(d)
             PROVE  driver[d] # NoDriver
  BY DEF NoneLeft
<1>1. Reliable /\ pc = "done" /\ ToSet(toLoad) = {} /\ pack \in Packs /\ Orderly
  BY DEF Over, Reliable, BaseInv, Phases, PassTyped, ToSet
<1>2. ~More(Passes + 1)
  <2>1. Cardinality(present) \in Nat /\ Cardinality(present) <= Cardinality(Devices) /\ Passes \in Nat
    BY PresentFinite, PassesAssumption DEF BaseInv
  <2>2. Cardinality(Devices) \in Nat
    BY FS_CardinalityType, PassesAssumption
  <2> QED
    BY <2>1, <2>2 DEF More
<1>3. \A x \in Pool \ InKernel : Called(x) => Stuck(x)
  <2>1. Tried \/ Quiet
    BY <1>1, <1>2 DEF GainInv
  <2>2. \A x : StuckNow(x) => Stuck(x)
    BY DEF StuckNow, Stuck
  <2> QED
    BY <1>1, <2>1, <2>2 DEF Tried, Quiet
<1>4. PICK m \in Pool : AsksFor(m, d) /\ Willing(m)
  BY DEF Meant, Pool
<1>5. ASSUME m \notin InKernel PROVE FALSE
  <2> DEFINE S == {y \in Needed(m) \cap Pool : y \notin InKernel}
  <2>1. m \in S /\ S \in SUBSET Pool
    BY <1>1, <1>5, NeededIs
  <2>2. PICK x \in S : \A y \in S : ~Uses(x, y)
    <3> HIDE DEF S
    <3> QED
      BY <1>1, <2>1 DEF Orderly, Pool
  <2>3. x \in Needed(m) \cap Pool /\ x \notin InKernel
    OBVIOUS
  <2>4. Called(x)
    BY <1>4, <2>3 DEF Called
  <2>5. Willing(x) /\ (x # m => x \notin pack.shy)
    BY <1>1, <1>4, <2>3, WillingBelow
  <2>6. ~Unasked(x)
    BY <1>1, <2>5 DEF Unasked, BaseInv, Succeeds
  <2>7. x \notin pack.bad
    <3>1. x \in Needed(x)
      BY <1>1, <2>3, NeededIs
    <3> QED
      BY <2>5, <3>1 DEF Willing
  <2>8. ~GivesUp(x)
    BY <1>4, <2>5 DEF GivesUp, AsksFor
  <2>9. ASSUME NEW y \in Pool, Uses(x, y), y \notin InKernel PROVE FALSE
    <3>1. y \in Needed(m)
      BY <1>1, <2>3, <2>9, NeededIs
    <3> QED
      BY <2>2, <2>9, <3>1
  <2>10. Stuck(x)
    BY <1>3, <2>3, <2>4
  <2> QED
    BY <2>6, <2>7, <2>8, <2>9, <2>10 DEF Stuck
<1> QED
  BY <1>4, <1>5, AskedIsCalled

LEMMA AsksOnce == BaseInv => NoSecondLoad
<1> SUFFICES ASSUME BaseInv, pass > 0 PROVE InKernel \cap ToSet(toLoad) = {} /\ IsInjective(toLoad)
  BY DEF NoSecondLoad
<1>1. ListOK(toLoad)
  BY DEF BaseInv, Asks
<1>2. DOMAIN toLoad = 1..Len(toLoad)
  BY <1>1 DEF ListOK
<1> QED
  BY <1>1, <1>2 DEF ListOK, IsInjective

LEMMA CalledForOurs == BaseInv => OursByNeed
<1> SUFFICES ASSUME BaseInv, NEW d \in present, stage = "init", driver[d] \in Pool \ pack.prefer
             PROVE  Called(driver[d])
  BY DEF OursByNeed, Called, Pool
<1>1. d \in Devices /\ driver[d] # NoDriver
  BY PackIs DEF BaseInv, PassTyped
<1>2. driver[d] \in InKernel
  BY <1>1 DEF BaseInv, Kernel
<1> QED
  BY <1>2 DEF BaseInv, Asks

\* drivers_linux.go, extradrivers_linux.go: with the passes over on a machine that
\* brings its devices up during a pause, each step to a device that has drivers
\* meant for it is taken by a pass, and with a pass for each device none is left
\* without a driver meant for it, however late a driver's devices come up; at no
\* time is a module asked for twice, or one of ours loaded that nothing called for.
THEOREM DriversFoundCorrect == PassesSpec => []DriversFound
<1>1. PassesInit => BaseInv /\ PathInv /\ GainInv
  BY InitBase, InitPath, InitGain
<1>2. BaseInv /\ PathInv /\ GainInv /\ [PassesNext]_passVars => (BaseInv /\ PathInv /\ GainInv)'
  BY NextBase, NextPath, NextGain
<1>3. BaseInv /\ PathInv /\ GainInv => DriversFound
  BY PathReached, GainNoneLeft, AsksOnce, CalledForOurs DEF DriversFound
<1> QED
  BY <1>1, <1>2, <1>3, PTL DEF PassesSpec

(* The ports as lists                                                      *)

\* A port is one of a controller, by its number.
LEMMA PortsAre ==
  \A p \in Ports : /\ p.on \in ToSet(Controllers) /\ p.on.ports \in 1..9
                   /\ p.index \in Nat /\ p.index < p.on.ports
                   /\ p = [on |-> p.on, index |-> p.index]
<1> TAKE p \in Ports
<1>1. PICK c \in ToSet(Controllers) : p \in {[on |-> c, index |-> i - 1] : i \in 1..c.ports}
  BY DEF Ports
<1>2. PICK i \in 1..c.ports : p = [on |-> c, index |-> i - 1]
  BY <1>1
<1>3. c.ports \in 1..9
  BY DiskBaysAssumption
<1>4. i - 1 \in Nat /\ i - 1 < c.ports
  BY <1>3
<1> QED
  BY <1>2, <1>3, <1>4

\* There are finitely many.
LEMMA PortsFinite == IsFiniteSet(Ports)
<1> DEFINE X == (1..Len(Controllers)) \X (0..9)
           f == [x \in X |-> [on |-> Controllers[x[1]], index |-> x[2]]]
           Y == {f[x] : x \in X}
<1>1. Len(Controllers) \in Nat /\ DOMAIN Controllers = 1..Len(Controllers)
  BY DiskBaysAssumption
<1>2. IsFiniteSet(X)
  <2>1. IsFiniteSet(1..Len(Controllers))
    BY <1>1, FS_Interval
  <2>2. IsFiniteSet(0..9)
    <3>1. PICK k \in Int : k = 0
      OBVIOUS
    <3>2. PICK n \in Int : n = 9
      OBVIOUS
    <3>3. IsFiniteSet(k..n)
      BY FS_Interval
    <3> QED
      BY <3>1, <3>2, <3>3
  <2> QED
    BY <2>1, <2>2, FS_Product
<1>3. \A p \in Ports : p \in Y
  <2> TAKE p \in Ports
  <2>1. /\ p.on \in ToSet(Controllers) /\ p.on.ports \in 1..9
        /\ p.index \in Nat /\ p.index < p.on.ports
        /\ p = [on |-> p.on, index |-> p.index]
    BY PortsAre
  <2>2. PICK i \in 1..Len(Controllers) : Controllers[i] = p.on
    BY <1>1, <2>1 DEF ToSet
  <2>3. <<i, p.index>> \in X
    BY <2>1
  <2>4. f[<<i, p.index>>] = p
    BY <2>1, <2>2, <2>3
  <2> QED
    BY <2>3, <2>4
<1>4. f \in Surjection(X, Y)
  <2> HIDE DEF X
  <2>1. f \in [X -> Y]
    OBVIOUS
  <2>2. \A y \in Y : \E x \in X : f[x] = y
    OBVIOUS
  <2> HIDE DEF f, Y
  <2> QED
    BY <2>1, <2>2 DEF Surjection
<1>5. IsFiniteSet(Y)
  <2> HIDE DEF X, f, Y
  <2> QED
    BY <1>2, <1>4, FS_Surjection
<1> QED
  <2> HIDE DEF Y
  <2> QED
    BY <1>3, <1>5, FS_Subset

\* The list of all ports has every one.
LEMMA AllPortsList ==
  /\ AllPorts \in Seq(Ports)
  /\ \A p \in Ports : \E k \in 1..Len(AllPorts) : AllPorts[k] = p
<1> DEFINE R == {pq \in Ports \X Ports : Sooner(pq[1], pq[2])}
           n == Cardinality(Ports)
           list == Listed(Ports, R)
<1>1. \A c \in ToSet(Controllers) : Address[c] \in Nat /\ Controllers[Address[c]] = c
  <2> TAKE c \in ToSet(Controllers)
  <2>1. Address[c] = CHOOSE i \in DOMAIN Controllers : Controllers[i] = c
    BY DEF Address
  <2>2. \E i \in DOMAIN Controllers : Controllers[i] = c
    BY DEF ToSet
  <2>3. DOMAIN Controllers \subseteq Nat
    BY DiskBaysAssumption
  <2> QED
    BY <2>1, <2>2, <2>3
<1>2. \A p, q \in Ports : <<p, q>> \in R <=> Sooner(p, q)
  OBVIOUS
<1>3. Orders(R, Ports)
  <2>1. \A p \in Ports : /\ Address[p.on] \in Nat /\ Controllers[Address[p.on]] = p.on
                         /\ p.index \in Nat /\ p = [on |-> p.on, index |-> p.index]
    BY <1>1, PortsAre
  <2>2. \A p \in Ports : ~Sooner(p, p)
    BY <2>1 DEF Sooner
  <2>3. \A p, q \in Ports : p # q => Sooner(p, q) \/ Sooner(q, p)
    <3> SUFFICES ASSUME NEW p \in Ports, NEW q \in Ports, p # q
                 PROVE  Sooner(p, q) \/ Sooner(q, p)
      OBVIOUS
    <3>1. p.on # q.on \/ p.index # q.index
      BY <2>1
    <3>2. CASE p.on = q.on
      <4>1. p.index # q.index /\ p.index \in Nat /\ q.index \in Nat
        BY <2>1, <3>1, <3>2
      <4>2. p.index < q.index \/ q.index < p.index
        BY <4>1
      <4> QED
        BY <3>2, <4>2 DEF Sooner
    <3>3. CASE p.on # q.on
      <4>1. Address[p.on] # Address[q.on] /\ Address[p.on] \in Nat /\ Address[q.on] \in Nat
        BY <2>1, <3>3
      <4>2. Address[p.on] < Address[q.on] \/ Address[q.on] < Address[p.on]
        BY <4>1
      <4> QED
        BY <4>2 DEF Sooner
    <3> QED
      BY <3>2, <3>3
  <2>4. \A p, q, r \in Ports : Sooner(p, q) /\ Sooner(q, r) => Sooner(p, r)
    BY <2>1 DEF Sooner
  <2> HIDE DEF R
  <2> QED
    BY <1>2, <2>2, <2>3, <2>4 DEF Orders
<1> HIDE DEF R
<1>4. /\ n \in Nat /\ list \in [1..n -> Ports]
      /\ \A x \in Ports : \E k \in 1..n : list[k] = x
  BY <1>3, PortsFinite, SortedList
<1> HIDE DEF n, list
<1>5. list \in Seq(Ports) /\ Len(list) = n
  BY <1>4
<1>6. AllPorts = list
  BY <1>5, TupleIs DEF AllPorts, list, R
<1> QED
  BY <1>4, <1>5, <1>6

\* Filtering a list that has every port leaves the ports that pass.
LEMMA WithinOfAll ==
  ASSUME NEW T
  PROVE  /\ Within(AllPorts, T) \in Seq(Ports \cap T)
         /\ \A p \in Ports \cap T : \E k \in 1..Len(Within(AllPorts, T)) : Within(AllPorts, T)[k] = p
<1>1. AllPorts \in Seq(Ports) /\ \A p \in Ports : \E k \in 1..Len(AllPorts) : AllPorts[k] = p
  BY AllPortsList
<1>2. Within(AllPorts, T) \in Seq(Ports \cap T)
  BY <1>1, WithinPlaces
<1>3. \A i \in 1..Len(AllPorts) : AllPorts[i] \in T =>
        \E k \in 1..Len(Within(AllPorts, T)) : Within(AllPorts, T)[k] = AllPorts[i]
  BY <1>1, WithinSet
<1>4. ASSUME NEW p \in Ports \cap T
      PROVE  \E k \in 1..Len(Within(AllPorts, T)) : Within(AllPorts, T)[k] = p
  <2>1. PICK i \in 1..Len(AllPorts) : AllPorts[i] = p
    BY <1>1
  <2> QED
    BY <1>3, <2>1
<1> QED
  BY <1>2, <1>4

\* The ports of the controllers with a disk, and behind them the others, both
\* restricted to T: two filters of one list.
LEMMA WithinOrder ==
  ASSUME NEW has, NEW T
  PROVE  LET busy == {p \in Ports : p.on \in Busy(has)}
         IN  Within(OrderForBays(has), T) =
               Within(AllPorts, busy \cap T) \o Within(AllPorts, (Ports \ busy) \cap T)
<1> DEFINE busy == {p \in Ports : p.on \in Busy(has)}
<1>1. AllPorts \in Seq(Ports)
  BY AllPortsList
<1>2. OrderForBays(has) = Within(AllPorts, busy) \o Within(AllPorts, Ports \ busy)
  BY DEF OrderForBays
<1> HIDE DEF busy
<1>3. PICK v \in Seq(Ports) : v = Within(AllPorts, busy)
  <2>1. Within(AllPorts, busy) \in Seq(Ports \cap busy)
    BY <1>1, WithinPlaces
  <2> QED
    BY <2>1
<1>4. PICK w \in Seq(Ports) : w = Within(AllPorts, Ports \ busy)
  <2>1. Within(AllPorts, Ports \ busy) \in Seq(Ports \cap (Ports \ busy))
    BY <1>1, WithinPlaces
  <2> QED
    BY <2>1
<1>5. Within(v \o w, T) = Within(v, T) \o Within(w, T)
  BY WithinConcat
<1>6. Within(v, T) = Within(AllPorts, busy \cap T)
  BY <1>1, <1>3, WithinTwice
<1>7. Within(w, T) = Within(AllPorts, (Ports \ busy) \cap T)
  BY <1>1, <1>4, WithinTwice
<1> QED
  BY <1>2, <1>3, <1>4, <1>5, <1>6, <1>7 DEF busy

\* What comes of it is in T, and every port in T comes.
LEMMA OrderWithin ==
  ASSUME NEW has, NEW T
  PROVE  /\ Within(OrderForBays(has), T) \in Seq(Ports \cap T)
         /\ ToSet(Within(OrderForBays(has), T)) = Ports \cap T
<1> DEFINE busy == {p \in Ports : p.on \in Busy(has)}
           V == busy \cap T
           W == (Ports \ busy) \cap T
           S == Ports \cap T
<1>1. S = V \cup W /\ V \subseteq S /\ W \subseteq S
  OBVIOUS
<1>a. Within(OrderForBays(has), T) = Within(AllPorts, V) \o Within(AllPorts, W)
  BY WithinOrder
<1>b. Ports \cap V = V /\ Ports \cap W = W
  OBVIOUS
<1> HIDE DEF V, W, S
<1>2. PICK v \in Seq(V) : /\ v = Within(AllPorts, V)
                          /\ \A p \in V : \E k \in 1..Len(v) : v[k] = p
  <2>1. /\ Within(AllPorts, V) \in Seq(Ports \cap V)
        /\ \A p \in Ports \cap V : \E k \in 1..Len(Within(AllPorts, V)) : Within(AllPorts, V)[k] = p
    BY WithinOfAll
  <2>2. /\ Within(AllPorts, V) \in Seq(V)
        /\ \A p \in V : \E k \in 1..Len(Within(AllPorts, V)) : Within(AllPorts, V)[k] = p
    BY <1>b, <2>1
  <2> QED
    BY <2>2
<1>3. PICK w \in Seq(W) : /\ w = Within(AllPorts, W)
                          /\ \A p \in W : \E k \in 1..Len(w) : w[k] = p
  BY <1>b, WithinOfAll
<1>c. v \in Seq(S) /\ w \in Seq(S)
  BY <1>1
<1>4. v \o w \in Seq(S)
  BY <1>c
<1>5. Len(v \o w) = Len(v) + Len(w)
  BY <1>c
<1>6. \A k \in 1..Len(v) : k \in 1..Len(v \o w) /\ (v \o w)[k] = v[k]
  BY <1>c
<1>7. \A k \in 1..Len(w) : Len(v) + k \in 1..Len(v \o w) /\ (v \o w)[Len(v) + k] = w[k]
  <2> TAKE k \in 1..Len(w)
  <2>1. Len(v) \in Nat /\ Len(w) \in Nat
    OBVIOUS
  <2>2. Len(v) + k \in 1..Len(v) + Len(w)
    BY <2>1
  <2>3. (v \o w)[Len(v) + k] = w[k]
    BY <1>c
  <2> QED
    BY <1>5, <2>2, <2>3
<1>8. PICK vw \in Seq(S) : vw = v \o w
  BY <1>4
<1>9. \A p \in S : \E k \in 1..Len(vw) : vw[k] = p
  <2> SUFFICES ASSUME NEW p \in S
               PROVE  \E k \in 1..Len(vw) : vw[k] = p
    OBVIOUS
  <2>1. CASE p \in V
    BY <1>2, <1>6, <1>8, <2>1
  <2>2. CASE p \in W
    <3>1. PICK k \in 1..Len(w) : w[k] = p
      BY <1>3, <2>2
    <3>2. Len(v) + k \in 1..Len(v \o w) /\ (v \o w)[Len(v) + k] = p
      BY <1>7, <3>1
    <3> QED
      BY <1>8, <3>2
  <2> QED
    BY <1>1, <2>1, <2>2
<1>10. ToSet(vw) = S
  <2>1. DOMAIN vw = 1..Len(vw) /\ \A k \in 1..Len(vw) : vw[k] \in S
    OBVIOUS
  <2> QED
    BY <1>9, <2>1 DEF ToSet
<1>11. vw = Within(OrderForBays(has), T)
  BY <1>a, <1>2, <1>3, <1>8
<1> QED
  BY <1>10, <1>11 DEF S

\* So a boot finds the SATA ports, each, without the loader's.
LEMMA FoundPorts ==
  ASSUME NEW has, NEW boot
  PROVE  /\ Found(has, boot) \in Seq(SataPorts \ {boot})
         /\ ToSet(Found(has, boot)) = SataPorts \ {boot}
<1>1. Ports \cap (SataPorts \ {boot}) = SataPorts \ {boot}
  BY DEF SataPorts
<1> QED
  BY <1>1, OrderWithin DEF Found

\* And in an order that depends on the controllers in use alone.
LEMMA FoundByUse ==
  ASSUME NEW x, NEW y, NEW boot, x \subseteq Ports, y \subseteq Ports,
         Busy(x \cap SataPorts) = Busy(y \cap SataPorts)
  PROVE  Found(x, boot) = Found(y, boot)
<1> DEFINE T == SataPorts \ {boot}
           inX == {p \in Ports : p.on \in Busy(x)}
           inY == {p \in Ports : p.on \in Busy(y)}
<1>1. \A p \in SataPorts : p \in Ports /\ p.on.sata
  BY DEF SataPorts
<1>2. \A p \in SataPorts : p.on \in Busy(x) <=> p.on \in Busy(x \cap SataPorts)
  BY DEF Busy, SataPorts
<1>3. \A p \in SataPorts : p.on \in Busy(y) <=> p.on \in Busy(y \cap SataPorts)
  BY DEF Busy, SataPorts
<1>4. \A p \in SataPorts : p.on \in Busy(x) <=> p.on \in Busy(y)
  BY <1>2, <1>3
<1>5. inX \cap T = inY \cap T /\ (Ports \ inX) \cap T = (Ports \ inY) \cap T
  BY <1>1, <1>4
<1>6. Found(x, boot) = Within(AllPorts, inX \cap T) \o Within(AllPorts, (Ports \ inX) \cap T)
  BY WithinOrder DEF Found
<1>7. Found(y, boot) = Within(AllPorts, inY \cap T) \o Within(AllPorts, (Ports \ inY) \cap T)
  BY WithinOrder DEF Found
<1> HIDE DEF inX, inY, T
<1> QED
  BY <1>5, <1>6, <1>7

-----------------------------------------------------------------------------
(* Bays from boot to boot                                                  *)

\* A build's ports are the same at any two boots with the loader in the same
\* place: with a plan whatever else is plugged in, and without one as long as
\* the same SATA controllers are in use.
LEMMA StayFact == BaysStay
<1> SUFFICES ASSUME NEW x \in Plugged, NEW y \in Plugged, x[2] = y[2],
                    RenderBayPlan # <<>> \/ Busy(x[1] \cap SataPorts) = Busy(y[1] \cap SataPorts)
             PROVE  PortsFor(x[1], x[2]) = PortsFor(y[1], y[2])
  BY DEF BaysStay
<1>1. x[1] \subseteq Ports /\ y[1] \subseteq Ports
  BY DiskBaysAssumption
<1>2. CASE RenderBayPlan # <<>>
  <2>1. /\ ToSet(Found(x[1], x[2])) = SataPorts \ {x[2]}
        /\ ToSet(Found(y[1], y[2])) = SataPorts \ {y[2]}
    BY FoundPorts
  <2>2. /\ PortsFor(x[1], x[2]) = Within(RenderBayPlan, ToSet(Found(x[1], x[2])))
        /\ PortsFor(y[1], y[2]) = Within(RenderBayPlan, ToSet(Found(y[1], y[2])))
    BY <1>2 DEF PortsFor, ApplyBayPlan
  <2> QED
    BY <2>1, <2>2
<1>3. CASE RenderBayPlan = <<>>
  <2>1. Found(x[1], x[2]) = Found(y[1], y[2])
    BY <1>1, <1>3, FoundByUse
  <2> QED
    BY <1>3, <2>1 DEF PortsFor, ApplyBayPlan
<1> QED
  BY <1>2, <1>3

\* A build's bays stay with their ports from boot to boot, whatever disks come
\* and go (mapDiskBays, on a device-tree model).
THEOREM BaysStayCorrect == Spec => []BaysStay
BY StayFact, PTL

-----------------------------------------------------------------------------
(* What the lists hold                                                     *)

OrderOK(list) == list \in Seq(Entries) /\ (list # <<>> => list[Len(list)] # Blank)

\* Candidates are ports.
LEMMA CandidatesArePorts ==
  ASSUME NEW has, NEW boot, NEW m
  PROVE  /\ Candidates(has, boot, m) \in Seq(Ports)
         /\ ToSet(Candidates(has, boot, m)) \subseteq Ports
<1> DEFINE T == {p \in has : m.dt => p.on.sata}
           new == has \cup ({boot} \cap Ports)
<1>1. /\ Within(OrderForBays(new), T) \in Seq(Ports \cap T)
      /\ ToSet(Within(OrderForBays(new), T)) = Ports \cap T
  BY OrderWithin
<1>2. Candidates(has, boot, m) = Within(OrderForBays(new), T)
  BY DEF Candidates
<1> HIDE DEF T, new
<1>3. Candidates(has, boot, m) \in Seq(Ports \cap T)
  BY <1>1, <1>2
<1>4. Candidates(has, boot, m) \in Seq(Ports)
  BY <1>3
<1> QED
  BY <1>1, <1>2, <1>4

\* The beginning of a list whose elements are no empty bays.
LEMMA DrawnOK ==
  ASSUME NEW list, OrderOK(list), NEW has, NEW boot, NEW m, m.bays \in Nat \ {0}
  PROVE  OrderOK(Drawn(list, has, boot, m))
<1>1. CASE list # <<>>
  BY <1>1 DEF Drawn
<1>2. CASE list = <<>>
  <2>1. PICK cand \in Seq(Ports) : cand = Candidates(has, boot, m)
    BY CandidatesArePorts
  <2>2. PICK n \in Nat : n = Lesser(Len(cand), m.bays)
    BY DEF Lesser
  <2>3. n <= Len(cand) /\ Len(cand) \in Nat
    BY <2>2 DEF Lesser
  <2>4. SubSeq(cand, 1, n) = [k \in 1..n |-> cand[k]]
    BY <2>3
  <2>5. \A k \in 1..n : cand[k] \in Ports
    BY <2>3
  <2>6. [k \in 1..n |-> cand[k]] \in [1..n -> Ports]
    BY <2>5
  <2>a. PICK s : s = SubSeq(cand, 1, n)
    OBVIOUS
  <2>b. s \in [1..n -> Ports]
    BY <2>4, <2>6, <2>a
  <2>7. s \in Seq(Ports)
    BY <2>b
  <2>8. Drawn(list, has, boot, m) = s
    BY <1>2, <2>1, <2>2, <2>a DEF Drawn, DefaultBayOrder
  <2>9. s \in Seq(Entries)
    BY <2>7 DEF Entries
  <2>10. s # <<>> => s[Len(s)] \in Ports
    BY <2>7
  <2> QED
    BY <2>8, <2>9, <2>10, DiskBaysAssumption DEF OrderOK
<1> QED
  BY <1>1, <1>2

\* The last bay of a choice is not empty.
LEMMA SetBayOK ==
  ASSUME OrderOK(order), model.bays \in Nat \ {0}, NEW bay \in 1..model.bays, NEW port \in Entries
  PROVE  OrderOK(SetBayPort(bay, port))
<1> DEFINE set == [b \in 1..model.bays |->
                     IF b = bay THEN port
                     ELSE IF BayOrderSized[b] = port THEN Blank ELSE BayOrderSized[b]]
           filled == {b \in 1..model.bays : set[b] # Blank}
<1>1. SetBayPort(bay, port) = IF filled = {} THEN <<>> ELSE SubSeq(set, 1, Max(filled))
  BY DEF SetBayPort
<1>2. PICK n \in Nat : n = model.bays
  OBVIOUS
<1>3. BayOrderSized \in [1..n -> Entries]
  <2>1. \A b \in 1..n : (IF b <= Len(order) THEN order[b] ELSE Blank) \in Entries
    BY DEF OrderOK, Entries
  <2> QED
    BY <1>2, <2>1 DEF BayOrderSized
<1>4. \A b \in 1..n : set[b] \in Entries
  BY <1>2, <1>3 DEF Entries
<1>5. set \in [1..n -> Entries]
  BY <1>2, <1>4
<1> HIDE DEF set
<1>6. CASE filled = {}
  <2>1. SetBayPort(bay, port) = <<>>
    BY <1>1, <1>6
  <2> QED
    BY <2>1 DEF OrderOK
<1>7. CASE filled # {}
  <2>1. filled \subseteq Nat /\ \A b \in filled : b <= n
    BY <1>2
  <2>2. \E x \in filled : \A y \in filled : x >= y
    <3> HIDE DEF filled
    <3> QED
      BY <1>7, <2>1, GreatestElement
  <2>3. PICK top \in filled : top = Max(filled)
    BY <2>2 DEF Max
  <2>4. top \in 1..n /\ set[top] # Blank
    BY <1>2
  <2>5. SubSeq(set, 1, top) = [k \in 1..top |-> set[k]]
    BY <1>5, <2>4
  <2>6. [k \in 1..top |-> set[k]] \in [1..top -> Entries]
    BY <1>5, <2>4
  <2>7. PICK s : s = [k \in 1..top |-> set[k]]
    OBVIOUS
  <2>a. s \in [1..top -> Entries] /\ top \in Nat
    BY <2>4, <2>6, <2>7
  <2>b. s \in Seq(Entries)
    BY <2>a
  <2>8. Len(s) = top /\ s[top] = set[top]
    BY <2>4, <2>7, <2>a
  <2>9. SetBayPort(bay, port) = s
    BY <1>1, <1>7, <2>3, <2>5, <2>7
  <2> QED
    BY <2>4, <2>8, <2>9, <2>b DEF OrderOK
<1> QED
  BY <1>6, <1>7

\* A boot's list has SATA ports, and never the loader's.
LEMMA PortsForOK ==
  ASSUME OrderOK(order), NEW has, NEW boot
  PROVE  PortsFor(has, boot) \in Seq(SataPorts \ {boot})
<1>1. PICK found \in Seq(SataPorts \ {boot}) :
        found = Found(has, boot) /\ ToSet(found) = SataPorts \ {boot}
  BY FoundPorts
<1>2. PICK plan : plan = RenderBayPlan
  OBVIOUS
<1>3. plan \in Seq(Entries \cap Ports)
  BY <1>2, WithinPlaces DEF OrderOK, RenderBayPlan
<1>4. Within(plan, ToSet(found)) \in Seq((Entries \cap Ports) \cap ToSet(found))
  BY <1>3, WithinPlaces
<1>5. Within(plan, ToSet(found)) \in Seq(SataPorts \ {boot})
  <2>1. (Entries \cap Ports) \cap ToSet(found) = SataPorts \ {boot}
    BY <1>1 DEF Entries, SataPorts
  <2> QED
    BY <1>4, <2>1
<1> QED
  BY <1>1, <1>2, <1>5 DEF PortsFor, ApplyBayPlan

-----------------------------------------------------------------------------
(* Where the controllers start                                             *)

\* DSM's kernel numbers each SATA controller once.
LEMMA SataList ==
  /\ Len(Sata) \in Nat
  /\ \A i \in 1..Len(Sata) : Sata[i].ports \in 1..9
  /\ \A i, j \in 1..Len(Sata) : Sata[i] = Sata[j] => i = j
<1> DEFINE T == {c \in ToSet(AtaOrder) : c.sata}
           C == ToSet(Controllers)
<1>1. AtaOrder \in Seq(C)
  BY DiskBaysAssumption
<1>2. \A i, j \in 1..Len(AtaOrder) : AtaOrder[i] = AtaOrder[j] => i = j
  BY <1>1, DiskBaysAssumption DEF IsInjective
<1>3. \A c \in C : c.ports \in 1..9
  BY DiskBaysAssumption
<1> HIDE DEF T, C
<1>4. PICK w : w = Within(AtaOrder, T)
  OBVIOUS
<1>5. w \in Seq(C \cap T)
  BY <1>1, <1>4, WithinPlaces
<1>6. \A i, j \in 1..Len(w) : w[i] = w[j] => i = j
  BY <1>1, <1>2, <1>4, WithinInjective
<1>7. Sata = w
  BY <1>4, <1>5, TupleIs DEF Sata, T
<1>8. Len(w) \in Nat /\ \A i \in 1..Len(w) : w[i] \in C
  BY <1>5
<1> QED
  BY <1>3, <1>6, <1>7, <1>8

\* A placed port is one of its controller.
LEMMA PlacedPort ==
  ASSUME OrderOK(order), NEW c, NEW b \in PlacedOn(c)
  PROVE  /\ b \in 1..Len(order) /\ Len(order) \in Nat
         /\ order[b] \in Ports /\ order[b].on = c
         /\ order[b].index \in Nat /\ order[b].index < c.ports
<1>1. b \in 1..Len(order) /\ order[b] # Blank /\ order[b].on = c
  BY DEF PlacedOn
<1>2. order[b] \in Entries /\ Len(order) \in Nat
  BY <1>1 DEF OrderOK
<1>3. order[b] \in Ports
  BY <1>1, <1>2 DEF Entries
<1> QED
  BY <1>1, <1>2, <1>3, PortsAre

\* Where an assigned controller starts; when all its placed ports agree on it,
\* that is where they do.
LEMMA FirstIndexOK ==
  ASSUME OrderOK(order), NEW c, PlacedOn(c) # {}
  PROVE  /\ FirstIndex(c) \in Nat /\ FirstIndex(c) <= Len(order)
         /\ (\A b, d \in PlacedOn(c) : b > order[b].index
                                        /\ b + order[d].index = d + order[b].index)
              => \A d \in PlacedOn(c) : FirstIndex(c) = d - 1 - order[d].index
<1> DEFINE I == {order[b].index : b \in PlacedOn(c)}
           p == Min(I)
           b0 == CHOOSE n \in PlacedOn(c) : order[n].index = p
<1>1. \A b \in PlacedOn(c) : /\ b \in Nat /\ b <= Len(order) /\ Len(order) \in Nat
                             /\ order[b].index \in Nat
  BY PlacedPort
<1>2. I \subseteq Nat /\ I # {}
  BY <1>1
<1>3. p \in I
  <2>1. \E x \in I : \A y \in I : x <= y
    <3> HIDE DEF I
    <3> QED
      BY <1>2, LeastElement
  <2> HIDE DEF I
  <2> QED
    BY <2>1 DEF Min
<1>4. \E n \in PlacedOn(c) : order[n].index = p
  BY <1>3
<1>5. b0 \in PlacedOn(c) /\ order[b0].index = p
  <2> HIDE DEF p
  <2> QED
    BY <1>4
<1>6. FirstIndex(c) = IF b0 > p THEN b0 - 1 - p ELSE 0
  BY DEF FirstIndex
<1> HIDE DEF b0, p, I
<1>7. b0 \in Nat /\ p \in Nat /\ b0 <= Len(order) /\ Len(order) \in Nat
  BY <1>1, <1>5
<1>8. FirstIndex(c) \in Nat /\ FirstIndex(c) <= Len(order)
  BY <1>6, <1>7
<1>9. ASSUME \A b, d \in PlacedOn(c) : b > order[b].index /\ b + order[d].index = d + order[b].index,
             NEW d \in PlacedOn(c)
      PROVE  FirstIndex(c) = d - 1 - order[d].index
  <2>1. b0 > p /\ b0 + order[d].index = d + p
    BY <1>5, <1>9
  <2>2. FirstIndex(c) = b0 - 1 - p
    BY <1>6, <2>1
  <2>3. d \in Nat /\ order[d].index \in Nat
    BY <1>1
  <2> QED
    BY <1>7, <2>1, <2>2, <2>3
<1> QED
  BY <1>8, <1>9

\* There is always room, and none of what is used is in it.
LEMMA LowestOK ==
  ASSUME NEW c, c.ports \in 1..9, NEW u \in Nat, NEW used, used \subseteq 0..u
  PROVE  /\ Lowest(c, used) \in Nat /\ Lowest(c, used) <= u + 1
         /\ Span(Lowest(c, used), c) \cap used = {}
<1> DEFINE X == {0} \cup used
           free == {s \in 0..Max(X) + 1 : Span(s, c) \cap used = {}}
<1>1. X \subseteq Nat /\ X # {} /\ \A x \in X : x <= u
  OBVIOUS
<1>2. \E x \in X : \A y \in X : x >= y
  <2> HIDE DEF X
  <2> QED
    BY <1>1, GreatestElement
<1>3. PICK m \in Nat : m = Max(X) /\ m <= u /\ \A x \in used : x <= m
  <2>1. Max(X) \in X /\ \A y \in X : Max(X) >= y
    <3> HIDE DEF X
    <3> QED
      BY <1>2 DEF Max
  <2>2. Max(X) \in Nat /\ Max(X) <= u
    <3> HIDE DEF X
    <3> QED
      BY <1>1, <2>1
  <2>3. \A x \in used : x \in X /\ x \in Nat
    OBVIOUS
  <2>4. \A x \in used : x <= Max(X)
    <3> HIDE DEF X
    <3> QED
      BY <2>1, <2>2, <2>3
  <2> QED
    BY <2>2, <2>4
<1>4. Span(m + 1, c) \cap used = {}
  <2>1. \A x \in Span(m + 1, c) : x \in Int /\ x >= m + 1
    BY DEF Span
  <2>2. \A x \in used : x \in Nat /\ x <= m
    BY <1>3
  <2> QED
    BY <2>1, <2>2
<1>5. m + 1 \in free /\ free \subseteq 0..m + 1
  BY <1>3, <1>4
<1>6. free \subseteq Nat /\ free # {} /\ \A s \in free : s <= m + 1 /\ Span(s, c) \cap used = {}
  <2>1. \A s \in free : s \in 0..m + 1 /\ Span(s, c) \cap used = {}
    BY <1>5
  <2>2. free # {}
    BY <1>5
  <2>3. 0..m + 1 \subseteq Nat
    OBVIOUS
  <2> HIDE DEF free
  <2> QED
    BY <2>1, <2>2, <2>3
<1>7. Lowest(c, used) = Min(free)
  BY DEF Lowest
<1> HIDE DEF free
<1>8. \E x \in free : \A y \in free : x <= y
  BY <1>6, LeastElement
<1>9. Min(free) \in free
  BY <1>8 DEF Min
<1>10. Lowest(c, used) \in free
  BY <1>7, <1>9
<1> HIDE DEF X
<1>11. PICK low \in free : low = Lowest(c, used)
  BY <1>10
<1>12. low \in Nat /\ low <= m + 1 /\ Span(low, c) \cap used = {}
  BY <1>6
<1>13. low <= u + 1
  BY <1>3, <1>12
<1> QED
  BY <1>11, <1>12, <1>13

\* What is used before the i-th controller is placed, by starts f, and where it
\* is placed then.
Used(f, i) == Taken \cup UNION {Span(f[j], Sata[j]) : j \in (1..i - 1) \ Assigned}
StartOf(f, i) == IF i \in Assigned THEN FirstIndex(Sata[i]) ELSE Lowest(Sata[i], Used(f, i))

\* It depends on the starts before.
LEMMA StartOfEarlier ==
  ASSUME NEW i \in Nat, NEW f, NEW g, \A j \in 1..i - 1 : f[j] = g[j]
  PROVE  StartOf(f, i) = StartOf(g, i)
<1>1. \A j \in (1..i - 1) \ Assigned : Span(f[j], Sata[j]) = Span(g[j], Sata[j])
  OBVIOUS
<1>2. {Span(f[j], Sata[j]) : j \in (1..i - 1) \ Assigned} =
      {Span(g[j], Sata[j]) : j \in (1..i - 1) \ Assigned}
  BY <1>1
<1>3. Used(f, i) = Used(g, i)
  BY <1>2 DEF Used
<1> QED
  BY <1>3 DEF StartOf

\* So there is such a function, and Starts is it.
LEMMA StartsAre == Starts = [i \in 1..Len(Sata) |-> StartOf(Starts, i)]
<1> DEFINE K == {n \in Nat : \E f : f = [i \in 1..n |-> StartOf(f, i)]}
<1>1. 0 \in K
  <2>1. \A f : [i \in 1..0 |-> StartOf(f, i)] = [i \in {} |-> 0]
    OBVIOUS
  <2>2. [i \in {} |-> 0] = [i \in 1..0 |-> StartOf([k \in {} |-> 0], i)]
    BY <2>1
  <2> QED
    BY <2>2
<1>2. ASSUME NEW n \in Nat, n \in K
      PROVE  n + 1 \in K
  <2> PICK f : f = [i \in 1..n |-> StartOf(f, i)]
    BY <1>2
  <2> DEFINE g == [i \in 1..n + 1 |-> IF i \in 1..n THEN f[i] ELSE StartOf(f, n + 1)]
  <2>1. \A i \in 1..n : g[i] = f[i] /\ f[i] = StartOf(f, i)
    OBVIOUS
  <2>2. g[n + 1] = StartOf(f, n + 1)
    OBVIOUS
  <2>3. DOMAIN g = 1..n + 1 /\ g = [i \in 1..n + 1 |-> g[i]]
    OBVIOUS
  <2> HIDE DEF g
  <2>4. \A i \in 1..n + 1 : g[i] = StartOf(g, i)
    <3> TAKE i \in 1..n + 1
    <3>1. \A j \in 1..i - 1 : j \in 1..n
      OBVIOUS
    <3>2. \A j \in 1..i - 1 : f[j] = g[j]
      BY <2>1, <3>1
    <3>a. i \in Nat
      OBVIOUS
    <3>b. PICK h : h = g
      OBVIOUS
    <3>c. \A j \in 1..i - 1 : f[j] = h[j]
      BY <3>2, <3>b
    <3>d. StartOf(f, i) = StartOf(h, i)
      BY <3>a, <3>c, StartOfEarlier
    <3>3. StartOf(f, i) = StartOf(g, i)
      BY <3>b, <3>d
    <3>4. i \in 1..n \/ i = n + 1
      OBVIOUS
    <3> QED
      BY <2>1, <2>2, <3>3, <3>4
  <2>5. g = [i \in 1..n + 1 |-> StartOf(g, i)]
    BY <2>3, <2>4
  <2>6. n + 1 \in Nat
    OBVIOUS
  <2> QED
    BY <2>5, <2>6
<1>3. Nat \subseteq K
  <2> HIDE DEF K
  <2> QED
    BY <1>1, <1>2, Induction
<1>4. Len(Sata) \in K
  BY <1>3, SataList
<1>5. \E f : f = [i \in 1..Len(Sata) |-> StartOf(f, i)]
  BY <1>4
<1>6. Starts = CHOOSE f : f = [i \in 1..Len(Sata) |-> StartOf(f, i)]
  BY DEF Starts, StartOf, Used
<1> QED
  BY <1>5, <1>6

\* Numbers, with a bound for all of them and for what is taken.
LEMMA StartsBound ==
  ASSUME OrderOK(order)
  PROVE  \E u \in Nat : /\ Taken \subseteq 0..u
                        /\ \A i \in 1..Len(Sata) : Starts[i] \in Nat /\ Starts[i] + 9 <= u
<1> DEFINE N == Len(Sata)
           K == {n \in Nat : n <= N =>
                   \E u \in Nat : /\ Taken \subseteq 0..u
                                  /\ \A i \in 1..n : Starts[i] \in Nat /\ Starts[i] + 9 <= u}
<1>1. N \in Nat /\ \A i \in 1..N : Sata[i].ports \in 1..9
  BY SataList
<1>2. \A i \in Assigned : i \in 1..N /\ FirstIndex(Sata[i]) \in Nat /\ FirstIndex(Sata[i]) <= Len(order)
  BY FirstIndexOK DEF Assigned
<1>3. Len(order) \in Nat
  BY DEF OrderOK
<1> HIDE DEF N
<1>4. 0 \in K
  <2>1. PICK u \in Nat : u = Len(order) + 9
    BY <1>3
  <2>2. Taken \subseteq 0..u
    <3> SUFFICES ASSUME NEW i \in Assigned, NEW x \in Span(FirstIndex(Sata[i]), Sata[i])
                 PROVE  x \in 0..u
      BY DEF Taken
    <3>1. FirstIndex(Sata[i]) \in Nat /\ FirstIndex(Sata[i]) <= Len(order) /\ Sata[i].ports \in 1..9
      BY <1>1, <1>2
    <3>2. x \in FirstIndex(Sata[i])..FirstIndex(Sata[i]) + Sata[i].ports - 1
      BY DEF Span
    <3> QED
      BY <1>3, <2>1, <3>1, <3>2
  <2>3. \A i \in 1..0 : Starts[i] \in Nat /\ Starts[i] + 9 <= u
    OBVIOUS
  <2>4. \E v \in Nat : /\ Taken \subseteq 0..v
                        /\ \A i \in 1..0 : Starts[i] \in Nat /\ Starts[i] + 9 <= v
    BY <2>2, <2>3
  <2> QED
    BY <2>4
<1>5. ASSUME NEW n \in Nat, n \in K
      PROVE  n + 1 \in K
  <2> SUFFICES ASSUME n + 1 <= N
               PROVE  \E u \in Nat : /\ Taken \subseteq 0..u
                                     /\ \A i \in 1..n + 1 : Starts[i] \in Nat /\ Starts[i] + 9 <= u
    OBVIOUS
  <2>1. PICK u \in Nat : /\ Taken \subseteq 0..u
                         /\ \A i \in 1..n : Starts[i] \in Nat /\ Starts[i] + 9 <= u
    BY <1>1, <1>5
  <2>2. n + 1 \in 1..N /\ Starts[n + 1] = StartOf(Starts, n + 1)
    <3>1. n + 1 \in 1..N
      BY <1>1
    <3>2. n + 1 \in 1..Len(Sata)
      BY <3>1 DEF N
    <3> QED
      BY <3>1, <3>2, StartsAre
  <2>3. Used(Starts, n + 1) \subseteq 0..u
    <3>1. \A j \in 1..(n + 1) - 1 : j \in 1..n /\ j \in 1..N
      BY <1>1
    <3>2. \A j \in 1..(n + 1) - 1 : Span(Starts[j], Sata[j]) \subseteq 0..u
      <4> SUFFICES ASSUME NEW j \in 1..(n + 1) - 1, NEW x \in Span(Starts[j], Sata[j])
                   PROVE  x \in 0..u
        OBVIOUS
      <4>1. Starts[j] \in Nat /\ Starts[j] + 9 <= u /\ Sata[j].ports \in 1..9
        BY <1>1, <2>1, <3>1
      <4>2. x \in Starts[j]..Starts[j] + Sata[j].ports - 1
        BY DEF Span
      <4> QED
        BY <4>1, <4>2
    <3> QED
      BY <2>1, <3>2 DEF Used
  <2>4. Starts[n + 1] \in Nat
    <3>1. CASE n + 1 \in Assigned
      BY <1>2, <2>2, <3>1 DEF StartOf
    <3>2. CASE n + 1 \notin Assigned
      <4>1. Lowest(Sata[n + 1], Used(Starts, n + 1)) \in Nat
        BY <1>1, <2>2, <2>3, LowestOK
      <4> QED
        BY <2>2, <3>2, <4>1 DEF StartOf
    <3> QED
      BY <3>1, <3>2
  <2>5. PICK s \in Nat : s = Starts[n + 1]
    BY <2>4
  <2>6. PICK v \in Nat : v = u + s + 9
    OBVIOUS
  <2>7. Taken \subseteq 0..v
    BY <2>1, <2>6
  <2>8. \A i \in 1..n + 1 : Starts[i] \in Nat /\ Starts[i] + 9 <= v
    <3> TAKE i \in 1..n + 1
    <3>1. i \in 1..n \/ i = n + 1
      OBVIOUS
    <3> QED
      BY <2>1, <2>5, <2>6, <3>1
  <2> QED
    BY <2>7, <2>8
<1>6. Nat \subseteq K
  <2> HIDE DEF K
  <2> QED
    BY <1>4, <1>5, Induction
<1>7. N \in K
  BY <1>1, <1>6
<1> QED
  BY <1>1, <1>7 DEF N

\* A controller that was placed nowhere starts where its ports are on nothing
\* that is taken, nor on those of one that was placed before it.
LEMMA StartsApart ==
  ASSUME OrderOK(order)
  PROVE  /\ \A i \in 1..Len(Sata) : Starts[i] \in Nat
         /\ \A i \in Assigned : Starts[i] = FirstIndex(Sata[i])
         /\ \A i \in 1..Len(Sata) : i \notin Assigned =>
              /\ \A j \in Assigned : Span(Starts[i], Sata[i]) \cap Span(Starts[j], Sata[j]) = {}
              /\ \A j \in 1..i - 1 : j \notin Assigned =>
                   Span(Starts[i], Sata[i]) \cap Span(Starts[j], Sata[j]) = {}
<1>1. PICK u \in Nat : /\ Taken \subseteq 0..u
                       /\ \A i \in 1..Len(Sata) : Starts[i] \in Nat /\ Starts[i] + 9 <= u
  BY StartsBound
<1>2. \A i \in 1..Len(Sata) : Starts[i] = StartOf(Starts, i)
  BY StartsAre
<1>3. Len(Sata) \in Nat /\ \A i \in 1..Len(Sata) : Sata[i].ports \in 1..9
  BY SataList
<1>4. \A i \in Assigned : i \in 1..Len(Sata) /\ Starts[i] = FirstIndex(Sata[i])
  BY <1>2 DEF Assigned, StartOf
<1>5. ASSUME NEW i \in 1..Len(Sata), i \notin Assigned
      PROVE  Span(Starts[i], Sata[i]) \cap Used(Starts, i) = {}
  <2>1. Used(Starts, i) \subseteq 0..u
    <3>1. \A j \in 1..i - 1 : j \in 1..Len(Sata)
      BY <1>3
    <3>2. \A j \in 1..i - 1 : Span(Starts[j], Sata[j]) \subseteq 0..u
      <4> SUFFICES ASSUME NEW j \in 1..i - 1, NEW x \in Span(Starts[j], Sata[j])
                   PROVE  x \in 0..u
        OBVIOUS
      <4>1. Starts[j] \in Nat /\ Starts[j] + 9 <= u /\ Sata[j].ports \in 1..9
        BY <1>1, <1>3, <3>1
      <4>2. x \in Starts[j]..Starts[j] + Sata[j].ports - 1
        BY DEF Span
      <4> QED
        BY <4>1, <4>2, SMTT(30)
    <3> QED
      BY <1>1, <3>2 DEF Used
  <2>2. Starts[i] = Lowest(Sata[i], Used(Starts, i))
    BY <1>2, <1>5 DEF StartOf
  <2>3. Span(Lowest(Sata[i], Used(Starts, i)), Sata[i]) \cap Used(Starts, i) = {}
    BY <1>3, <2>1, LowestOK
  <2> QED
    BY <2>2, <2>3
<1>6. ASSUME NEW i \in 1..Len(Sata), i \notin Assigned, NEW j \in Assigned
      PROVE  Span(Starts[i], Sata[i]) \cap Span(Starts[j], Sata[j]) = {}
  <2>1. Span(Starts[j], Sata[j]) \subseteq Used(Starts, i)
    BY <1>4 DEF Used, Taken
  <2> QED
    BY <1>5, <1>6, <2>1
<1>7. ASSUME NEW i \in 1..Len(Sata), i \notin Assigned, NEW j \in 1..i - 1, j \notin Assigned
      PROVE  Span(Starts[i], Sata[i]) \cap Span(Starts[j], Sata[j]) = {}
  <2>1. Span(Starts[j], Sata[j]) \subseteq Used(Starts, i)
    BY <1>7 DEF Used
  <2> QED
    BY <1>5, <1>7, <2>1
<1> QED
  BY <1>1, <1>4, <1>6, <1>7

-----------------------------------------------------------------------------
(* The port map                                                            *)

\* How many ports a controller shows: as many as fit.
LEMMA ShownOK ==
  ASSUME OrderOK(order), model.bays \in Nat \ {0}, NEW i \in 1..Len(Sata),
         NEW n, n = ShownPorts(i, Starts)
  PROVE  /\ n \in 0..9 /\ n <= Sata[i].ports
         /\ n = 0 <=> Starts[i] >= model.bays
         /\ \A j \in Assigned : Starts[j] > Starts[i] => Starts[i] + n <= Starts[j]
         /\ \A x \in Nat :
              (/\ x < Sata[i].ports /\ Starts[i] + x < model.bays
               /\ \A j \in Assigned : Starts[j] > Starts[i] => Starts[i] + x < Starts[j])
                => x < n
<1> DEFINE A == {k \in Assigned : Starts[k] > Starts[i]}
           X == {Sata[i].ports, model.bays - Starts[i]} \cup {Starts[j] - Starts[i] : j \in A}
<1>1. /\ \A j \in 1..Len(Sata) : Starts[j] \in Nat
      /\ \A j \in Assigned : j \in 1..Len(Sata)
  BY StartsApart DEF Assigned
<1>2. Sata[i].ports \in 1..9
  BY SataList
<1>3. PICK s \in Nat : s = Starts[i]
  BY <1>1
<1>4. PICK bays \in Nat : bays = model.bays /\ bays > 0
  OBVIOUS
<1>5. n = IF s >= bays THEN 0 ELSE Min(X)
  BY <1>3, <1>4 DEF ShownPorts
<1>6. CASE s >= bays
  <2>1. n = 0
    BY <1>5, <1>6
  <2>2. \A j \in Assigned : Starts[j] > Starts[i] => Starts[i] + n <= Starts[j]
    BY <1>1, <2>1
  <2>3. \A x \in Nat : ~(Starts[i] + x < model.bays)
    BY <1>3, <1>4, <1>6
  <2>4. n \in 0..9 /\ n <= Sata[i].ports /\ (n = 0 <=> Starts[i] >= model.bays)
    BY <1>2, <1>3, <1>4, <1>6, <2>1
  <2>5. ASSUME NEW x \in Nat, x < Sata[i].ports, Starts[i] + x < model.bays,
               \A j \in Assigned : Starts[j] > Starts[i] => Starts[i] + x < Starts[j]
        PROVE  x < n
    BY <2>3, <2>5
  <2> HIDE DEF A, X
  <2> QED
    BY <2>2, <2>4, <2>5
<1>7. CASE s < bays
  <2>1. \A j \in A : j \in Assigned /\ Starts[j] \in Nat /\ Starts[j] - s \in Nat /\ Starts[j] - s > 0
    BY <1>1, <1>3
  <2>2. \A x \in X : x = Sata[i].ports \/ x = bays - s \/ \E j \in A : x = Starts[j] - s
    <3>1. X = {Sata[i].ports, bays - s} \cup {Starts[j] - s : j \in A}
      BY <1>3, <1>4
    <3> HIDE DEF X, A
    <3> QED
      BY <3>1
  <2>3. Sata[i].ports \in X /\ bays - s \in X /\ \A j \in A : Starts[j] - s \in X
    BY <1>3, <1>4
  <2>4. \A j \in Assigned : Starts[j] > Starts[i] => j \in A
    OBVIOUS
  <2> HIDE DEF A, X
  <2>5. X \subseteq Nat /\ X # {} /\ \A x \in X : x > 0
    <3> SUFFICES ASSUME NEW x \in X
                 PROVE  x \in Nat /\ x > 0
      BY <2>3
    <3> QED
      BY <1>2, <1>7, <2>1, <2>2
  <2>6. \E x \in X : \A y \in X : x <= y
    BY <2>5, LeastElement
  <2>7. n \in X /\ \A y \in X : n <= y
    BY <1>5, <1>7, <2>6 DEF Min
  <2>8. n \in Nat /\ n > 0 /\ n <= Sata[i].ports /\ n <= bays - s
    BY <2>3, <2>5, <2>7
  <2>9. \A j \in Assigned : Starts[j] > Starts[i] => Starts[i] + n <= Starts[j]
    <3> SUFFICES ASSUME NEW j \in Assigned, Starts[j] > Starts[i]
                 PROVE  Starts[i] + n <= Starts[j]
      OBVIOUS
    <3>1. n <= Starts[j] - s /\ Starts[j] \in Nat
      BY <2>1, <2>3, <2>4, <2>7
    <3> QED
      BY <1>3, <2>8, <3>1
  <2>10. ASSUME NEW x \in Nat, x < Sata[i].ports, Starts[i] + x < model.bays,
                \A j \in Assigned : Starts[j] > Starts[i] => Starts[i] + x < Starts[j]
         PROVE  x < n
    <3>1. CASE n = Sata[i].ports
      BY <2>10, <3>1
    <3>2. CASE n = bays - s
      BY <1>3, <1>4, <2>10, <3>2
    <3>3. CASE \E j \in A : n = Starts[j] - s
      <4> PICK j \in A : n = Starts[j] - s
        BY <3>3
      <4>1. j \in Assigned /\ Starts[j] \in Nat /\ Starts[j] > Starts[i]
        BY <1>3, <2>1
      <4>2. Starts[i] + x < Starts[j]
        BY <2>10, <4>1
      <4> QED
        BY <1>3, <4>1, <4>2
    <3>4. n = Sata[i].ports \/ n = bays - s \/ \E j \in A : n = Starts[j] - s
      BY <2>2, <2>7
    <3> QED
      BY <3>1, <3>2, <3>3, <3>4
  <2>11. n \in 0..9
    <3>1. PICK most \in 1..9 : most = Sata[i].ports
      BY <1>2
    <3>2. n \in Nat /\ n <= most
      BY <2>8, <3>1
    <3> QED
      BY <3>2
  <2>12. n = 0 <=> Starts[i] >= model.bays
    BY <1>3, <1>4, <1>7, <2>8
  <2> QED
    BY <2>8, <2>9, <2>10, <2>11, <2>12
<1> QED
  BY <1>3, <1>4, <1>6, <1>7

MapEntries == [n : 0..9, at : Nat]

LEMMA EntryIs == ASSUME NEW e \in MapEntries PROVE e.n \in 0..9 /\ e.n \in Nat /\ e.at \in Nat
<1>1. e.n \in 0..9 /\ e.at \in Nat
  BY DEF MapEntries
<1> QED
  BY <1>1

\* Every controller that shows a port is in the map with its start, and nothing
\* else is, but the first with one port.
LEMMA PortMapIs ==
  ASSUME OrderOK(order), model.bays \in Nat \ {0}
  PROVE  /\ PortMapFor \in Seq(MapEntries)
         /\ \A i \in 1..Len(Sata) : ShownPorts(i, Starts) > 0 =>
              /\ i <= Len(PortMapFor)
              /\ PortMapFor[i] = [n |-> ShownPorts(i, Starts), at |-> Starts[i]]
         /\ Len(PortMapFor) > 1 =>
              /\ Len(PortMapFor) <= Len(Sata)
              /\ \A i \in 1..Len(PortMapFor) :
                   /\ PortMapFor[i].at = Starts[i]
                   /\ \/ PortMapFor[i].n = ShownPorts(i, Starts)
                      \/ i = 1 /\ PortMapFor[i].n = 1 /\ Starts[1] >= model.bays
<1>1. PICK N \in Nat : N = Len(Sata)
  BY SataList
<1>2. Starts = [i \in 1..N |-> Starts[i]] /\ \A i \in 1..N : Starts[i] \in Nat
  BY <1>1, StartsAre, StartsApart
<1>3. PICK start : start = Starts
  OBVIOUS
<1>4. start \in [1..N -> Nat]
  BY <1>2, <1>3
<1>5. Tuple(Starts) = start
  <2>1. start \in Seq(Nat)
    BY <1>4
  <2> QED
    BY <1>3, <2>1, TupleIs
<1>6. PICK count : count = [i \in 1..N |-> ShownPorts(i, Starts)]
  OBVIOUS
<1>7. \A i \in 1..N : count[i] = ShownPorts(i, Starts) /\ count[i] \in 0..9
                      /\ (count[i] = 0 <=> start[i] >= model.bays)
  BY <1>1, <1>3, <1>6, ShownOK
<1>8. count \in [1..N -> 0..9]
  BY <1>6, <1>7
<1>9. Tuple([i \in 1..Len(Sata) |-> ShownPorts(i, Tuple(Starts))]) = count
  <2>1. count \in Seq(0..9)
    BY <1>8
  <2>2. Tuple(count) = count
    BY <2>1, TupleIs
  <2> QED
    BY <1>1, <1>3, <1>5, <1>6, <2>2
<1> DEFINE shown == {i \in 1..N : count[i] > 0}
           list == [i \in 1..Max(shown) |->
                      [n |-> IF i = 1 /\ count[1] = 0 THEN 1 ELSE count[i], at |-> start[i]]]
<1>10. PortMapFor = IF Sata = <<>> THEN <<>>
                    ELSE IF shown = {} THEN <<[n |-> 1, at |-> 0]>> ELSE list
  BY <1>1, <1>5, <1>9 DEF PortMapFor
<1>11. CASE Sata = <<>>
  <2>1. N = 0
    BY <1>1, <1>11
  <2>2. PortMapFor = <<>>
    BY <1>10, <1>11
  <2>3. <<>> \in Seq(MapEntries) /\ Len(<<>>) = 0
    OBVIOUS
  <2> QED
    BY <1>1, <2>1, <2>2, <2>3
<1>12. CASE Sata # <<>> /\ shown = {}
  <2>1. PortMapFor = <<[n |-> 1, at |-> 0]>>
    BY <1>10, <1>12
  <2>2. PICK e \in MapEntries : e = [n |-> 1, at |-> 0]
    <3>1. [n |-> 1, at |-> 0] \in MapEntries
      <4>1. \A x \in 0..9, y \in Nat : [n |-> x, at |-> y] \in MapEntries
        BY DEF MapEntries
      <4>2. 1 \in 0..9 /\ 0 \in Nat
        OBVIOUS
      <4> QED
        BY <4>1, <4>2
    <3> QED
      BY <3>1
  <2>3. <<e>> \in Seq(MapEntries) /\ Len(<<e>>) = 1
    OBVIOUS
  <2>4. \A i \in 1..N : ~(ShownPorts(i, Starts) > 0)
    BY <1>7, <1>12
  <2> QED
    BY <1>1, <2>1, <2>2, <2>3, <2>4
<1>13. CASE Sata # <<>> /\ shown # {}
  <2>1. shown \subseteq Nat /\ \A x \in shown : x <= N /\ x >= 1
    OBVIOUS
  <2>2. \E x \in shown : \A y \in shown : x >= y
    <3> HIDE DEF shown
    <3> QED
      BY <1>13, <2>1, GreatestElement
  <2>3. PICK top \in shown : top = Max(shown) /\ \A y \in shown : top >= y
    <3> HIDE DEF shown
    <3> QED
      BY <2>2 DEF Max
  <2>4. top \in 1..N
    OBVIOUS
  <2>5. \A i \in 1..top : i \in 1..N
    BY <2>4
  <2>6. PICK map0 : map0 = list
    OBVIOUS
  <2>7. \A i \in 1..top : map0[i] = [n |-> IF i = 1 /\ count[1] = 0 THEN 1 ELSE count[i], at |-> start[i]]
    BY <2>3, <2>6
  <2>a. \A x, y : [n |-> x, at |-> y].n = x /\ [n |-> x, at |-> y].at = y
    OBVIOUS
  <2>b. \A x \in 0..9, y \in Nat : [n |-> x, at |-> y] \in MapEntries
    BY DEF MapEntries
  <2>8. \A i \in 1..top : map0[i] \in MapEntries
    <3> TAKE i \in 1..top
    <3>1. PICK x : x = IF i = 1 /\ count[1] = 0 THEN 1 ELSE count[i]
      OBVIOUS
    <3>2. count[i] \in 0..9 /\ start[i] \in Nat
      BY <1>4, <1>8, <2>5
    <3>3. x \in 0..9
      BY <3>1, <3>2
    <3>4. map0[i] = [n |-> x, at |-> start[i]]
      BY <2>7, <3>1
    <3> QED
      BY <2>b, <3>2, <3>3, <3>4
  <2>9. map0 = [i \in 1..top |-> map0[i]]
    BY <2>3, <2>6
  <2>10. map0 \in [1..top -> MapEntries]
    BY <2>8, <2>9
  <2>11. map0 \in Seq(MapEntries) /\ Len(map0) = top
    BY <2>4, <2>10
  <2>12. PortMapFor = map0
    BY <1>10, <1>13, <2>6
  <2> HIDE DEF shown, list
  <2>13. \A i \in 1..N : ShownPorts(i, Starts) > 0 => i <= top
    <3> SUFFICES ASSUME NEW i \in 1..N, ShownPorts(i, Starts) > 0
                 PROVE  i <= top
      OBVIOUS
    <3>1. i \in shown
      BY <1>7 DEF shown
    <3> QED
      BY <2>3, <2>4, <3>1
  <2>14. \A i \in 1..N : ShownPorts(i, Starts) > 0 =>
           map0[i] = [n |-> ShownPorts(i, Starts), at |-> Starts[i]]
    <3> SUFFICES ASSUME NEW i \in 1..N, ShownPorts(i, Starts) > 0
                 PROVE  map0[i] = [n |-> ShownPorts(i, Starts), at |-> Starts[i]]
      OBVIOUS
    <3>1. i \in 1..top /\ count[i] > 0 /\ count[i] = ShownPorts(i, Starts)
      BY <1>7, <2>4, <2>13
    <3>2. ~(i = 1 /\ count[1] = 0)
      BY <1>8, <3>1
    <3> QED
      BY <1>3, <2>7, <3>1, <3>2
  <2>15. \A i \in 1..top : /\ map0[i].at = Starts[i]
                           /\ \/ map0[i].n = ShownPorts(i, Starts)
                              \/ i = 1 /\ map0[i].n = 1 /\ Starts[1] >= model.bays
    <3> TAKE i \in 1..top
    <3>a. PICK x : x = IF i = 1 /\ count[1] = 0 THEN 1 ELSE count[i]
      OBVIOUS
    <3>b. map0[i] = [n |-> x, at |-> start[i]]
      BY <2>7, <3>a
    <3>1. map0[i].at = Starts[i] /\ map0[i].n = x
      BY <1>3, <2>a, <3>b
    <3>2. count[i] = ShownPorts(i, Starts)
      BY <1>7, <2>5
    <3>3. i = 1 /\ count[1] = 0 => Starts[1] >= model.bays
      BY <1>3, <1>7, <2>5
    <3> QED
      BY <3>1, <3>2, <3>3, <3>a
  <2>16. top <= N
    BY <2>4
  <2> QED
    BY <1>1, <2>11, <2>12, <2>13, <2>14, <2>15, <2>16
<1> QED
  BY <1>11, <1>12, <1>13

\* A controller with placed ports starts where each of them is in its bay.
LEMMA PlacedStart ==
  ASSUME OrderOK(order), Feasible, model.bays \in Nat \ {0},
         NEW i \in 1..Len(Sata), NEW b \in PlacedOn(Sata[i])
  PROVE  /\ i \in Assigned /\ order[b].index \in Nat /\ order[b].index < Sata[i].ports
         /\ b \in Nat /\ b <= model.bays
         /\ Starts[i] = b - 1 - order[b].index
<1>1. i \in Assigned /\ PlacedOn(Sata[i]) # {}
  BY DEF Assigned
<1>2. \A d, e \in PlacedOn(Sata[i]) : d > order[d].index /\ d + order[e].index = e + order[d].index
  BY DEF Feasible
<1>3. FirstIndex(Sata[i]) = b - 1 - order[b].index
  BY <1>1, <1>2, FirstIndexOK
<1>4. Starts[i] = FirstIndex(Sata[i])
  BY <1>1, StartsApart
<1>5. /\ b \in 1..Len(order) /\ Len(order) \in Nat
      /\ order[b].index \in Nat /\ order[b].index < Sata[i].ports
  BY PlacedPort
<1>6. Len(order) <= model.bays
  BY DEF Feasible
<1>7. b \in Nat /\ b <= Len(order)
  BY <1>5
<1>8. b <= model.bays
  BY <1>5, <1>6, <1>7
<1>9. Starts[i] = b - 1 - order[b].index
  BY <1>3, <1>4
<1> QED
  BY <1>1, <1>5, <1>7, <1>8, <1>9

\* Of two controllers with placed ports, the first ends before the other's
\* placed ports begin.
LEMMA PlacedBefore ==
  ASSUME OrderOK(order), Feasible, model.bays \in Nat \ {0},
         NEW i \in 1..Len(Sata), NEW j \in 1..Len(Sata), i # j,
         NEW b \in PlacedOn(Sata[i]), NEW c \in PlacedOn(Sata[j]), Starts[j] >= Starts[i]
  PROVE  Starts[j] > b - 1
<1>1. /\ b \in Nat /\ order[b].index \in Nat
      /\ Starts[i] = b - 1 - order[b].index
  BY PlacedStart
<1>2. /\ c \in Nat /\ order[c].index \in Nat
      /\ Starts[j] = c - 1 - order[c].index
  BY PlacedStart
<1>3. ((b - order[b].index)..b) \cap ((c - order[c].index)..c) = {}
  BY DEF Feasible
<1> SUFFICES ASSUME Starts[j] <= b - 1
             PROVE  FALSE
  BY <1>1, <1>2
<1>a. PICK y \in Int : y = c - order[c].index
  BY <1>2
<1>b. PICK x \in Int : x = b - order[b].index
  BY <1>1
<1>c. y = Starts[j] + 1 /\ x = Starts[i] + 1 /\ y <= c
  <2>1. \A k, l \in Nat : k - l = (k - 1 - l) + 1 /\ k - l <= k
    OBVIOUS
  <2>2. y = (c - 1 - order[c].index) + 1 /\ y <= c
    BY <1>2, <1>a, <2>1
  <2>3. x = (b - 1 - order[b].index) + 1
    BY <1>1, <1>b, <2>1
  <2> QED
    BY <1>1, <1>2, <2>2, <2>3
<1>d. Starts[i] \in Int /\ Starts[j] \in Int
  BY <1>1, <1>2, SMTT(30)
<1>e. x <= y /\ y <= b
  <2>1. PICK s \in Int : s = Starts[i] /\ x = s + 1
    BY <1>c, <1>d
  <2>2. PICK z \in Int : z = Starts[j] /\ y = z + 1
    BY <1>c, <1>d
  <2>3. z >= s /\ z <= b - 1
    BY <2>1, <2>2
  <2> QED
    BY <1>1, <2>1, <2>2, <2>3, SMTT(30)
<1>4. y \in (c - order[c].index)..c
  BY <1>2, <1>a, <1>c
<1>5. y \in (b - order[b].index)..b
  BY <1>1, <1>b, <1>e
<1> QED
  BY <1>3, <1>4, <1>5

\* No two controllers show a port on one disk number.
LEMMA ShownApart ==
  ASSUME OrderOK(order), Feasible, model.bays \in Nat \ {0},
         NEW i \in 1..Len(Sata), NEW j \in 1..Len(Sata), i # j,
         NEW p \in Nat, p < ShownPorts(i, Starts), NEW q \in Nat, q < ShownPorts(j, Starts)
  PROVE  Starts[i] + p # Starts[j] + q
<1>1. PICK m : m = ShownPorts(i, Starts)
  OBVIOUS
<1>2. PICK n : n = ShownPorts(j, Starts)
  OBVIOUS
<1>3. /\ m \in 0..9 /\ m <= Sata[i].ports
      /\ \A k \in Assigned : Starts[k] > Starts[i] => Starts[i] + m <= Starts[k]
  BY <1>1, ShownOK
<1>4. /\ n \in 0..9 /\ n <= Sata[j].ports
      /\ \A k \in Assigned : Starts[k] > Starts[j] => Starts[j] + n <= Starts[k]
  BY <1>2, ShownOK
<1>5. Starts[i] \in Nat /\ Starts[j] \in Nat /\ Sata[i].ports \in 1..9 /\ Sata[j].ports \in 1..9
  BY StartsApart, SataList
<1>6. p < m /\ q < n /\ i \in Nat /\ j \in Nat
  BY <1>1, <1>2, SataList
<1> SUFFICES ASSUME Starts[i] + p = Starts[j] + q
             PROVE  FALSE
  OBVIOUS
<1>a. \A s, k, l, x \in Nat : x < k /\ k <= l => s + x \in s..s + l - 1
  OBVIOUS
<1>b. m \in Nat /\ n \in Nat /\ Sata[i].ports \in Nat /\ Sata[j].ports \in Nat
  <2>1. (\A x \in 0..9 : x \in Nat) /\ \A x \in 1..9 : x \in Nat
    OBVIOUS
  <2>2. m \in 0..9 /\ n \in 0..9 /\ Sata[i].ports \in 1..9 /\ Sata[j].ports \in 1..9
    BY <1>3, <1>4, <1>5
  <2> QED
    BY <2>1, <2>2
<1>7. Starts[i] + p \in Span(Starts[i], Sata[i])
  <2>1. Starts[i] + p \in Starts[i]..Starts[i] + Sata[i].ports - 1
    BY <1>3, <1>5, <1>6, <1>a, <1>b
  <2> QED
    BY <2>1 DEF Span
<1>8. Starts[j] + q \in Span(Starts[j], Sata[j])
  <2>1. Starts[j] + q \in Starts[j]..Starts[j] + Sata[j].ports - 1
    BY <1>4, <1>5, <1>6, <1>a, <1>b
  <2> QED
    BY <2>1 DEF Span
<1>9. Span(Starts[i], Sata[i]) \cap Span(Starts[j], Sata[j]) # {}
  BY <1>7, <1>8
<1>10. CASE i \in Assigned /\ j \in Assigned
  <2>1. PICK b \in PlacedOn(Sata[i]) : TRUE
    BY <1>10 DEF Assigned
  <2>2. PICK c \in PlacedOn(Sata[j]) : TRUE
    BY <1>10 DEF Assigned
  <2>3. ~(Starts[j] > Starts[i])
    <3> SUFFICES ASSUME Starts[j] > Starts[i]
                 PROVE  FALSE
      OBVIOUS
    <3>1. Starts[i] + m <= Starts[j]
      BY <1>3, <1>10
    <3> QED
      BY <1>5, <1>6, <1>b, <3>1
  <2>4. ~(Starts[i] > Starts[j])
    <3> SUFFICES ASSUME Starts[i] > Starts[j]
                 PROVE  FALSE
      OBVIOUS
    <3>1. Starts[j] + n <= Starts[i]
      BY <1>4, <1>10
    <3> QED
      BY <1>5, <1>6, <1>b, <3>1
  <2>5. Starts[j] = Starts[i]
    BY <1>5, <2>3, <2>4
  <2>a. Starts[j] >= Starts[i]
    BY <1>5, <2>5
  <2>6. Starts[j] > b - 1
    BY <2>a, PlacedBefore
  <2>7. b \in Nat /\ order[b].index \in Nat /\ Starts[i] = b - 1 - order[b].index
    BY PlacedStart
  <2> QED
    BY <2>5, <2>6, <2>7
<1>11. CASE i \notin Assigned /\ j \in Assigned
  BY <1>9, <1>11, StartsApart
<1>12. CASE i \in Assigned /\ j \notin Assigned
  <2>1. Span(Starts[j], Sata[j]) \cap Span(Starts[i], Sata[i]) = {}
    BY <1>12, StartsApart
  <2> QED
    BY <1>9, <2>1
<1>13. CASE i \notin Assigned /\ j \notin Assigned
  <2>1. CASE j < i
    <3>1. j \in 1..i - 1
      BY <1>6, <2>1
    <3>2. Span(Starts[i], Sata[i]) \cap Span(Starts[j], Sata[j]) = {}
      BY <1>13, <3>1, StartsApart
    <3> QED
      BY <1>9, <3>2
  <2>2. CASE i < j
    <3>1. i \in 1..j - 1
      BY <1>6, <2>2
    <3>2. Span(Starts[j], Sata[j]) \cap Span(Starts[i], Sata[i]) = {}
      BY <1>13, <3>1, StartsApart
    <3> QED
      BY <1>9, <3>2
  <2> QED
    BY <1>6, <2>1, <2>2
<1> QED
  BY <1>10, <1>11, <1>12, <1>13

\* What a port map can say, this one says.
LEMMA MapFact ==
  ASSUME OrderOK(order), Feasible, model.bays \in Nat \ {0}, map = PortMapFor
  PROVE  /\ \A i \in 1..Len(Sata) : \A b \in PlacedOn(Sata[i]) :
              i <= Len(map) /\ order[b].index < map[i].n /\ map[i].at + order[b].index = b - 1
         /\ \A i, j \in DOMAIN map : i # j =>
              \A p \in 0..map[i].n - 1, q \in 0..map[j].n - 1 :
                map[i].at + p < model.bays => map[i].at + p # map[j].at + q
<1>1. PICK m \in Seq(MapEntries) : m = map
  BY PortMapIs
<1>2. /\ \A i \in 1..Len(Sata) : ShownPorts(i, Starts) > 0 =>
           i <= Len(m) /\ m[i] = [n |-> ShownPorts(i, Starts), at |-> Starts[i]]
      /\ Len(m) > 1 =>
           /\ Len(m) <= Len(Sata)
           /\ \A i \in 1..Len(m) :
                /\ m[i].at = Starts[i]
                /\ m[i].n = ShownPorts(i, Starts) \/ (i = 1 /\ m[i].n = 1 /\ Starts[1] >= model.bays)
  BY <1>1, PortMapIs
<1>3. ASSUME NEW i \in 1..Len(Sata), NEW b \in PlacedOn(Sata[i])
      PROVE  i <= Len(m) /\ order[b].index < m[i].n /\ m[i].at + order[b].index = b - 1
  <2>1. /\ i \in Assigned /\ order[b].index \in Nat /\ order[b].index < Sata[i].ports
        /\ b \in Nat /\ b <= model.bays
        /\ Starts[i] = b - 1 - order[b].index
    BY PlacedStart
  <2>2. PICK x \in Nat : x = order[b].index
    BY <2>1
  <2>3. Starts[i] \in Nat /\ \A j \in Assigned : j \in 1..Len(Sata) /\ Starts[j] \in Nat
    BY StartsApart DEF Assigned
  <2>4. Starts[i] + x = b - 1 /\ Starts[i] + x < model.bays
    BY <2>1, <2>2
  <2>5. ASSUME NEW j \in Assigned, Starts[j] > Starts[i]
        PROVE  Starts[i] + x < Starts[j]
    <3>1. j \in 1..Len(Sata) /\ Starts[j] \in Nat /\ j # i /\ Starts[j] >= Starts[i]
      BY <2>3, <2>5
    <3>2. PICK c \in PlacedOn(Sata[j]) : TRUE
      BY <2>5 DEF Assigned
    <3>3. Starts[j] > b - 1
      BY <3>1, PlacedBefore
    <3> QED
      BY <2>4, <3>3
  <2>6. PICK n : n = ShownPorts(i, Starts)
    OBVIOUS
  <2>7. x < n /\ n \in 0..9
    BY <2>1, <2>2, <2>4, <2>5, <2>6, ShownOK
  <2>8. n > 0
    BY <2>7
  <2>9. i <= Len(m) /\ m[i] = [n |-> n, at |-> Starts[i]]
    BY <1>2, <2>6, <2>8
  <2>10. m[i].n = n /\ m[i].at = Starts[i]
    BY <2>9
  <2> QED
    BY <2>2, <2>4, <2>7, <2>9, <2>10
<1>4. ASSUME NEW i \in DOMAIN m, NEW j \in DOMAIN m, i # j,
             NEW p \in 0..m[i].n - 1, NEW q \in 0..m[j].n - 1, m[i].at + p < model.bays
      PROVE  m[i].at + p # m[j].at + q
  <2>1. i \in 1..Len(m) /\ j \in 1..Len(m) /\ Len(m) \in Nat
    OBVIOUS
  <2>2. Len(m) > 1
    BY <1>4, <2>1
  <2>3. i \in 1..Len(Sata) /\ j \in 1..Len(Sata)
    BY <1>2, <2>1, <2>2, SataList
  <2>4. m[i] \in MapEntries /\ m[j] \in MapEntries
    BY <2>1
  <2>5. m[i].n \in Nat /\ m[j].n \in Nat
    BY <2>4, EntryIs
  <2>6. p \in Nat /\ p < m[i].n /\ q \in Nat /\ q < m[j].n
    BY <2>5
  <2>7. /\ m[i].at = Starts[i] /\ m[j].at = Starts[j]
        /\ Starts[i] \in Nat /\ Starts[j] \in Nat
    BY <1>2, <2>1, <2>2, <2>3, StartsApart
  <2>8. m[i].n = ShownPorts(i, Starts)
    <3>1. ~(i = 1 /\ Starts[1] >= model.bays)
      BY <1>4, <2>6, <2>7
    <3> QED
      BY <1>2, <2>1, <2>2, <3>1
  <2>9. CASE m[j].n = ShownPorts(j, Starts)
    BY <1>4, <2>3, <2>6, <2>7, <2>8, <2>9, ShownApart
  <2>10. CASE j = 1 /\ Starts[1] >= model.bays
    BY <1>4, <2>6, <2>7, <2>10
  <2> QED
    BY <1>2, <2>1, <2>2, <2>9, <2>10
<1> QED
  BY <1>1, <1>3, <1>4

-----------------------------------------------------------------------------
(* The inductive invariant                                                 *)

\* The ramdisk's tree is what this boot made of the ports it found.
PortsInv ==
  /\ phase \in {"off", "page"} => ports = <<>> /\ ram = <<>>
  /\ phase \in {"mapped", "running"} =>
       /\ ports = IF model.dt THEN PortsFor(disks, loader) ELSE <<>>
       /\ ram = ApplySATAPorts(TreeOf(model), ports)

\* While nothing is being chosen, the last build's map is of what is chosen.
MapInv == (phase # "page" /\ map # None) => map = IF model.dt THEN <<>> ELSE PortMapFor

BaysInv == TypeOK /\ PortsInv /\ MapInv

\* What a boot hands out is SATA ports, and its own address for what is left.
LEMMA TreeOK ==
  ASSUME NEW m \in Models, NEW P, P \subseteq SataPorts, NEW list \in Seq(P)
  PROVE  ToSet(ApplySATAPorts(TreeOf(m), list)) \subseteq P \cup {Own}
<1>1. PICK n \in Nat : n = m.bays
  BY DiskBaysAssumption
<1>2. TreeOf(m) = [b \in 1..n |-> Own]
  BY <1>1 DEF TreeOf
<1>3. PICK tree : tree = TreeOf(m)
  OBVIOUS
<1>4. DOMAIN tree = 1..n /\ \A b \in 1..n : tree[b] = Own
  BY <1>2, <1>3
<1>5. PICK to : to = ApplySATAPorts(tree, list)
  OBVIOUS
<1>6. to = [b \in 1..n |-> IF b <= Len(list) THEN list[b] ELSE tree[b]]
  BY <1>4, <1>5 DEF ApplySATAPorts
<1>7. \A b \in 1..n : to[b] \in P \cup {Own}
  <2> TAKE b \in 1..n
  <2>1. CASE b <= Len(list)
    <3>1. b \in 1..Len(list)
      BY <2>1
    <3> QED
      BY <1>6, <2>1, <3>1
  <2>2. CASE ~(b <= Len(list))
    BY <1>4, <1>6, <2>2
  <2> QED
    BY <2>1, <2>2
<1>8. ToSet(to) \subseteq P \cup {Own}
  BY <1>6, <1>7 DEF ToSet
<1> QED
  BY <1>3, <1>5, <1>8

\* It holds before the first installation.
LEMMA InitInv == Init => BaysInv
<1> SUFFICES ASSUME Init PROVE BaysInv
  OBVIOUS
<1>1. /\ phase = "off" /\ disks = {} /\ loader = USB /\ model \in Models
      /\ order = <<>> /\ map = None /\ ports = <<>> /\ ram = <<>>
  BY DEF Init
<1>2. /\ <<>> \in Seq(Entries) /\ <<>> \in Seq(SataPorts)
  OBVIOUS
<1>3. ToSet(ram) \subseteq SataPorts \cup {Own}
  BY <1>1 DEF ToSet
<1> QED
  BY <1>1, <1>2, <1>3 DEF BaysInv, TypeOK, PortsInv, MapInv

\* The port map is made of the model and the order alone.
LEMMA SameMap == ASSUME model' = model, order' = order PROVE PortMapFor' = PortMapFor
<1>1. \A c : PlacedOn(c)' = PlacedOn(c)
  BY DEF PlacedOn
<1>2. \A c : FirstIndex(c)' = FirstIndex(c)
  <2> TAKE c
  <2> DEFINE First(o, P) == LET p == Min({o[b].index : b \in P})
                                b == CHOOSE n \in P : o[n].index = p
                            IN IF b > p THEN b - 1 - p ELSE 0
  <2>1. FirstIndex(c) = First(order, PlacedOn(c))
    BY DEF FirstIndex
  <2>2. FirstIndex(c)' = First(order', PlacedOn(c)')
    BY DEF FirstIndex
  <2> HIDE DEF First
  <2> QED
    BY <1>1, <2>1, <2>2
<1>3. Assigned' = Assigned
  BY <1>1 DEF Assigned
<1>4. Taken' = Taken
  BY <1>2, <1>3 DEF Taken
<1>5. Starts' = Starts
  BY <1>2, <1>3, <1>4 DEF Starts
<1>6. \A i, start : ShownPorts(i, start)' = ShownPorts(i, start)
  BY <1>3 DEF ShownPorts
<1> QED
  BY <1>5, <1>6 DEF PortMapFor

\* Every step of the wizard, of a boot and of the machine keeps it.
LEMMA NextInv == BaysInv /\ [Next]_vars => BaysInv'
<1> SUFFICES ASSUME BaysInv, [Next]_vars PROVE BaysInv'
  OBVIOUS
<1>a. /\ phase \in {"off", "page", "mapped", "running"}
      /\ disks \subseteq Ports /\ loader \in (Ports \cup {USB}) \ disks /\ model \in Models
      /\ OrderOK(order)
      /\ map = None \/ \A i \in DOMAIN map : map[i].n \in 0..9 /\ map[i].at \in Nat
      /\ ports \in Seq(SataPorts) /\ ToSet(ram) \subseteq SataPorts \cup {Own}
  BY DEF BaysInv, TypeOK, OrderOK
<1>b. \A m \in Models : m.dt \in BOOLEAN /\ m.bays \in Nat \ {0}
  BY DiskBaysAssumption
<1>c. \A now \in Plugged : now[1] \subseteq Ports /\ now[2] \in (Ports \cup {USB}) \ now[1]
  BY DiskBaysAssumption
<1>d. ToSet(<<>>) \subseteq SataPorts \cup {Own} /\ <<>> \in Seq(SataPorts)
  BY DEF ToSet
<1>1. CASE Start
  <2>1. /\ phase' = "page" /\ disks' \subseteq Ports /\ loader' \in (Ports \cup {USB}) \ disks'
        /\ model' \in Models /\ map' = map /\ ports' = ports /\ ram' = ram /\ phase = "off"
    BY <1>1, <1>c DEF Start, Machine
  <2>2. OrderOK(order)'
    <3>1. PICK o, h, l, m : o = order' /\ h = disks' /\ l = loader' /\ m = model'
      OBVIOUS
    <3>2. o = Drawn(order, h, l, m)
      BY <1>1, <3>1 DEF Start
    <3>3. m.bays \in Nat \ {0}
      BY <1>b, <2>1, <3>1
    <3>4. OrderOK(o)
      BY <1>a, <3>2, <3>3, DrawnOK
    <3> QED
      BY <3>1, <3>4 DEF OrderOK
  <2>3. TypeOK'
    BY <1>a, <2>1, <2>2 DEF TypeOK, OrderOK
  <2>4. PortsInv'
    BY <2>1 DEF BaysInv, PortsInv
  <2>5. MapInv'
    BY <2>1 DEF MapInv
  <2> QED
    BY <2>3, <2>4, <2>5 DEF BaysInv
<1>2. CASE ChoosePort
  <2>1. /\ phase = "page"
        /\ UNCHANGED <<phase, disks, loader, model, map, ports, ram, installed>>
    BY <1>2 DEF ChoosePort
  <2>2. PICK bay \in 1..model.bays, port \in {Blank} \cup ToSet(Candidates(disks, loader, model)) :
          order' = Drawn(SetBayPort(bay, port), disks, loader, model)
    BY <1>2 DEF ChoosePort
  <2>3. OrderOK(order)'
    <3>1. port \in Entries
      BY CandidatesArePorts DEF Entries
    <3>2. model.bays \in Nat \ {0}
      BY <1>a, <1>b
    <3>3. PICK o, list : o = order' /\ list = SetBayPort(bay, port)
      OBVIOUS
    <3>4. OrderOK(list)
      BY <1>a, <3>1, <3>2, <3>3, SetBayOK
    <3>5. OrderOK(Drawn(list, disks, loader, model))
      BY <3>2, <3>4, DrawnOK
    <3>6. OrderOK(o)
      BY <2>2, <3>3, <3>5
    <3> QED
      BY <3>3, <3>6 DEF OrderOK
  <2>4. TypeOK'
    BY <1>a, <2>1, <2>3 DEF TypeOK, OrderOK
  <2>5. PortsInv'
    BY <2>1 DEF BaysInv, PortsInv
  <2>6. MapInv'
    BY <2>1 DEF MapInv
  <2> QED
    BY <2>4, <2>5, <2>6 DEF BaysInv
<1>3. CASE Build
  <2>1. /\ phase' = "off" /\ disks' = {} /\ loader' = USB /\ ports' = <<>> /\ ram' = <<>>
        /\ map' = IF model.dt THEN <<>> ELSE PortMapFor
        /\ model' = model /\ order' = order
    BY <1>3 DEF Build, SwitchedOff
  <2>2. \A i \in DOMAIN map' : map'[i].n \in 0..9 /\ map'[i].at \in Nat
    <3>1. CASE model.dt
      BY <2>1, <3>1
    <3>2. CASE ~model.dt
      <4>1. PICK m \in Seq(MapEntries) : m = PortMapFor
        BY <1>a, <1>b, PortMapIs
      <4>2. \A e \in MapEntries : e.n \in 0..9 /\ e.at \in Nat
        BY EntryIs
      <4>3. \A i \in DOMAIN m : m[i] \in MapEntries
        BY <4>1
      <4>4. \A i \in DOMAIN m : m[i].n \in 0..9 /\ m[i].at \in Nat
        BY <4>2, <4>3
      <4>5. map' = m
        BY <2>1, <3>2, <4>1
      <4> QED
        BY <4>4, <4>5
    <3> QED
      BY <3>1, <3>2
  <2>3. TypeOK'
    BY <1>a, <1>d, <2>1, <2>2 DEF TypeOK, OrderOK
  <2>4. PortsInv'
    BY <2>1 DEF PortsInv
  <2>5. PortMapFor' = PortMapFor
    BY <2>1, SameMap
  <2>6. MapInv'
    BY <2>1, <2>5 DEF MapInv
  <2> QED
    BY <2>3, <2>4, <2>6 DEF BaysInv
<1>4. CASE Boot
  <2>1. /\ phase = "off" /\ phase' = "mapped" /\ map # None
        /\ disks' \subseteq Ports /\ loader' \in (Ports \cup {USB}) \ disks'
        /\ ports' = (IF model.dt THEN PortsFor(disks', loader') ELSE <<>>)
        /\ ram' = ApplySATAPorts(TreeOf(model), ports')
        /\ UNCHANGED <<model, order, map, installed>>
    BY <1>4, <1>c DEF Boot, Machine
  <2>2. PICK h, l : h = disks' /\ l = loader'
    OBVIOUS
  <2>3. ports' \in Seq(SataPorts)
    <3>1. PortsFor(h, l) \in Seq(SataPorts \ {l})
      BY <1>a, PortsForOK
    <3>2. PortsFor(h, l) \in Seq(SataPorts)
      BY <3>1
    <3> QED
      BY <1>d, <2>1, <2>2, <3>2
  <2>4. ToSet(ram') \subseteq SataPorts \cup {Own}
    <3>1. PICK list \in Seq(SataPorts) : list = ports'
      BY <2>3
    <3>2. ToSet(ApplySATAPorts(TreeOf(model), list)) \subseteq SataPorts \cup {Own}
      BY <1>a, TreeOK
    <3> QED
      BY <2>1, <3>1, <3>2
  <2>5. TypeOK'
    BY <1>a, <2>1, <2>3, <2>4 DEF TypeOK, OrderOK
  <2>6. PortsInv'
    BY <2>1 DEF PortsInv, PortsFor, RenderBayPlan
  <2>7. PortMapFor' = PortMapFor
    BY <2>1, SameMap
  <2>8. MapInv'
    BY <2>1, <2>7 DEF BaysInv, MapInv
  <2> QED
    BY <2>5, <2>6, <2>8 DEF BaysInv
<1>5. CASE Install \/ Off
  <2>1. /\ phase \in {"mapped", "running"} /\ phase' = "off"
        /\ disks' = {} /\ loader' = USB /\ ports' = <<>> /\ ram' = <<>>
        /\ UNCHANGED <<model, order, map>>
    BY <1>5 DEF Install, Off, SwitchedOff
  <2>2. TypeOK'
    BY <1>a, <1>d, <2>1 DEF TypeOK, OrderOK
  <2>3. PortsInv'
    BY <2>1 DEF PortsInv
  <2>4. PortMapFor' = PortMapFor
    BY <2>1, SameMap
  <2>5. MapInv'
    BY <2>1, <2>4 DEF BaysInv, MapInv
  <2> QED
    BY <2>2, <2>3, <2>5 DEF BaysInv
<1>6. CASE Pivot \/ UNCHANGED vars
  <2>1. /\ UNCHANGED <<disks, loader, model, order, map, ports, ram>>
        /\ phase' = phase \/ (phase = "mapped" /\ phase' = "running")
    BY <1>6 DEF Pivot, vars
  <2>2. TypeOK'
    BY <1>a, <2>1 DEF TypeOK, OrderOK
  <2>3. PortsInv'
    BY <2>1 DEF BaysInv, PortsInv, PortsFor, RenderBayPlan
  <2>4. PortMapFor' = PortMapFor
    BY <2>1, SameMap
  <2>5. MapInv'
    BY <2>1, <2>4 DEF BaysInv, MapInv
  <2> QED
    BY <2>2, <2>3, <2>5 DEF BaysInv
<1> QED
  BY <1>1, <1>2, <1>3, <1>4, <1>5, <1>6 DEF Next

\* On a device-tree model a bay has the port that was placed in it.
LEMMA PlanFact == BaysInv => PlanHonoured
<1> SUFFICES ASSUME BaysInv, phase \in {"mapped", "running"}, model.dt,
                    NEW b \in 1..Lesser(Len(order), model.bays),
                    \A i \in 1..b : order[i] \in SataPorts \ {loader}
             PROVE  ram[b] = order[b]
  BY DEF PlanHonoured
<1>1. OrderOK(order) /\ model \in Models
  BY DEF BaysInv, TypeOK, OrderOK
<1>2. model.bays \in Nat \ {0}
  BY <1>1, DiskBaysAssumption
<1>3. PICK list \in Seq(Entries) : list = order
  BY <1>1 DEF OrderOK
<1>4. PICK n \in Nat : n = model.bays
  BY <1>2
<1>5. b \in 1..Len(list) /\ b \in 1..n
  BY <1>3, <1>4 DEF Lesser
<1>6. PICK T : T = SataPorts \ {loader}
  OBVIOUS
<1>7. \A i \in 1..b : list[i] \in T /\ list[i] \in Ports
  BY <1>3, <1>6 DEF SataPorts
<1>8. PICK plan : plan = Within(list, Ports)
  OBVIOUS
<1>9. plan \in Seq(Entries \cap Ports)
  BY <1>8, WithinPlaces
<1>10. \A j \in 1..b : j <= Len(plan) /\ plan[j] = list[j]
  <2> TAKE j \in 1..b
  <2>1. j \in 1..Len(list) /\ \A i \in 1..j : list[i] \in Ports
    BY <1>5, <1>7
  <2>2. j <= Len(Within(list, Ports)) /\ Within(list, Ports)[j] = list[j]
    BY <2>1, WithinPrefix
  <2> QED
    BY <1>8, <2>2
<1>11. Len(plan) \in Nat /\ b \in 1..Len(plan) /\ plan # <<>>
  BY <1>5, <1>9, <1>10
<1>12. \A j \in 1..b : plan[j] \in T
  BY <1>7, <1>10
<1>13. b <= Len(Within(plan, T)) /\ Within(plan, T)[b] = plan[b]
  BY <1>9, <1>11, <1>12, WithinPrefix
<1>14. PICK got : got = Within(plan, T)
  OBVIOUS
<1>15. ports = got
  <2>1. RenderBayPlan = plan
    BY <1>3, <1>8 DEF RenderBayPlan
  <2>2. ToSet(Found(disks, loader)) = T
    BY <1>6, FoundPorts
  <2>3. PortsFor(disks, loader) = got
    BY <1>11, <1>14, <2>1, <2>2 DEF PortsFor, ApplyBayPlan
  <2> QED
    BY <2>3 DEF BaysInv, PortsInv
<1>16. ram = [i \in DOMAIN TreeOf(model) |-> IF i <= Len(got) THEN got[i] ELSE TreeOf(model)[i]]
  BY <1>15 DEF BaysInv, PortsInv, ApplySATAPorts
<1>17. b \in DOMAIN TreeOf(model)
  BY <1>4, <1>5 DEF TreeOf
<1>18. ram[b] = got[b]
  BY <1>13, <1>14, <1>16, <1>17
<1>19. b \in 1..b
  BY <1>5
<1> QED
  BY <1>3, <1>10, <1>13, <1>14, <1>18, <1>19

\* No bay has the loader.
LEMMA LoaderFact == BaysInv => LoaderInNoBay
<1> SUFFICES ASSUME BaysInv PROVE loader \notin ToSet(ram)
  BY DEF LoaderInNoBay
<1>1. /\ OrderOK(order) /\ model \in Models /\ loader \in Ports \cup {USB}
      /\ phase \in {"off", "page", "mapped", "running"}
  BY DEF BaysInv, TypeOK, OrderOK
<1>2. loader # Own
  BY <1>1, DiskBaysAssumption
<1>3. CASE phase \in {"off", "page"}
  <2>1. ram = <<>>
    BY <1>3 DEF BaysInv, PortsInv
  <2> QED
    BY <2>1 DEF ToSet
<1>4. CASE phase \in {"mapped", "running"}
  <2>1. PICK P : P = SataPorts \ {loader}
    OBVIOUS
  <2>2. PortsFor(disks, loader) \in Seq(P) /\ <<>> \in Seq(P)
    BY <1>1, <2>1, PortsForOK
  <2>3. PICK list \in Seq(P) : list = ports
    BY <1>4, <2>2 DEF BaysInv, PortsInv
  <2>4. ram = ApplySATAPorts(TreeOf(model), list)
    BY <1>4, <2>3 DEF BaysInv, PortsInv
  <2>5. P \subseteq SataPorts
    BY <2>1
  <2>6. ToSet(ApplySATAPorts(TreeOf(model), list)) \subseteq P \cup {Own}
    BY <1>1, <2>5, TreeOK
  <2> QED
    BY <1>2, <2>1, <2>4, <2>6
<1> QED
  BY <1>1, <1>3, <1>4

\* The port map says what was placed.
LEMMA PortMapFact == BaysInv => PortMapHonoured
<1> SUFFICES ASSUME BaysInv, Portmapped
             PROVE  PortMapHonoured
  BY DEF PortMapHonoured
<1>1. OrderOK(order) /\ model \in Models
  BY DEF BaysInv, TypeOK, OrderOK
<1>2. model.bays \in Nat \ {0}
  BY <1>1, DiskBaysAssumption
<1>3. map = PortMapFor /\ Feasible
  BY DEF BaysInv, MapInv, Portmapped
<1> QED
  BY <1>1, <1>2, <1>3, MapFact DEF PortMapHonoured

\* The bays a boot hands to DSM, by the plan or the port map of the last build,
\* are those of the storage page, and the loader's disk is in none
\* (mapDiskBays, portMapFor).
THEOREM BaysHonouredCorrect == Spec => []BaysHonoured
<1>1. BaysInv => BaysHonoured
  BY PlanFact, LoaderFact, PortMapFact DEF BaysHonoured, BaysInv
<1>2. Spec => []BaysInv
  BY InitInv, NextInv, PTL DEF Spec
<1> QED
  BY <1>1, <1>2, PTL
=============================================================================
