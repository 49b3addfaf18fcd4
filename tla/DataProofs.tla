----------------------------- MODULE DataProofs -----------------------------
(***************************************************************************)
(* Lemmas about data, for all sizes: least numbers, functions defined by   *)
(* recursion, and what list_add and list_del do to a list. The proofs about *)
(* BitCurl and Library rest on them.                                       *)
(***************************************************************************)
EXTENDS ListHead, WellFoundedInduction, TLAPS

-----------------------------------------------------------------------------
(* Induction. The library states it for any predicate, which the provers   *)
(* cannot instantiate; as a statement about sets they can use it.          *)

\* A set of natural numbers has a least element.
LEMMA Least ==
    ASSUME NEW T, T \subseteq Nat, T # {}
    PROVE  \E n \in T : \A m \in T : n <= m
<1>1. IsWellFoundedOn(OpToRel(<, Nat), Nat)
  BY NatLessThanWellFounded
<1>2. PICK n \in T : \A m \in T : ~(<<m, n>> \in OpToRel(<, Nat))
  BY <1>1, WFMin
<1>3. \A m \in T : ~(m < n)
  BY <1>2 DEF OpToRel
<1> QED
  BY <1>3

\* Induction up to N, about the members of a set.
LEMMA Induction ==
    ASSUME NEW N \in Nat, NEW S, 0 \in S,
           \A n \in 0 .. N - 1 : n \in S => n + 1 \in S
    PROVE  0 .. N \subseteq S
<1> DEFINE T == {n \in 0 .. N : n \notin S}
<1>1. SUFFICES ASSUME T # {} PROVE FALSE
  OBVIOUS
<1>2. T \subseteq Nat
  OBVIOUS
<1>3. PICK n \in T : \A m \in T : n <= m
  BY <1>1, <1>2, Least
<1>4. n # 0 /\ n - 1 \in 0 .. N - 1
  OBVIOUS
<1>5. n - 1 \in S
  BY <1>3, <1>4
<1> QED
  BY <1>4, <1>5

\* A function that is defined by recursion on 0 .. N exists: what a LET or a
\* top-level definition chooses satisfies its equation.
Recursive(f, N, c, step) ==
    f = [n \in 0 .. N |-> IF n = 0 THEN c ELSE step[n][f[n - 1]]]

LEMMA RecursionExists ==
    ASSUME NEW N \in Nat, NEW S, NEW c \in S, NEW step \in [1 .. N -> [S -> S]]
    PROVE  \E f \in [0 .. N -> S] : Recursive(f, N, c, step)
<1> DEFINE Upto(m, f) == f[0] = c /\ \A n \in 1 .. m : f[n] = step[n][f[n - 1]]
           T == {m \in 0 .. N : \E f \in [0 .. m -> S] : Upto(m, f)}
<1>1. 0 \in T
  <2> DEFINE g == [n \in 0 .. 0 |-> c]
  <2>1. g \in [0 .. 0 -> S] /\ Upto(0, g)
    OBVIOUS
  <2> HIDE DEF g
  <2>2. \E f \in [0 .. 0 -> S] : Upto(0, f)
    BY <2>1
  <2> QED
    BY <2>2
<1>2. ASSUME NEW m \in 0 .. N - 1, m \in T PROVE m + 1 \in T
  <2>1. PICK f \in [0 .. m -> S] : Upto(m, f)
    BY <1>2
  <2> DEFINE g == [n \in 0 .. m + 1 |-> IF n <= m THEN f[n] ELSE step[n][f[m]]]
  <2>2. g \in [0 .. m + 1 -> S]
    <3>1. f[m] \in S /\ step[m + 1] \in [S -> S]
      OBVIOUS
    <3> QED
      BY <3>1
  <2>3. g[0] = c
    BY <2>1
  <2>4. ASSUME NEW n \in 1 .. m + 1 PROVE g[n] = step[n][g[n - 1]]
    <3>1. CASE n <= m
      BY <2>1, <3>1
    <3>2. CASE n = m + 1
      BY <3>2
    <3> QED
      BY <3>1, <3>2
  <2> HIDE DEF g
  <2>5. Upto(m + 1, g)
    BY <2>3, <2>4
  <2> QED
    BY <2>2, <2>5
<1>3. N \in T
  <2> HIDE DEF T
  <2>1. 0 .. N \subseteq T
    BY <1>1, <1>2, Induction
  <2> QED
    BY <2>1
<1>4. PICK f \in [0 .. N -> S] : Upto(N, f)
  BY <1>3
<1>5. ASSUME NEW n \in 0 .. N
      PROVE  f[n] = IF n = 0 THEN c ELSE step[n][f[n - 1]]
  BY <1>4
<1>6. Recursive(f, N, c, step)
  BY <1>5 DEF Recursive
<1> QED
  BY <1>6

\* There is one such function only.
LEMMA RecursionUnique ==
    ASSUME NEW N \in Nat, NEW c, NEW step, NEW f, NEW g,
           Recursive(f, N, c, step), Recursive(g, N, c, step)
    PROVE  f = g
<1> DEFINE T == {n \in 0 .. N : f[n] = g[n]}
<1>1. /\ f = [n \in 0 .. N |-> IF n = 0 THEN c ELSE step[n][f[n - 1]]]
      /\ g = [n \in 0 .. N |-> IF n = 0 THEN c ELSE step[n][g[n - 1]]]
  BY DEF Recursive
<1>2. 0 \in T
  BY <1>1
<1>3. ASSUME NEW n \in 0 .. N - 1, n \in T PROVE n + 1 \in T
  <2>1. n + 1 \in 0 .. N /\ n + 1 # 0 /\ (n + 1) - 1 = n
    OBVIOUS
  <2>2. f[n + 1] = step[n + 1][f[n]] /\ g[n + 1] = step[n + 1][g[n]]
    BY <1>1, <2>1
  <2>3. f[n] = g[n]
    BY <1>3
  <2> QED
    BY <2>1, <2>2, <2>3
<1>4. \A n \in 0 .. N : f[n] = g[n]
  <2> HIDE DEF T
  <2>1. 0 .. N \subseteq T
    BY <1>2, <1>3, Induction
  <2> QED
    BY <2>1 DEF T
<1>5. f = [n \in 0 .. N |-> f[n]] /\ g = [n \in 0 .. N |-> g[n]]
  <2>1. DOMAIN f = 0 .. N /\ DOMAIN g = 0 .. N
    BY <1>1
  <2> QED
    BY <1>1, <2>1
<1> QED
  BY <1>4, <1>5

-----------------------------------------------------------------------------
(* Division. *)

\* Quotient and remainder make up the dividend.
LEMMA Division ==
    ASSUME NEW a \in Int, NEW n \in Nat \ {0}
    PROVE  /\ a = n * (a \div n) + (a % n)
           /\ a % n \in 0 .. n - 1 /\ a \div n \in Int
OBVIOUS

\* Nothing else does.
LEMMA DivisionUnique ==
    ASSUME NEW a \in Int, NEW n \in Nat \ {0}, NEW x \in Int,
           n * x <= a, a < n * x + n
    PROVE  a \div n = x
<1> DEFINE y == a \div n
<1>1. y \in Int /\ n * y <= a /\ a < n * y + n
  BY Division
<1> HIDE DEF y
<1>2. CASE x < y
  <2>1. n * (x + 1) <= n * y
    BY <1>1, <1>2
  <2> QED
    BY <1>1, <2>1
<1>3. CASE y < x
  <2>1. n * (y + 1) <= n * x
    BY <1>1, <1>3
  <2> QED
    BY <1>1, <2>1
<1> QED
  BY <1>1, <1>2, <1>3 DEF y

-----------------------------------------------------------------------------
(* Lists.                                                                  *)

Memory(N, P) == [N -> [prev : P, next : P]]
Members(s) == {s[k] : k \in 1 .. Len(s)}

\* What is in a sequence with one more in front.
LEMMA MembersPrepended ==
    ASSUME NEW N, NEW s \in Seq(N), NEW x \in N
    PROVE  Members(<<x>> \o s) = Members(s) \cup {x}
<1> DEFINE u == <<x>> \o s
           L == Len(s)
<1>1. L \in Nat /\ Len(u) = L + 1 /\ u[1] = x /\ \A k \in 1 .. L : u[k + 1] = s[k]
  OBVIOUS
<1>2. ASSUME NEW i \in 1 .. L + 1, i # 1
      PROVE  i - 1 \in 1 .. L /\ u[i] = s[i - 1]
  <2>1. i - 1 \in 1 .. L /\ (i - 1) + 1 = i
    BY <1>1, <1>2
  <2> QED
    BY <2>1, <1>1
<1>3. 1 \in 1 .. L + 1 /\ \A i \in 1 .. L : i + 1 \in 1 .. L + 1
  BY <1>1
<1> HIDE DEF u, L
<1>4. Members(u) \subseteq Members(s) \cup {x}
  BY <1>1, <1>2 DEF Members, L
<1>5. x \in Members(u)
  BY <1>1, <1>3 DEF Members, L
<1>6. Members(s) \subseteq Members(u)
  BY <1>1, <1>3 DEF Members, L
<1> QED
  BY <1>4, <1>5, <1>6 DEF u

\* The pointers that list_add changes, for a node that is not in the list.
LEMMA AddPointers ==
    ASSUME NEW N, NEW P, N \subseteq P, NEW m \in Memory(N, P), NEW head \in N,
           NEW x \in N, x # head, m[head].next \in N, m[head].next # x
    PROVE  /\ list_add(m, x, head) \in Memory(N, P)
           /\ \A y \in N :
                 /\ list_add(m, x, head)[y].next =
                        IF y = head THEN x ELSE IF y = x THEN m[head].next ELSE m[y].next
                 /\ list_add(m, x, head)[y].prev =
                        IF y = x THEN head ELSE IF y = m[head].next THEN x ELSE m[y].prev
<1> DEFINE next == m[head].next
           behind == [m EXCEPT ![next].prev = x]
           linked == [behind EXCEPT ![x] = [prev |-> head, next |-> next]]
           added == [linked EXCEPT ![head].next = x]
<1>1. behind \in Memory(N, P)
  BY DEF Memory
<1>2. linked \in Memory(N, P)
  BY <1>1 DEF Memory
<1>3. added \in Memory(N, P)
  BY <1>2 DEF Memory
<1>4. \A y \in N :
         /\ behind[y].next = m[y].next
         /\ behind[y].prev = IF y = next THEN x ELSE m[y].prev
  BY DEF Memory
<1>5. \A y \in N :
         /\ linked[y].next = IF y = x THEN next ELSE m[y].next
         /\ linked[y].prev = IF y = x THEN head ELSE behind[y].prev
  BY <1>1, <1>4 DEF Memory
<1>6. \A y \in N :
         /\ added[y].next = IF y = head THEN x ELSE linked[y].next
         /\ added[y].prev = linked[y].prev
  BY <1>2 DEF Memory
<1>7. list_add(m, x, head) = added
  BY DEF list_add
<1> HIDE DEF behind, linked, added
<1> QED
  BY <1>3, <1>4, <1>5, <1>6, <1>7

\* The pointers that list_del changes: without LIST_POISONING not those of the node
\* it removes, which list_for_each still follows in dcurl_destroy.
LEMMA DelPointers ==
    ASSUME ~LIST_POISONING,
           NEW N, NEW P, N \subseteq P, NEW m \in Memory(N, P), NEW x \in N,
           m[x].next \in N, m[x].prev \in N, m[x].next # x, m[x].prev # x
    PROVE  /\ list_del(m, x) \in Memory(N, P)
           /\ list_del(m, x)[x] = m[x]
           /\ \A y \in N :
                 /\ list_del(m, x)[y].next = IF y = m[x].prev THEN m[x].next ELSE m[y].next
                 /\ list_del(m, x)[y].prev = IF y = m[x].next THEN m[x].prev ELSE m[y].prev
<1> DEFINE next == m[x].next
           prev == m[x].prev
           behind == [m EXCEPT ![next].prev = prev]
           removed == [behind EXCEPT ![prev].next = next]
<1>1. behind \in Memory(N, P)
  BY DEF Memory
<1>2. removed \in Memory(N, P)
  BY <1>1 DEF Memory
<1>3. \A y \in N :
         /\ behind[y].next = m[y].next
         /\ behind[y].prev = IF y = next THEN prev ELSE m[y].prev
  BY DEF Memory
<1>4. \A y \in N :
         /\ removed[y].next = IF y = prev THEN next ELSE behind[y].next
         /\ removed[y].prev = behind[y].prev
  BY <1>1 DEF Memory
<1>5. removed[x] = m[x]
  BY DEF Memory
<1>6. list_del(m, x) = removed
  BY DEF list_del
<1> HIDE DEF behind, removed
<1> QED
  BY <1>2, <1>3, <1>4, <1>5, <1>6

\* Where a list starts and ends.
LEMMA ListEnds ==
    ASSUME NEW N, NEW P, NEW m \in Memory(N, P), NEW head, NEW s \in Seq(N),
           IsList(m, head, s)
    PROVE  /\ m[head].next = At(head, s, 1)
           /\ Len(s) = 0 => At(head, s, 1) = head
           /\ Len(s) > 0 => /\ At(head, s, 1) = s[1]
                            /\ s[1] # head
                            /\ m[s[1]].prev = head
                            /\ m[s[1]].next = At(head, s, 2)
           /\ \A k \in 1 .. Len(s) : s[k] # head
<1>1. Len(s) \in Nat
  OBVIOUS
<1>2. At(head, s, 0) = head /\ 0 \in 0 .. Len(s)
  BY <1>1 DEF At
<1>3. \A k \in 1 .. Len(s) : At(head, s, k) = s[k] /\ k \in 0 .. Len(s) /\ k # 0
  BY <1>1 DEF At
<1>4. m[head].next = At(head, s, 1) /\ m[At(head, s, 1)].prev = head
  BY <1>1, <1>2 DEF IsList
<1>5. \A k \in 1 .. Len(s) : s[k] # head
  BY <1>2, <1>3 DEF IsList
<1>6. Len(s) = 0 => At(head, s, 1) = head
  BY DEF At
<1>7. Len(s) > 0 => m[s[1]].next = At(head, s, 2)
  BY <1>1, <1>3 DEF IsList
<1> QED
  BY <1>1, <1>3, <1>4, <1>5, <1>6, <1>7

\* list_add puts the node in front.
LEMMA AddPrepends ==
    ASSUME NEW N, NEW P, N \subseteq P, NEW m \in Memory(N, P), NEW head \in N,
           NEW s \in Seq(N), IsList(m, head, s),
           NEW x \in N, x # head, x \notin Members(s)
    PROVE  /\ list_add(m, x, head) \in Memory(N, P)
           /\ <<x>> \o s \in Seq(N)
           /\ IsList(list_add(m, x, head), head, <<x>> \o s)
           /\ Members(<<x>> \o s) = Members(s) \cup {x}
<1> DEFINE n == list_add(m, x, head)
           u == <<x>> \o s
           L == Len(s)
<1>1. L \in Nat /\ u \in Seq(N) /\ Len(u) = L + 1 /\ u[1] = x
      /\ \A k \in 1 .. L : u[k + 1] = s[k] /\ s[k] \in N
  OBVIOUS
<1>2. At(head, s, 1) \in N /\ At(head, s, 1) # x
  BY <1>1 DEF At, Members
<1>3. m[head].next = At(head, s, 1)
  BY ListEnds
<1>4. /\ n \in Memory(N, P)
      /\ \A y \in N :
            /\ n[y].next = IF y = head THEN x ELSE IF y = x THEN m[head].next ELSE m[y].next
            /\ n[y].prev = IF y = x THEN head ELSE IF y = m[head].next THEN x ELSE m[y].prev
  BY <1>2, <1>3, AddPointers
<1>5. /\ At(head, u, 0) = head
      /\ At(head, u, 1) = x
      /\ \A k \in 1 .. L + 1 : At(head, u, k + 1) = At(head, s, k)
  <2>1. At(head, u, 0) = head /\ At(head, u, 1) = x
    BY <1>1 DEF At
  <2>2. ASSUME NEW k \in 1 .. L
        PROVE  At(head, u, k + 1) = At(head, s, k)
    BY <1>1 DEF At
  <2>3. At(head, u, L + 2) = head /\ At(head, s, L + 1) = head
    BY <1>1 DEF At
  <2> QED
    BY <1>1, <2>1, <2>2, <2>3
<1>6. \A k \in 1 .. L : At(head, s, k) \in N \ {head, x} /\ At(head, s, k) = s[k]
  BY <1>1, ListEnds DEF At, Members
<1>7. At(head, s, 0) = head /\ At(head, s, L + 1) = head
  BY <1>1 DEF At
<1>8. ASSUME NEW j \in 0 .. L + 1, NEW k \in 0 .. L + 1, j # k
      PROVE  At(head, u, j) # At(head, u, k)
  <2>1. \A i \in 0 .. L + 1 : \/ i = 0 /\ At(head, u, i) = head
                              \/ i = 1 /\ At(head, u, i) = x
                              \/ /\ i - 1 \in 1 .. L
                                 /\ At(head, u, i) = At(head, s, i - 1)
    <3> SUFFICES ASSUME NEW i \in 0 .. L + 1, i # 0, i # 1
                 PROVE  i - 1 \in 1 .. L /\ At(head, u, i) = At(head, s, i - 1)
      BY <1>5
    <3>1. i - 1 \in 1 .. L /\ i - 1 \in 1 .. L + 1 /\ (i - 1) + 1 = i
      BY <1>1
    <3> QED
      BY <3>1, <1>5
  <2>2. \A i1, i2 \in 1 .. L : i1 # i2 => At(head, s, i1) # At(head, s, i2)
    BY <1>1 DEF IsList
  <2>3. CASE j > 1 /\ k > 1
    <3>1. j - 1 \in 1 .. L /\ k - 1 \in 1 .. L /\ j - 1 # k - 1
      BY <1>1, <1>8, <2>3
    <3> QED
      BY <2>1, <2>2, <2>3, <3>1
  <2>4. CASE ~(j > 1 /\ k > 1)
    <3>1. \A i \in 0 .. L + 1 : i > 1 => At(head, u, i) \notin {head, x}
      BY <1>1, <1>6, <2>1
    <3>2. j \in {0, 1} \/ k \in {0, 1}
      BY <1>1, <2>4
    <3>3. At(head, u, 0) # At(head, u, 1)
      BY <1>5
    <3> QED
      BY <1>1, <1>5, <1>8, <3>1, <3>2, <3>3
  <2> QED
    BY <2>3, <2>4
<1>9. ASSUME NEW k \in 0 .. L + 1
      PROVE  /\ n[At(head, u, k)].next = At(head, u, k + 1)
             /\ n[At(head, u, k + 1)].prev = At(head, u, k)
  <2>1. CASE k = 0
    BY <2>1, <1>4, <1>5
  <2>2. CASE k = 1
    <3>1. At(head, u, 2) = At(head, s, 1)
      BY <1>1, <1>5
    <3> QED
      BY <2>2, <3>1, <1>2, <1>3, <1>4, <1>5
  <2>3. CASE k > 1
    <3>1. k - 1 \in 1 .. L /\ k \in 1 .. L + 1 /\ k - 1 \in 1 .. L + 1 /\ (k - 1) + 1 = k
          /\ 1 \in 0 .. L /\ 0 \in 0 .. L /\ k - 1 \in 0 .. L
      BY <2>3, <1>1
    <3>2. At(head, u, k) = At(head, s, k - 1) /\ At(head, u, k + 1) = At(head, s, k)
      BY <3>1, <1>5
    <3>3. /\ m[At(head, s, k - 1)].next = At(head, s, k)
          /\ m[At(head, s, k)].prev = At(head, s, k - 1)
      BY <3>1 DEF IsList
    <3>4. At(head, s, k) # At(head, s, 1) /\ At(head, s, k) # x /\ At(head, s, k) \in N
      <4>1. CASE k = L + 1
        BY <3>1, <4>1, <1>6, <1>7
      <4>2. CASE k \in 1 .. L
        BY <2>3, <3>1, <4>2, <1>6 DEF IsList
      <4> QED
        BY <3>1, <1>1, <4>1, <4>2
    <3> QED
      BY <3>1, <3>2, <3>3, <3>4, <1>3, <1>4, <1>6
  <2> QED
    BY <1>1, <2>1, <2>2, <2>3
<1>10. IsList(n, head, u)
  BY <1>1, <1>8, <1>9 DEF IsList
<1>11. Members(u) = Members(s) \cup {x}
  BY MembersPrepended
<1> QED
  BY <1>1, <1>4, <1>10, <1>11

\* list_del of the first node leaves the rest, and the way to it in the node that
\* was removed.
LEMMA DelFirst ==
    ASSUME ~LIST_POISONING,
           NEW N, NEW P, N \subseteq P, NEW m \in Memory(N, P), NEW head \in N,
           NEW s \in Seq(N), IsList(m, head, s), Len(s) > 0
    PROVE  /\ list_del(m, s[1]) \in Memory(N, P)
           /\ Tail(s) \in Seq(N)
           /\ IsList(list_del(m, s[1]), head, Tail(s))
           /\ Members(Tail(s)) = Members(s) \ {s[1]}
           /\ list_del(m, s[1])[s[1]].next = list_del(m, s[1])[head].next
<1> DEFINE x == s[1]
           n == list_del(m, s[1])
           u == Tail(s)
           L == Len(s) - 1
<1>0. Len(s) \in Nat /\ Len(s) > 0 /\ L \in Nat
  OBVIOUS
<1>1. L \in Nat /\ Len(s) = L + 1 /\ u \in Seq(N) /\ Len(u) = L
      /\ \A k \in 1 .. L : u[k] = s[k + 1] /\ u[k] \in N
  OBVIOUS
<1>2. /\ At(head, u, 0) = head
      /\ \A k \in 1 .. L + 1 : At(head, u, k) = At(head, s, k + 1)
  <2>1. At(head, u, 0) = head
    BY <1>1 DEF At
  <2>2. ASSUME NEW k \in 1 .. L
        PROVE  At(head, u, k) = At(head, s, k + 1)
    <3>1. k + 1 \in 1 .. Len(s)
      BY <1>1
    <3> QED
      BY <1>1, <3>1 DEF At
  <2>3. At(head, u, L + 1) = head /\ At(head, s, L + 2) = head
    BY <1>1 DEF At
  <2> QED
    BY <1>1, <2>1, <2>2, <2>3
<1>3. /\ At(head, s, 0) = head /\ At(head, s, 1) = x /\ At(head, s, L + 2) = head
      /\ \A k \in 1 .. L + 1 : At(head, s, k) = s[k] /\ s[k] \in N
  <2>1. 0 \notin 1 .. Len(s) /\ 1 \in 1 .. Len(s) /\ L + 2 \notin 1 .. Len(s)
    BY <1>1
  <2> QED
    BY <1>1, <2>1 DEF At
<1>4. \A j, k \in 0 .. L + 1 : j # k => At(head, s, j) # At(head, s, k)
  BY <1>1 DEF IsList
<1>5. \A k \in 0 .. L + 1 : /\ m[At(head, s, k)].next = At(head, s, k + 1)
                            /\ m[At(head, s, k + 1)].prev = At(head, s, k)
  BY <1>1 DEF IsList
<1>6. x \in N /\ x # head /\ m[x].prev = head /\ m[x].next = At(head, s, 2)
  <2>1. 0 \in 0 .. L + 1 /\ 1 \in 0 .. L + 1 /\ 1 \in 1 .. L + 1
    BY <1>1
  <2> QED
    BY <1>3, <1>4, <1>5, <2>1
<1>7. At(head, s, 2) \in N /\ At(head, s, 2) # x
  <2>1. CASE Len(s) = 1
    <3>1. At(head, s, 2) = head
      BY <2>1 DEF At
    <3> QED
      BY <1>6, <3>1
  <2>2. CASE Len(s) # 1
    <3>1. ASSUME NEW l \in Nat, l > 0, l # 1
          PROVE  l > 1
      BY <3>1
    <3>6. Len(s) > 1
      BY <1>0, <2>2, <3>1
    <3>2. L + 1 = Len(s)
      BY <1>0
    <3>3. 2 \in 1 .. L + 1 /\ 2 \in 0 .. L + 1 /\ 1 \in 0 .. L + 1
      BY <1>0, <3>6, <3>2
    <3>4. At(head, s, 2) \in N
      BY <1>3, <3>3
    <3>5. At(head, s, 2) # At(head, s, 1)
      BY <1>4, <3>3
    <3> QED
      BY <1>3, <3>4, <3>5
  <2> QED
    BY <2>1, <2>2
<1>8. /\ n \in Memory(N, P)
      /\ n[x] = m[x]
      /\ \A y \in N :
            /\ n[y].next = IF y = head THEN At(head, s, 2) ELSE m[y].next
            /\ n[y].prev = IF y = At(head, s, 2) THEN head ELSE m[y].prev
  BY <1>6, <1>7, DelPointers
<1>9. ASSUME NEW j \in 0 .. L, NEW k \in 0 .. L, j # k
      PROVE  At(head, u, j) # At(head, u, k)
  <2>1. \A i \in 0 .. L : \/ i = 0 /\ At(head, u, i) = At(head, s, 0)
                          \/ /\ i + 1 \in 2 .. L + 1
                             /\ At(head, u, i) = At(head, s, i + 1)
    BY <1>1, <1>2, <1>3
  <2>2. j + 1 # k + 1
    BY <1>1, <1>9
  <2> QED
    BY <1>1, <1>4, <2>1, <2>2
<1>10. ASSUME NEW k \in 0 .. L
       PROVE  /\ n[At(head, u, k)].next = At(head, u, k + 1)
              /\ n[At(head, u, k + 1)].prev = At(head, u, k)
  <2>1. CASE k = 0
    <3>1. At(head, u, 0) = head /\ At(head, u, 1) = At(head, s, 2)
      BY <1>1, <1>2
    <3> QED
      BY <2>1, <3>1, <1>7, <1>8
  <2>2. CASE k # 0
    <3>1. k \in 1 .. L + 1 /\ k + 1 \in 1 .. L + 1 /\ k + 1 \in 0 .. L + 1
          /\ 0 \in 0 .. L + 1 /\ 2 \in 0 .. L + 1 /\ 2 # k + 2 /\ (k + 1) + 1 = k + 2
      BY <2>2, <1>1
    <3>2. At(head, u, k) = At(head, s, k + 1) /\ At(head, u, k + 1) = At(head, s, k + 2)
      BY <3>1, <1>2
    <3>3. /\ m[At(head, s, k + 1)].next = At(head, s, k + 2)
          /\ m[At(head, s, k + 2)].prev = At(head, s, k + 1)
      BY <3>1, <1>5
    <3>4. At(head, s, k + 1) \in N /\ At(head, s, k + 1) # head
      BY <3>1, <1>3, <1>4
    <3>5. At(head, s, k + 2) \in N /\ At(head, s, k + 2) # At(head, s, 2)
      <4>1. CASE k = L
        BY <3>1, <4>1, <1>3, <1>4
      <4>2. CASE k # L
        <5>1. k \in Nat /\ k < L
          BY <1>0, <4>2
        <5>2. k + 2 \in 1 .. L + 1 /\ k + 2 \in 0 .. L + 1
          BY <1>1, <5>1
        <5> QED
          BY <3>1, <5>2, <1>3, <1>4
      <4> QED
        BY <4>1, <4>2
    <3> QED
      BY <3>2, <3>3, <3>4, <3>5, <1>8
  <2> QED
    BY <2>1, <2>2
<1>11. IsList(n, head, u)
  BY <1>1, <1>9, <1>10 DEF IsList
<1>12. Members(u) = Members(s) \ {x}
  <2>1. ASSUME NEW y \in Members(u)
        PROVE  y \in Members(s) \ {x}
    <3>1. PICK i \in 1 .. L : y = u[i]
      BY <1>1, <2>1 DEF Members
    <3>2. i + 1 \in 1 .. L + 1 /\ i + 1 \in 0 .. L + 1 /\ i + 1 # 1 /\ 1 \in 0 .. L + 1
      BY <1>1
    <3>3. y = s[i + 1] /\ y # x
      BY <1>1, <1>3, <1>4, <3>1, <3>2
    <3> QED
      BY <1>1, <3>2, <3>3 DEF Members
  <2>2. ASSUME NEW y \in Members(s) \ {x}
        PROVE  y \in Members(u)
    <3>1. PICK i \in 1 .. L + 1 : y = s[i]
      BY <1>1, <2>2 DEF Members
    <3>2. i - 1 \in 1 .. L /\ (i - 1) + 1 = i
      BY <1>1, <2>2, <3>1
    <3> QED
      BY <1>1, <3>1, <3>2 DEF Members
  <2> QED
    BY <2>1, <2>2
<1>13. n[x].next = n[head].next
  BY <1>6, <1>8
<1> QED
  BY <1>1, <1>8, <1>11, <1>12, <1>13

\* From the head or a node of the list, next leads to the head or a node of it.
LEMMA NextInside ==
    ASSUME NEW N, NEW P, NEW m \in Memory(N, P), NEW head \in N, NEW s \in Seq(N),
           IsList(m, head, s)
    PROVE  /\ m[head].next \in Members(s) \cup {head}
           /\ \A x \in Members(s) : m[x].next \in Members(s) \cup {head}
<1>1. Len(s) \in Nat
  OBVIOUS
<1>2. \A k \in 1 .. Len(s) + 1 : At(head, s, k) \in Members(s) \cup {head}
  BY <1>1 DEF At, Members
<1>3. m[head].next \in Members(s) \cup {head}
  BY <1>1, <1>2, ListEnds
<1>4. ASSUME NEW k \in 1 .. Len(s)
      PROVE  m[s[k]].next \in Members(s) \cup {head}
  <2>1. k \in 0 .. Len(s) /\ At(head, s, k) = s[k] /\ k + 1 \in 1 .. Len(s) + 1
    BY <1>1 DEF At
  <2> QED
    BY <1>2, <2>1 DEF IsList
<1> QED
  BY <1>3, <1>4 DEF Members
=============================================================================
