------------------------ MODULE FileDescriptors_proofs ------------------------
(***************************************************************************)
(* Facts about the operators of FileDescriptors, for any number of         *)
(* descriptors and pipes: what copying, dropping, duplicating and closing  *)
(* do to the counts kept beside the pipes, and what a child starts with.   *)
(***************************************************************************)
EXTENDS FileDescriptors, FiniteSetTheorems, WellFoundedInduction, TLAPS

-----------------------------------------------------------------------------
(***************************************************************************)
(* Counting descriptors.                                                   *)
(***************************************************************************)
\* How many of the first n descriptors of a table are d.
CountTo(t, n, d) == Cardinality({f \in Fds : f < n /\ t[f] = d})

\* Tables are finite.
LEMMA Finite ==
  IsFiniteSet(Fds)
BY FS_Interval, FileDescriptorsAssumption DEF Fds

\* A count is a number, and zero when there is nothing to count.
LEMMA CountType ==
  ASSUME NEW t, NEW d
  PROVE  /\ Count(t, d) \in Nat
         /\ Count(t, d) = 0 <=> \A f \in Fds : t[f] # d
<1> DEFINE A == {f \in Fds : t[f] = d}
<1>1. IsFiniteSet(A)
  BY Finite, FS_Subset, Zenon
<1>2. Cardinality(A) \in Nat /\ (Cardinality(A) = 0 <=> A = {})
  BY <1>1, FS_CardinalityType, FS_EmptySet, Zenon
<1>3. QED BY <1>2, Zenon DEF Count

\* One descriptor of a table is overwritten.
LEMMA CountStore ==
  ASSUME NEW t \in FdTable, NEW f \in Fds, NEW d, NEW e
  PROVE  /\ Count([t EXCEPT ![f] = d], e) = Count(t, e) - Unit(t[f], e) + Unit(d, e)
         /\ Count(t, e) >= Unit(t[f], e)
<1> DEFINE u == [t EXCEPT ![f] = d]
           A == {g \in Fds : t[g] = e}
           R == A \ {f}
           B == {g \in Fds : u[g] = e}
<1>1. IsFiniteSet(A) /\ IsFiniteSet(R)
  BY Finite, FS_Subset, Zenon
<1>2. Cardinality(R) \in Nat /\ Cardinality(A) \in Nat
  BY <1>1, FS_CardinalityType, Zenon
<1>3. Cardinality(R) = IF t[f] = e THEN Cardinality(A) - 1 ELSE Cardinality(A)
  <2>1. f \in A <=> t[f] = e
    BY Zenon
  <2> HIDE DEF A
  <2>2. QED BY <1>1, <2>1, FS_RemoveElement, Zenon
<1>4. \A g \in Fds : u[g] = IF g = f THEN d ELSE t[g]
  BY Zenon DEF FdTable
<1>5. B = IF d = e THEN R \cup {f} ELSE R
  BY <1>4, Zenon
<1>6. Cardinality(R \cup {f}) = Cardinality(R) + 1
  BY <1>1, FS_AddElement, Zenon
<1>7. Count(t, e) = Cardinality(A) /\ Count(u, e) = Cardinality(B)
  BY Zenon DEF Count
<1> HIDE DEF A, R, B, u
<1>8. CASE d = e
  BY <1>2, <1>3, <1>5, <1>6, <1>7, <1>8 DEF Unit, u
<1>9. CASE d # e
  BY <1>2, <1>3, <1>5, <1>7, <1>9 DEF Unit, u
<1>10. QED BY <1>8, <1>9, Zenon

\* A descriptor of the table counts.
LEMMA CountIncludes ==
  ASSUME NEW t \in FdTable, NEW f \in Fds, NEW e
  PROVE  Count(t, e) >= Unit(t[f], e)
<1>1. /\ Count([t EXCEPT ![f] = Closed], e) = Count(t, e) - Unit(t[f], e) + Unit(Closed, e)
      /\ Count(t, e) >= Unit(t[f], e)
  BY ONLY t \in FdTable, f \in Fds, CountStore
<1>2. QED BY <1>1, Zenon

\* Counting on by one descriptor, from none to all of them.
LEMMA CountToStep ==
  ASSUME NEW t, NEW d
  PROVE  /\ CountTo(t, 0, d) = 0
         /\ CountTo(t, MAX_FDS, d) = Count(t, d)
         /\ \A n \in 1..MAX_FDS :
              /\ CountTo(t, n, d) = CountTo(t, n - 1, d) + Unit(t[n - 1], d)
              /\ CountTo(t, n - 1, d) \in Nat
<1> DEFINE A(n) == {f \in Fds : f < n /\ t[f] = d}
<1>1. A(0) = {} /\ A(MAX_FDS) = {f \in Fds : t[f] = d}
  BY FileDescriptorsAssumption DEF Fds
<1>2. ASSUME NEW n \in 1..MAX_FDS
      PROVE  /\ CountTo(t, n, d) = CountTo(t, n - 1, d) + Unit(t[n - 1], d)
             /\ CountTo(t, n - 1, d) \in Nat
  <2>1. n - 1 \in Fds
    BY FileDescriptorsAssumption DEF Fds
  <2>2. A(n) = IF t[n - 1] = d THEN A(n - 1) \cup {n - 1} ELSE A(n - 1)
    BY <2>1, FileDescriptorsAssumption DEF Fds
  <2>3. n - 1 \notin A(n - 1)
    BY <2>1 DEF Fds
  <2>4. IsFiniteSet(A(n - 1))
    BY Finite, FS_Subset, Zenon
  <2>5. CountTo(t, n, d) = Cardinality(A(n)) /\ CountTo(t, n - 1, d) = Cardinality(A(n - 1))
    BY Zenon DEF CountTo
  <2> HIDE DEF A
  <2>6. Cardinality(A(n - 1)) \in Nat
    BY <2>4, FS_CardinalityType, Zenon
  <2>7. Cardinality(A(n - 1) \cup {n - 1}) = Cardinality(A(n - 1)) + 1
    BY <2>3, <2>4, FS_AddElement, Zenon
  <2>8. QED BY <2>2, <2>5, <2>6, <2>7 DEF Unit
<1>3. CountTo(t, 0, d) = Cardinality(A(0)) /\ CountTo(t, MAX_FDS, d) = Cardinality(A(MAX_FDS))
  BY Zenon DEF CountTo
<1>4. CountTo(t, 0, d) = 0
  BY <1>1, <1>3, FS_EmptySet, Zenon
<1>5. CountTo(t, MAX_FDS, d) = Count(t, d)
  BY <1>1, <1>3, Zenon DEF Count
<1>6. QED BY <1>2, <1>4, <1>5, Zenon

\* The same for one descriptor number.
LEMMA CountToNext ==
  ASSUME NEW t, NEW d, NEW n \in 1..MAX_FDS
  PROVE  /\ CountTo(t, n, d) = CountTo(t, n - 1, d) + Unit(t[n - 1], d)
         /\ CountTo(t, n - 1, d) \in Nat
BY CountToStep, Zenon

\* Some of the descriptors are no more than all of them.
LEMMA CountToBound ==
  ASSUME NEW t, NEW n, NEW d
  PROVE  CountTo(t, n, d) <= Count(t, d)
<1> DEFINE A == {f \in Fds : t[f] = d}
           S == {f \in Fds : f < n /\ t[f] = d}
<1>1. IsFiniteSet(A) /\ S \in SUBSET A
  BY Finite, FS_Subset, Zenon
<1>2. QED BY <1>1, FS_Subset, Zenon DEF CountTo, Count

\* The descriptors of all tables, when the table of one task is replaced.
LEMMA HoldersStore ==
  ASSUME NEW D, IsFiniteSet(D), NEW F \in [D -> FdTable], NEW G \in [D -> FdTable], NEW i \in D,
         \A j \in D \ {i} : G[j] = F[j], NEW d
  PROVE  /\ HoldersOf(G, d) = HoldersOf(F, d) - Count(F[i], d) + Count(G[i], d)
         /\ HoldersOf(F, d) \in Nat
         /\ HoldersOf(F, d) >= Count(F[i], d)
         /\ \A j \in D \ {i}, f \in Fds :
              F[j][f] = d => HoldersOf(F, d) >= Count(F[i], d) + 1
<1> DEFINE Of(T) == {h \in D \X Fds : T[h[1]][h[2]] = d}
           Row(u) == {i} \X {f \in Fds : u[f] = d}
           Rest == {h \in Of(F) : h[1] # i}
<1>1. /\ HoldersOf(F, d) = Cardinality(Of(F))
      /\ HoldersOf(G, d) = Cardinality(Of(G))
  BY Zenon DEF HoldersOf
<1>2. Of(F) = Rest \cup Row(F[i]) /\ Rest \cap Row(F[i]) = {}
  BY Zenon
<1>3. Of(G) = Rest \cup Row(G[i]) /\ Rest \cap Row(G[i]) = {}
  BY Zenon
<1>4. ASSUME NEW u
      PROVE  /\ IsFiniteSet(Row(u)) /\ Cardinality(Row(u)) = Count(u, d)
             /\ Count(u, d) \in Nat
  <2>1. IsFiniteSet({f \in Fds : u[f] = d})
    BY Finite, FS_Subset, Zenon
  <2>2. IsFiniteSet({i}) /\ Cardinality({i}) = 1
    BY FS_Singleton, Zenon
  <2>3. /\ IsFiniteSet(Row(u))
        /\ Cardinality(Row(u)) = 1 * Cardinality({f \in Fds : u[f] = d})
    BY <2>1, <2>2, FS_Product, Zenon
  <2>4. Cardinality({f \in Fds : u[f] = d}) \in Nat
    BY <2>1, FS_CardinalityType, Zenon
  <2>5. QED BY <2>3, <2>4 DEF Count
<1>5. IsFiniteSet(Rest)
  <2>1. IsFiniteSet(D \X Fds)
    BY Finite, FS_Product, Zenon
  <2>2. QED BY <2>1, FS_Subset, Zenon
<1>6. Cardinality(Rest) \in Nat /\ (Cardinality(Rest) = 0 <=> Rest = {})
  BY <1>5, FS_CardinalityType, FS_EmptySet, Zenon
<1>7. ASSUME NEW u, Rest \cap Row(u) = {}
      PROVE  Cardinality(Rest \cup Row(u)) = Cardinality(Rest) + Count(u, d)
  <2>1. Cardinality(Rest \cup Row(u)) =
          Cardinality(Rest) + Cardinality(Row(u)) - Cardinality(Rest \cap Row(u))
    BY <1>4, <1>5, FS_Union
  <2>2. Cardinality(Row(u)) = Count(u, d) /\ Count(u, d) \in Nat
    BY <1>4, Zenon
  <2>3. Cardinality(Rest \cap Row(u)) = 0
    <3>1. Cardinality({}) = 0
      BY FS_EmptySet, Zenon
    <3>2. QED BY <1>7, <3>1, Zenon
  <2> HIDE DEF Rest, Row
  <2>4. QED BY <1>6, <2>1, <2>2, <2>3
<1>8. ASSUME NEW j \in D \ {i}, NEW f \in Fds, F[j][f] = d PROVE Rest # {}
  <2>1. <<j, f>> \in Rest
    BY <1>8, Zenon
  <2>2. QED BY <2>1, Zenon
<1> HIDE DEF Of, Row, Rest
<1>9. /\ HoldersOf(F, d) = Cardinality(Rest) + Count(F[i], d)
      /\ HoldersOf(G, d) = Cardinality(Rest) + Count(G[i], d)
  BY <1>1, <1>2, <1>3, <1>7, Zenon
<1>10. Count(F[i], d) \in Nat /\ Count(G[i], d) \in Nat
  BY <1>4, Zenon
<1>11. QED BY <1>6, <1>8, <1>9, <1>10

-----------------------------------------------------------------------------
(***************************************************************************)
(* What Clone and Drop do to the counts.                                   *)
(***************************************************************************)
\* A descriptor is one of these, and its kind says which.
LEMMA Kinds ==
  ASSUME NEW d \in FileDescriptor
  PROVE  \/ \E p \in Pipes : d = ReadEnd(p) /\ d.kind = "PipeRead" /\ d.pipe = p
         \/ \E p \in Pipes : d = WriteEnd(p) /\ d.kind = "PipeWrite" /\ d.pipe = p
         \/ /\ d.kind \notin {"PipeRead", "PipeWrite"}
            /\ \A p : d # ReadEnd(p) /\ d # WriteEnd(p)
BY DEF FileDescriptor, ReadEnd, WriteEnd, Closed, Stdin, Console, FileRead, FileWrite

\* The two ends of pipes are all different.
LEMMA Ends ==
  /\ \A p, q : ReadEnd(p) # WriteEnd(q)
  /\ \A p, q : ReadEnd(p) = ReadEnd(q) <=> p = q
  /\ \A p, q : WriteEnd(p) = WriteEnd(q) <=> p = q
  /\ \A p : ReadEnd(p) # Closed /\ WriteEnd(p) # Closed
  /\ \A p \in Pipes : ReadEnd(p) \in FileDescriptor /\ WriteEnd(p) \in FileDescriptor
  /\ \A p : /\ ReadEnd(p).kind = "PipeRead" /\ ReadEnd(p).pipe = p
            /\ WriteEnd(p).kind = "PipeWrite" /\ WriteEnd(p).pipe = p
  /\ Closed \in FileDescriptor /\ Closed.kind = "Closed"
<1>1. /\ \A p, q : ReadEnd(p) # WriteEnd(q)
      /\ \A p : ReadEnd(p) # Closed /\ WriteEnd(p) # Closed
      /\ \A p : /\ ReadEnd(p).kind = "PipeRead" /\ ReadEnd(p).pipe = p
                /\ WriteEnd(p).kind = "PipeWrite" /\ WriteEnd(p).pipe = p
      /\ Closed.kind = "Closed"
  BY Zenon DEF ReadEnd, WriteEnd, Closed
<1>2. /\ \A p \in Pipes : ReadEnd(p) \in FileDescriptor /\ WriteEnd(p) \in FileDescriptor
      /\ Closed \in FileDescriptor
  BY Zenon DEF FileDescriptor
<1>3. \A p, q : ReadEnd(p) = ReadEnd(q) <=> p = q
  <2>1. ASSUME NEW p, NEW q, ReadEnd(p) = ReadEnd(q) PROVE p = q
    <3>1. ReadEnd(p).pipe = ReadEnd(q).pipe
      BY <2>1, Zenon
    <3>2. QED BY <1>1, <3>1
  <2>2. QED BY <2>1, Zenon
<1>4. \A p, q : WriteEnd(p) = WriteEnd(q) <=> p = q
  <2>1. ASSUME NEW p, NEW q, WriteEnd(p) = WriteEnd(q) PROVE p = q
    <3>1. WriteEnd(p).pipe = WriteEnd(q).pipe
      BY <2>1, Zenon
    <3>2. QED BY <1>1, <3>1
  <2>2. QED BY <2>1, Zenon
<1>5. QED BY <1>1, <1>2, <1>3, <1>4, Zenon

\* Cloning a descriptor counts it.
LEMMA CloneCounts ==
  ASSUME NEW P \in PipeStates, NEW d \in FileDescriptor
  PROVE  /\ Clone(P, d) \in PipeStates
         /\ \A p \in Pipes :
              /\ Clone(P, d)[p].readers = P[p].readers + Unit(d, ReadEnd(p))
              /\ Clone(P, d)[p].writers = P[p].writers + Unit(d, WriteEnd(p))
              /\ Clone(P, d)[p].length = P[p].length
<1> DEFINE Q == Clone(P, d)
<1>1. \A p \in Pipes : /\ P[p] \in Pipe
                       /\ P[p].readers \in Nat /\ P[p].writers \in Nat
  BY Zenon DEF PipeStates, Pipe
<1>2. ASSUME NEW q \in Pipes, d = ReadEnd(q), d.kind = "PipeRead", d.pipe = q
      PROVE  /\ Q \in PipeStates
             /\ \A p \in Pipes : /\ Q[p].readers = P[p].readers + Unit(d, ReadEnd(p))
                                 /\ Q[p].writers = P[p].writers + Unit(d, WriteEnd(p))
                                 /\ Q[p].length = P[p].length
  <2>1. Q = [P EXCEPT ![q] = [P[q] EXCEPT !.readers = P[q].readers + 1]]
    BY <1>2, Zenon DEF Clone
  <2>2. [P[q] EXCEPT !.readers = P[q].readers + 1] \in Pipe
    BY <1>1 DEF Pipe
  <2>3. /\ Q \in PipeStates
        /\ Q[q] = [P[q] EXCEPT !.readers = P[q].readers + 1]
        /\ \A p \in Pipes \ {q} : Q[p] = P[p]
    BY <2>1, <2>2, Zenon DEF PipeStates
  <2>4. /\ Q[q].readers = P[q].readers + 1 /\ Q[q].writers = P[q].writers
        /\ Q[q].length = P[q].length
    BY <1>1, <2>3, Zenon DEF Pipe
  <2> HIDE DEF Q
  <2>5. ASSUME NEW p \in Pipes
        PROVE  /\ Q[p].readers = P[p].readers + Unit(d, ReadEnd(p))
               /\ Q[p].writers = P[p].writers + Unit(d, WriteEnd(p))
               /\ Q[p].length = P[p].length
    <3>1. Unit(d, WriteEnd(p)) = 0 /\ Unit(d, ReadEnd(p)) = IF p = q THEN 1 ELSE 0
      BY <1>2, Ends, Zenon DEF Unit
    <3>2. CASE p = q
      BY <1>1, <2>4, <3>1, <3>2
    <3>3. CASE p # q
      <4>1. Q[p] = P[p]
        BY <2>3, <3>3, Zenon
      <4>2. QED BY <1>1, <3>1, <3>3, <4>1
    <3>4. QED BY <3>2, <3>3, Zenon
  <2>6. QED BY <2>3, <2>5, Zenon
<1>3. ASSUME NEW q \in Pipes, d = WriteEnd(q), d.kind = "PipeWrite", d.pipe = q
      PROVE  /\ Q \in PipeStates
             /\ \A p \in Pipes : /\ Q[p].readers = P[p].readers + Unit(d, ReadEnd(p))
                                 /\ Q[p].writers = P[p].writers + Unit(d, WriteEnd(p))
                                 /\ Q[p].length = P[p].length
  <2>1. Q = [P EXCEPT ![q] = [P[q] EXCEPT !.writers = P[q].writers + 1]]
    BY <1>3, Zenon DEF Clone
  <2>2. [P[q] EXCEPT !.writers = P[q].writers + 1] \in Pipe
    BY <1>1 DEF Pipe
  <2>3. /\ Q \in PipeStates
        /\ Q[q] = [P[q] EXCEPT !.writers = P[q].writers + 1]
        /\ \A p \in Pipes \ {q} : Q[p] = P[p]
    BY <2>1, <2>2, Zenon DEF PipeStates
  <2>4. /\ Q[q].readers = P[q].readers /\ Q[q].writers = P[q].writers + 1
        /\ Q[q].length = P[q].length
    BY <1>1, <2>3, Zenon DEF Pipe
  <2> HIDE DEF Q
  <2>5. ASSUME NEW p \in Pipes
        PROVE  /\ Q[p].readers = P[p].readers + Unit(d, ReadEnd(p))
               /\ Q[p].writers = P[p].writers + Unit(d, WriteEnd(p))
               /\ Q[p].length = P[p].length
    <3>1. Unit(d, ReadEnd(p)) = 0 /\ Unit(d, WriteEnd(p)) = IF p = q THEN 1 ELSE 0
      BY <1>3, Ends, Zenon DEF Unit
    <3>2. CASE p = q
      BY <1>1, <2>4, <3>1, <3>2
    <3>3. CASE p # q
      <4>1. Q[p] = P[p]
        BY <2>3, <3>3, Zenon
      <4>2. QED BY <1>1, <3>1, <3>3, <4>1
    <3>4. QED BY <3>2, <3>3, Zenon
  <2>6. QED BY <2>3, <2>5, Zenon
<1>4. CASE /\ d.kind \notin {"PipeRead", "PipeWrite"}
           /\ \A p : d # ReadEnd(p) /\ d # WriteEnd(p)
  <2>1. Q = P
    BY <1>4, Zenon DEF Clone
  <2>2. \A p \in Pipes : Unit(d, ReadEnd(p)) = 0 /\ Unit(d, WriteEnd(p)) = 0
    BY <1>4, Zenon DEF Unit
  <2>3. QED BY <1>1, <2>1, <2>2
<1>5. QED BY <1>2, <1>3, <1>4, Kinds, Zenon

\* Dropping a descriptor that the counts include uncounts it, and leaves the
\* bytes of a pipe that others (B) hold alone.
Includes(P, d, B) ==
  \A p \in Pipes : /\ P[p].readers >= B[p].readers + Unit(d, ReadEnd(p))
                   /\ P[p].writers >= B[p].writers + Unit(d, WriteEnd(p))

Dropped(P, Q, d, B) ==
  /\ Q \in PipeStates
  /\ \A p \in Pipes :
       /\ Q[p].readers = P[p].readers - Unit(d, ReadEnd(p))
       /\ Q[p].writers = P[p].writers - Unit(d, WriteEnd(p))
       /\ B[p].readers # 0 \/ B[p].writers # 0 => Q[p].length = P[p].length

\* A pipe that is freed was held by nobody.
LEMMA FreedPipe ==
  ASSUME NEW q \in Pipe
  PROVE  /\ Freed(q) \in Pipe
         /\ Freed(q).readers = q.readers /\ Freed(q).writers = q.writers
         /\ q.readers # 0 \/ q.writers # 0 => Freed(q).length = q.length
<1>1. NoPipe \in Pipe /\ NoPipe.readers = 0 /\ NoPipe.writers = 0
  BY FileDescriptorsAssumption DEF NoPipe, Pipe
<1>2. QED BY <1>1, Zenon DEF Freed

\* The drop of a descriptor takes it out of its pipe's count, and a pipe nobody
\* holds any more is freed.
LEMMA DropCounts ==
  ASSUME NEW P \in PipeStates, NEW d \in FileDescriptor, NEW B \in PipeStates,
         Includes(P, d, B)
  PROVE  Dropped(P, Drop(P, d), d, B)
<1> DEFINE Q == Drop(P, d)
<1>1. \A p \in Pipes : /\ P[p] \in Pipe
                       /\ P[p].readers \in Nat /\ P[p].writers \in Nat
                       /\ B[p].readers \in Nat /\ B[p].writers \in Nat
  BY Zenon DEF PipeStates, Pipe
<1>2. ASSUME NEW q \in Pipes, d = ReadEnd(q), d.kind = "PipeRead", d.pipe = q
      PROVE  Dropped(P, Q, d, B)
  <2> DEFINE r == [P[q] EXCEPT !.readers = SaturatingDec(P[q].readers)]
  <2>1. Q = [P EXCEPT ![q] = Freed(r)]
    <3>1. DropReader(P[q]) = Freed(r)
      BY Zenon DEF DropReader
    <3>2. Q = [P EXCEPT ![q] = DropReader(P[q])]
      BY <1>2, Zenon DEF Drop
    <3>3. QED BY <3>1, <3>2, Zenon
  <2>2. ASSUME NEW p \in Pipes
        PROVE  Unit(d, WriteEnd(p)) = 0 /\ Unit(d, ReadEnd(p)) = IF p = q THEN 1 ELSE 0
    BY <1>2, Ends, Zenon DEF Unit
  <2>3. P[q].readers >= B[q].readers + 1 /\ P[q].writers >= B[q].writers
    BY <1>1, <2>2 DEF Includes
  <2>4. SaturatingDec(P[q].readers) = P[q].readers - 1 /\ P[q].readers - 1 \in Nat
    BY <1>1, <2>3 DEF SaturatingDec
  <2>5. /\ r \in Pipe /\ r.readers = P[q].readers - 1 /\ r.writers = P[q].writers
        /\ r.length = P[q].length
    BY <1>1, <2>4, Zenon DEF Pipe
  <2> HIDE DEF r
  <2>6. /\ Q \in PipeStates /\ Q[q] = Freed(r) /\ \A p \in Pipes \ {q} : Q[p] = P[p]
    BY <2>1, <2>5, FreedPipe, Zenon DEF PipeStates
  <2>7. /\ Q[q].readers = P[q].readers - 1 /\ Q[q].writers = P[q].writers
        /\ P[q].readers - 1 # 0 \/ P[q].writers # 0 => Q[q].length = P[q].length
    <3>1. /\ Freed(r).readers = r.readers /\ Freed(r).writers = r.writers
          /\ r.readers # 0 \/ r.writers # 0 => Freed(r).length = r.length
      <4>1. r \in Pipe
        BY <2>5, Zenon
      <4>2. QED BY ONLY <4>1, FreedPipe, Zenon
    <3>2. QED BY <2>5, <2>6, <3>1, Zenon
  <2> HIDE DEF Q
  <2>8. B[q].readers # 0 \/ B[q].writers # 0 => Q[q].length = P[q].length
    BY <1>1, <2>3, <2>7
  <2>9. ASSUME NEW p \in Pipes
        PROVE  /\ Q[p].readers = P[p].readers - Unit(d, ReadEnd(p))
               /\ Q[p].writers = P[p].writers - Unit(d, WriteEnd(p))
               /\ B[p].readers # 0 \/ B[p].writers # 0 => Q[p].length = P[p].length
    BY <1>1, <2>2, <2>6, <2>7, <2>8
  <2>10. QED BY <2>6, <2>9, Zenon DEF Dropped
<1>3. ASSUME NEW q \in Pipes, d = WriteEnd(q), d.kind = "PipeWrite", d.pipe = q
      PROVE  Dropped(P, Q, d, B)
  <2> DEFINE r == [P[q] EXCEPT !.writers = SaturatingDec(P[q].writers)]
  <2>1. Q = [P EXCEPT ![q] = Freed(r)]
    <3>1. DropWriter(P[q]) = Freed(r)
      BY Zenon DEF DropWriter
    <3>2. Q = [P EXCEPT ![q] = DropWriter(P[q])]
      BY <1>3, Zenon DEF Drop
    <3>3. QED BY <3>1, <3>2, Zenon
  <2>2. ASSUME NEW p \in Pipes
        PROVE  Unit(d, ReadEnd(p)) = 0 /\ Unit(d, WriteEnd(p)) = IF p = q THEN 1 ELSE 0
    BY <1>3, Ends, Zenon DEF Unit
  <2>3. P[q].writers >= B[q].writers + 1 /\ P[q].readers >= B[q].readers
    BY <1>1, <2>2 DEF Includes
  <2>4. SaturatingDec(P[q].writers) = P[q].writers - 1 /\ P[q].writers - 1 \in Nat
    BY <1>1, <2>3 DEF SaturatingDec
  <2>5. /\ r \in Pipe /\ r.writers = P[q].writers - 1 /\ r.readers = P[q].readers
        /\ r.length = P[q].length
    BY <1>1, <2>4, Zenon DEF Pipe
  <2> HIDE DEF r
  <2>6. /\ Q \in PipeStates /\ Q[q] = Freed(r) /\ \A p \in Pipes \ {q} : Q[p] = P[p]
    BY <2>1, <2>5, FreedPipe, Zenon DEF PipeStates
  <2>7. /\ Q[q].writers = P[q].writers - 1 /\ Q[q].readers = P[q].readers
        /\ P[q].writers - 1 # 0 \/ P[q].readers # 0 => Q[q].length = P[q].length
    <3>1. /\ Freed(r).readers = r.readers /\ Freed(r).writers = r.writers
          /\ r.readers # 0 \/ r.writers # 0 => Freed(r).length = r.length
      <4>1. r \in Pipe
        BY <2>5, Zenon
      <4>2. QED BY ONLY <4>1, FreedPipe, Zenon
    <3>2. QED BY <2>5, <2>6, <3>1, Zenon
  <2> HIDE DEF Q
  <2>8. B[q].readers # 0 \/ B[q].writers # 0 => Q[q].length = P[q].length
    BY <1>1, <2>3, <2>7
  <2>9. ASSUME NEW p \in Pipes
        PROVE  /\ Q[p].readers = P[p].readers - Unit(d, ReadEnd(p))
               /\ Q[p].writers = P[p].writers - Unit(d, WriteEnd(p))
               /\ B[p].readers # 0 \/ B[p].writers # 0 => Q[p].length = P[p].length
    BY <1>1, <2>2, <2>6, <2>7, <2>8
  <2>10. QED BY <2>6, <2>9, Zenon DEF Dropped
<1>4. CASE /\ d.kind \notin {"PipeRead", "PipeWrite"}
           /\ \A p : d # ReadEnd(p) /\ d # WriteEnd(p)
  <2>1. Q = P
    BY <1>4, Zenon DEF Drop
  <2>2. \A p \in Pipes : Unit(d, ReadEnd(p)) = 0 /\ Unit(d, WriteEnd(p)) = 0
    BY <1>4, Zenon DEF Unit
  <2>3. QED BY <1>1, <2>1, <2>2 DEF Dropped
<1>5. QED BY <1>2, <1>3, <1>4, Kinds, Zenon

\* The counts of a table's holder include each of its descriptors.
LEMMA Included ==
  ASSUME NEW B \in PipeStates, NEW s, Accounts(s, B), NEW f \in Fds
  PROVE  /\ s.table \in FdTable /\ s.pipes \in PipeStates /\ s.table[f] \in FileDescriptor
         /\ Includes(s.pipes, s.table[f], B)
<1>1. s.table \in FdTable /\ s.pipes \in PipeStates /\ s.table[f] \in FileDescriptor
  BY Zenon DEF Accounts, FdStates, FdTable
<1>2. ASSUME NEW p \in Pipes
      PROVE  /\ s.pipes[p].readers >= B[p].readers + Unit(s.table[f], ReadEnd(p))
             /\ s.pipes[p].writers >= B[p].writers + Unit(s.table[f], WriteEnd(p))
  <2>1. B[p].readers \in Nat /\ B[p].writers \in Nat
    BY Zenon DEF PipeStates, Pipe
  <2>2. /\ Count(s.table, ReadEnd(p)) >= Unit(s.table[f], ReadEnd(p))
        /\ Count(s.table, WriteEnd(p)) >= Unit(s.table[f], WriteEnd(p))
        /\ Count(s.table, ReadEnd(p)) \in Nat /\ Count(s.table, WriteEnd(p)) \in Nat
    BY <1>1, CountIncludes, CountType, Zenon
  <2>3. /\ s.pipes[p].readers = B[p].readers + Count(s.table, ReadEnd(p))
        /\ s.pipes[p].writers = B[p].writers + Count(s.table, WriteEnd(p))
    BY Zenon DEF Accounts
  <2>4. Unit(s.table[f], ReadEnd(p)) \in Nat /\ Unit(s.table[f], WriteEnd(p)) \in Nat
    BY Zenon DEF Unit
  <2>5. QED BY <2>1, <2>2, <2>3, <2>4
<1>3. QED BY <1>1, <1>2, Zenon DEF Includes

\* A descriptor is taken out of the table and dropped.
LEMMA TakeAccounts ==
  ASSUME NEW B \in PipeStates, NEW s, Accounts(s, B), NEW f \in Fds
  PROVE  Accounts(TakeFd(s, f), B)
<1> DEFINE old == s.table[f]
           t == [s.table EXCEPT ![f] = Closed]
           Q == Drop(s.pipes, old)
<1>1. TakeFd(s, f) = [table |-> t, pipes |-> Q]
  BY Zenon DEF TakeFd
<1>2. /\ s.table \in FdTable /\ s.pipes \in PipeStates /\ old \in FileDescriptor
      /\ Includes(s.pipes, old, B)
  BY Included, Zenon
<1>3. Dropped(s.pipes, Q, old, B)
  BY <1>2, DropCounts, Zenon
<1>4. t \in FdTable
  BY <1>2, Ends, Zenon DEF FdTable
<1>5. ASSUME NEW p \in Pipes
      PROVE  /\ Count(t, ReadEnd(p)) = Count(s.table, ReadEnd(p)) - Unit(old, ReadEnd(p))
             /\ Count(t, WriteEnd(p)) = Count(s.table, WriteEnd(p)) - Unit(old, WriteEnd(p))
  <2>1. Unit(Closed, ReadEnd(p)) = 0 /\ Unit(Closed, WriteEnd(p)) = 0
    BY Ends, Zenon DEF Unit
  <2>2. /\ Count(t, ReadEnd(p)) =
             Count(s.table, ReadEnd(p)) - Unit(old, ReadEnd(p)) + Unit(Closed, ReadEnd(p))
        /\ Count(t, WriteEnd(p)) =
             Count(s.table, WriteEnd(p)) - Unit(old, WriteEnd(p)) + Unit(Closed, WriteEnd(p))
    BY <1>2, CountStore
  <2>3. /\ Count(s.table, ReadEnd(p)) \in Nat /\ Count(s.table, WriteEnd(p)) \in Nat
        /\ Unit(old, ReadEnd(p)) \in Nat /\ Unit(old, WriteEnd(p)) \in Nat
    BY CountType, Zenon DEF Unit
  <2>4. QED BY <2>1, <2>2, <2>3
<1> HIDE DEF old, t, Q
<1>6. ASSUME NEW p \in Pipes
      PROVE  /\ Q[p].readers = B[p].readers + Count(t, ReadEnd(p))
             /\ Q[p].writers = B[p].writers + Count(t, WriteEnd(p))
             /\ B[p].readers # 0 \/ B[p].writers # 0 => Q[p].length = B[p].length
  <2>1. B[p].readers \in Nat /\ B[p].writers \in Nat
    BY Zenon DEF PipeStates, Pipe
  <2>2. /\ Count(s.table, ReadEnd(p)) \in Nat /\ Count(s.table, WriteEnd(p)) \in Nat
        /\ Unit(old, ReadEnd(p)) \in Nat /\ Unit(old, WriteEnd(p)) \in Nat
    BY CountType, Zenon DEF Unit
  <2>3. /\ s.pipes[p].readers = B[p].readers + Count(s.table, ReadEnd(p))
        /\ s.pipes[p].writers = B[p].writers + Count(s.table, WriteEnd(p))
        /\ B[p].readers # 0 \/ B[p].writers # 0 => s.pipes[p].length = B[p].length
    BY Zenon DEF Accounts
  <2>4. /\ Q[p].readers = s.pipes[p].readers - Unit(old, ReadEnd(p))
        /\ Q[p].writers = s.pipes[p].writers - Unit(old, WriteEnd(p))
        /\ B[p].readers # 0 \/ B[p].writers # 0 => Q[p].length = s.pipes[p].length
    BY <1>3, Zenon DEF Dropped
  <2>5. /\ B[p].readers # 0 \/ B[p].writers # 0 => Q[p].length = B[p].length
    BY <2>3, <2>4, Zenon
  <2>6. QED BY <1>5, <2>1, <2>2, <2>3, <2>4, <2>5
<1>7. Q \in PipeStates
  BY <1>3, Zenon DEF Dropped
<1>8. QED BY <1>1, <1>4, <1>6, <1>7 DEF Accounts, FdStates

\* A descriptor is copied over another one.
LEMMA DupAccounts ==
  ASSUME NEW B \in PipeStates, NEW s, Accounts(s, B), NEW source \in Fds, NEW target \in Fds
  PROVE  Accounts(DupInto(s, source, target), B)
<1> DEFINE d == s.table[source]
           old == s.table[target]
           t == [s.table EXCEPT ![target] = d]
           P == Clone(s.pipes, d)
           Q == Drop(P, old)
<1>1. DupInto(s, source, target) = [table |-> t, pipes |-> Q]
  BY Zenon DEF DupInto
<1>2. /\ s.table \in FdTable /\ s.pipes \in PipeStates /\ old \in FileDescriptor
      /\ d \in FileDescriptor /\ Includes(s.pipes, old, B)
  BY Included, Zenon
<1>3. /\ P \in PipeStates
      /\ \A p \in Pipes : /\ P[p].readers = s.pipes[p].readers + Unit(d, ReadEnd(p))
                          /\ P[p].writers = s.pipes[p].writers + Unit(d, WriteEnd(p))
                          /\ P[p].length = s.pipes[p].length
  BY <1>2, CloneCounts, Zenon
<1>4. t \in FdTable
  BY <1>2, Zenon DEF FdTable
<1>5. ASSUME NEW p \in Pipes
      PROVE  /\ Count(t, ReadEnd(p)) =
                  Count(s.table, ReadEnd(p)) - Unit(old, ReadEnd(p)) + Unit(d, ReadEnd(p))
             /\ Count(t, WriteEnd(p)) =
                  Count(s.table, WriteEnd(p)) - Unit(old, WriteEnd(p)) + Unit(d, WriteEnd(p))
  BY <1>2, CountStore
<1>6. ASSUME NEW p \in Pipes
      PROVE  /\ B[p].readers \in Nat /\ B[p].writers \in Nat
             /\ s.pipes[p].readers \in Nat /\ s.pipes[p].writers \in Nat
             /\ Count(s.table, ReadEnd(p)) \in Nat /\ Count(s.table, WriteEnd(p)) \in Nat
             /\ Unit(old, ReadEnd(p)) \in Nat /\ Unit(old, WriteEnd(p)) \in Nat
             /\ Unit(d, ReadEnd(p)) \in Nat /\ Unit(d, WriteEnd(p)) \in Nat
  <2>1. /\ B[p].readers \in Nat /\ B[p].writers \in Nat
        /\ s.pipes[p].readers \in Nat /\ s.pipes[p].writers \in Nat
    BY <1>2, Zenon DEF PipeStates, Pipe
  <2>2. QED BY <2>1, CountType, Zenon DEF Unit
<1> HIDE DEF old, t, P, Q, d
<1>7. Includes(P, old, B)
  <2>1. ASSUME NEW p \in Pipes
        PROVE  /\ P[p].readers >= B[p].readers + Unit(old, ReadEnd(p))
               /\ P[p].writers >= B[p].writers + Unit(old, WriteEnd(p))
    <3>1. /\ s.pipes[p].readers >= B[p].readers + Unit(old, ReadEnd(p))
          /\ s.pipes[p].writers >= B[p].writers + Unit(old, WriteEnd(p))
      BY <1>2, Zenon DEF Includes
    <3>2. QED BY <1>3, <1>6, <3>1
  <2>2. QED BY <2>1, Zenon DEF Includes
<1>8. Dropped(P, Q, old, B)
  BY <1>2, <1>3, <1>7, DropCounts, Zenon DEF Q
<1>9. ASSUME NEW p \in Pipes
      PROVE  /\ Q[p].readers = B[p].readers + Count(t, ReadEnd(p))
             /\ Q[p].writers = B[p].writers + Count(t, WriteEnd(p))
             /\ B[p].readers # 0 \/ B[p].writers # 0 => Q[p].length = B[p].length
  <2>1. /\ s.pipes[p].readers = B[p].readers + Count(s.table, ReadEnd(p))
        /\ s.pipes[p].writers = B[p].writers + Count(s.table, WriteEnd(p))
        /\ B[p].readers # 0 \/ B[p].writers # 0 => s.pipes[p].length = B[p].length
    BY Zenon DEF Accounts
  <2>2. /\ Q[p].readers = P[p].readers - Unit(old, ReadEnd(p))
        /\ Q[p].writers = P[p].writers - Unit(old, WriteEnd(p))
        /\ B[p].readers # 0 \/ B[p].writers # 0 => Q[p].length = P[p].length
    BY <1>8, Zenon DEF Dropped
  <2>3. B[p].readers # 0 \/ B[p].writers # 0 => Q[p].length = B[p].length
    BY <1>3, <2>1, <2>2, Zenon
  <2>4. /\ P[p].readers = s.pipes[p].readers + Unit(d, ReadEnd(p))
        /\ P[p].writers = s.pipes[p].writers + Unit(d, WriteEnd(p))
    BY <1>3, Zenon
  <2>5. QED BY <1>5, <1>6, <2>1, <2>2, <2>3, <2>4
<1>10. Q \in PipeStates
  BY <1>8, Zenon DEF Dropped
<1>11. QED BY <1>1, <1>4, <1>9, <1>10 DEF Accounts, FdStates

-----------------------------------------------------------------------------
(***************************************************************************)
(* Loops.  A loop of the code is a recursive function on 0..n: what it has *)
(* computed after so many rounds.  There is such a function (Loop), and    *)
(* what a round preserves holds after all of them (Rounds).                *)
(***************************************************************************)
\* What holds at 0 and from one number to the next holds up to n.
LEMMA Rounds ==
  ASSUME NEW n \in Nat, NEW G, 0 \in G,
         \A k \in 1..n : k - 1 \in G => k \in G
  PROVE  \A k \in 0..n : k \in G
<1> DEFINE Bad == {k \in 0..n : k \notin G}
<1> SUFFICES ASSUME Bad # {} PROVE FALSE
  BY Zenon
<1>0. Bad \in SUBSET Nat
  OBVIOUS
<1>1. PICK k \in Bad : \A j \in Bad : k <= j
  <2> HIDE DEF Bad
  <2> DEFINE R == {p \in Nat \X Nat : p[1] < p[2]}
  <2>1. IsWellFoundedOn(R, Nat)
    BY NatLessThanWellFounded, Zenon DEF OpToRel
  <2>2. PICK k \in Bad : \A j \in Bad : ~(<<j, k>> \in R)
    <3> HIDE DEF R
    <3> QED BY <1>0, <2>1, WFMin, Zenon
  <2>3. ASSUME NEW j \in Bad PROVE k <= j
    <3>1. j < k => <<j, k>> \in R
      BY <1>0, Zenon
    <3>2. QED BY <1>0, <2>2, <3>1
  <2>4. QED BY <2>3, Zenon
<1>2. k \in 1..n /\ k - 1 \in 0..n
  BY <1>1
<1>3. k - 1 \notin Bad
  BY <1>1, <1>2
<1>4. QED BY <1>1, <1>2, <1>3, Zenon

\* step[k][x] is what round k makes of x, and f[k] what the first k rounds make of it.
Steps(n, S) == [1..n -> [S -> S]]

Runs(f, n, x, step) == f[0] = x /\ \A k \in 1..n : f[k] = step[k][f[k - 1]]

\* A loop of n rounds runs.
LEMMA Loop ==
  ASSUME NEW n \in Nat, NEW S, NEW x \in S, NEW step \in Steps(n, S)
  PROVE  \E f \in [0..n -> S] : Runs(f, n, x, step)
<1> DEFINE G == {m \in 0..n : \E f \in [0..m -> S] : Runs(f, m, x, step)}
<1>1. 0 \in G
  <2> DEFINE f == [k \in 0..0 |-> x]
  <2>1. f \in [0..0 -> S] /\ Runs(f, 0, x, step)
    BY DEF Runs
  <2>2. 0 \in 0..n
    OBVIOUS
  <2> HIDE DEF f
  <2>3. QED BY <2>1, <2>2, Zenon
<1>2. ASSUME NEW m \in 1..n, m - 1 \in G PROVE m \in G
  <2>1. PICK f \in [0..(m - 1) -> S] : Runs(f, m - 1, x, step)
    BY <1>2, Zenon
  <2> DEFINE y == step[m][f[m - 1]]
             g == [k \in 0..m |-> IF k = m THEN y ELSE f[k]]
  <2>2. f[m - 1] \in S
    OBVIOUS
  <2>3. y \in S
    BY <2>2, Zenon DEF Steps
  <2> HIDE DEF y
  <2>4. g \in [0..m -> S]
    BY <2>3
  <2>5. g[0] = x
    BY <2>1 DEF Runs
  <2>6. ASSUME NEW k \in 1..m PROVE g[k] = step[k][g[k - 1]]
    <3>1. CASE k = m
      <4>1. g[k] = y /\ g[k - 1] = f[m - 1]
        BY <3>1
      <4> HIDE DEF g
      <4>2. QED BY <3>1, <4>1, Zenon DEF y
    <3>2. CASE k # m
      <4>1. g[k] = f[k] /\ g[k - 1] = f[k - 1] /\ k \in 1..(m - 1)
        BY <3>2
      <4> HIDE DEF g
      <4>2. f[k] = step[k][f[k - 1]]
        BY <2>1, <4>1, Zenon DEF Runs
      <4>3. QED BY <4>1, <4>2, Zenon
    <3>3. QED BY <3>1, <3>2, Zenon
  <2> HIDE DEF g
  <2>7. Runs(g, m, x, step)
    BY <2>5, <2>6, Zenon DEF Runs
  <2>8. m \in 0..n
    OBVIOUS
  <2>9. QED BY <2>4, <2>7, <2>8, Zenon
<1>3. n \in G
  <2> HIDE DEF G
  <2>1. \A m \in 0..n : m \in G
    BY <1>1, <1>2, Rounds, Zenon
  <2>2. QED BY <2>1
<1>4. QED BY <1>3, Zenon

\* CloneTable, round by round.
LEMMA CloneTableRounds ==
  ASSUME NEW P \in PipeStates, NEW t \in FdTable
  PROVE  \E f : /\ f[0] = P /\ f[MAX_FDS] = CloneTable(P, t)
                /\ \A n \in 1..MAX_FDS : f[n] = Clone(f[n - 1], t[n - 1])
<1> DEFINE Eqn(f) == f = [n \in 0..MAX_FDS |-> IF n = 0 THEN P ELSE Clone(f[n - 1], t[n - 1])]
           step == [n \in 1..MAX_FDS |-> [Q \in PipeStates |-> Clone(Q, t[n - 1])]]
<1>1. MAX_FDS \in Nat /\ \A n \in 1..MAX_FDS : n - 1 \in Fds /\ n - 1 \in 0..MAX_FDS
  BY FileDescriptorsAssumption DEF Fds
<1>2. \A n \in 1..MAX_FDS : t[n - 1] \in FileDescriptor
  BY <1>1, Zenon DEF FdTable
<1>3. step \in Steps(MAX_FDS, PipeStates)
  BY <1>2, CloneCounts, Zenon DEF Steps
<1>3a. \A n \in 1..MAX_FDS, Q \in PipeStates : step[n][Q] = Clone(Q, t[n - 1])
  BY Zenon
<1> HIDE DEF step
<1>4. PICK g \in [0..MAX_FDS -> PipeStates] : Runs(g, MAX_FDS, P, step)
  <2>1. MAX_FDS \in Nat
    BY <1>1, Zenon
  <2>2. QED BY <1>3, <2>1, Loop, Zenon
<1>5. \A n \in 1..MAX_FDS : g[n] = Clone(g[n - 1], t[n - 1])
  BY <1>1, <1>3a, <1>4, Zenon DEF Runs
<1>6. Eqn(g)
  BY <1>1, <1>4, <1>5 DEF Runs
<1> DEFINE f == CHOOSE h : Eqn(h)
<1>7. Eqn(f)
  <2> HIDE DEF Eqn
  <2>1. QED BY <1>6, Zenon
<1>8. CloneTable(P, t) = f[MAX_FDS]
  BY Zenon DEF CloneTable
<1> HIDE DEF f
<1>9. f[0] = P /\ \A n \in 1..MAX_FDS : f[n] = Clone(f[n - 1], t[n - 1])
  BY <1>1, <1>7
<1>10. QED BY <1>8, <1>9, Zenon

\* A copied table: what is counted on top of P is what the copy holds.
LEMMA CloneTableAccounts ==
  ASSUME NEW P \in PipeStates, NEW t \in FdTable
  PROVE  Accounts([table |-> t, pipes |-> CloneTable(P, t)], P)
<1>1. PICK f : /\ f[0] = P /\ f[MAX_FDS] = CloneTable(P, t)
               /\ \A n \in 1..MAX_FDS : f[n] = Clone(f[n - 1], t[n - 1])
  BY CloneTableRounds, Zenon
<1> DEFINE Good(n) ==
             /\ f[n] \in PipeStates
             /\ \A p \in Pipes :
                  /\ f[n][p].readers = P[p].readers + CountTo(t, n, ReadEnd(p))
                  /\ f[n][p].writers = P[p].writers + CountTo(t, n, WriteEnd(p))
                  /\ f[n][p].length = P[p].length
           G == {n \in 0..MAX_FDS : Good(n)}
<1>2. \A p \in Pipes : P[p].readers \in Nat /\ P[p].writers \in Nat
  BY Zenon DEF PipeStates, Pipe
<1>3. MAX_FDS \in Nat
  BY FileDescriptorsAssumption, Zenon
<1>4. 0 \in G
  <2>1. Good(0)
    BY <1>1, <1>2, CountToStep
  <2>2. QED BY <1>3, <2>1
<1>5. ASSUME NEW n \in 1..MAX_FDS, n - 1 \in G PROVE n \in G
  <2>1. t[n - 1] \in FileDescriptor
    BY <1>3 DEF FdTable, Fds
  <2>2. Good(n - 1)
    BY <1>5, Zenon
  <2>3. f[n] = Clone(f[n - 1], t[n - 1])
    BY <1>1, Zenon
  <2>4. /\ f[n] \in PipeStates
        /\ \A p \in Pipes :
             /\ f[n][p].readers = f[n - 1][p].readers + Unit(t[n - 1], ReadEnd(p))
             /\ f[n][p].writers = f[n - 1][p].writers + Unit(t[n - 1], WriteEnd(p))
             /\ f[n][p].length = f[n - 1][p].length
    BY <2>1, <2>2, <2>3, CloneCounts
  <2>5. ASSUME NEW p \in Pipes
        PROVE  /\ f[n][p].readers = P[p].readers + CountTo(t, n, ReadEnd(p))
               /\ f[n][p].writers = P[p].writers + CountTo(t, n, WriteEnd(p))
               /\ f[n][p].length = P[p].length
    <3>2. Unit(t[n - 1], ReadEnd(p)) \in Nat /\ Unit(t[n - 1], WriteEnd(p)) \in Nat
      BY Zenon DEF Unit
    <3>1. /\ CountTo(t, n, ReadEnd(p)) = CountTo(t, n - 1, ReadEnd(p)) + Unit(t[n - 1], ReadEnd(p))
          /\ CountTo(t, n, WriteEnd(p)) = CountTo(t, n - 1, WriteEnd(p)) + Unit(t[n - 1], WriteEnd(p))
          /\ CountTo(t, n - 1, ReadEnd(p)) \in Nat /\ CountTo(t, n - 1, WriteEnd(p)) \in Nat
      BY CountToNext, Zenon
    <3>3. /\ f[n - 1][p].readers = P[p].readers + CountTo(t, n - 1, ReadEnd(p))
          /\ f[n - 1][p].writers = P[p].writers + CountTo(t, n - 1, WriteEnd(p))
          /\ f[n - 1][p].length = P[p].length
      BY <2>2, Zenon
    <3>4. QED BY <1>2, <2>4, <3>1, <3>2, <3>3
  <2>6. Good(n)
    BY <2>4, <2>5, Zenon
  <2>7. QED BY <1>3, <2>6
<1>6. Good(MAX_FDS)
  <2>1. MAX_FDS \in G
    <3> HIDE DEF G
    <3>1. \A n \in 0..MAX_FDS : n \in G
      BY <1>3, <1>4, <1>5, Rounds, Zenon
    <3>2. QED BY <1>3, <3>1
  <2>2. QED BY <2>1, Zenon
<1>7. \A p \in Pipes : /\ CountTo(t, MAX_FDS, ReadEnd(p)) = Count(t, ReadEnd(p))
                       /\ CountTo(t, MAX_FDS, WriteEnd(p)) = Count(t, WriteEnd(p))
  BY CountToStep, Zenon
<1>8. QED BY <1>1, <1>6, <1>7, Zenon DEF Accounts, FdStates

\* Dropping keeps the types, whatever is dropped.
LEMMA DropType ==
  ASSUME NEW P \in PipeStates, NEW d \in FileDescriptor
  PROVE  Drop(P, d) \in PipeStates
<1>1. ASSUME NEW q \in Pipes
      PROVE  DropReader(P[q]) \in Pipe /\ DropWriter(P[q]) \in Pipe
  <2>1. P[q] \in Pipe /\ SaturatingDec(P[q].readers) \in Nat /\ SaturatingDec(P[q].writers) \in Nat
    BY DEF PipeStates, Pipe, SaturatingDec
  <2>2. /\ [P[q] EXCEPT !.readers = SaturatingDec(P[q].readers)] \in Pipe
        /\ [P[q] EXCEPT !.writers = SaturatingDec(P[q].writers)] \in Pipe
    BY <2>1, Zenon DEF Pipe
  <2>3. QED BY <2>2, FreedPipe, Zenon DEF DropReader, DropWriter
<1>2. ASSUME NEW q \in Pipes, d.kind = "PipeRead", d.pipe = q PROVE Drop(P, d) \in PipeStates
  BY <1>1, <1>2, Zenon DEF Drop, PipeStates
<1>3. ASSUME NEW q \in Pipes, d.kind = "PipeWrite", d.pipe = q PROVE Drop(P, d) \in PipeStates
  BY <1>1, <1>3, Zenon DEF Drop, PipeStates
<1>4. CASE d.kind \notin {"PipeRead", "PipeWrite"}
  BY <1>4, Zenon DEF Drop
<1>5. QED BY <1>2, <1>3, <1>4, Kinds, Zenon

\* DropTable, round by round.
LEMMA DropTableRounds ==
  ASSUME NEW P \in PipeStates, NEW t \in FdTable
  PROVE  \E f : /\ f[0] = P /\ f[MAX_FDS] = DropTable(P, t)
                /\ \A n \in 1..MAX_FDS : f[n] = Drop(f[n - 1], t[n - 1])
<1> DEFINE Eqn(f) == f = [n \in 0..MAX_FDS |-> IF n = 0 THEN P ELSE Drop(f[n - 1], t[n - 1])]
           step == [n \in 1..MAX_FDS |-> [Q \in PipeStates |-> Drop(Q, t[n - 1])]]
<1>1. MAX_FDS \in Nat /\ \A n \in 1..MAX_FDS : n - 1 \in Fds /\ n - 1 \in 0..MAX_FDS
  BY FileDescriptorsAssumption DEF Fds
<1>2. \A n \in 1..MAX_FDS : t[n - 1] \in FileDescriptor
  BY <1>1, Zenon DEF FdTable
<1>3. step \in Steps(MAX_FDS, PipeStates)
  BY <1>2, DropType, Zenon DEF Steps
<1>3a. \A n \in 1..MAX_FDS, Q \in PipeStates : step[n][Q] = Drop(Q, t[n - 1])
  BY Zenon
<1> HIDE DEF step
<1>4. PICK g \in [0..MAX_FDS -> PipeStates] : Runs(g, MAX_FDS, P, step)
  <2>1. MAX_FDS \in Nat
    BY <1>1, Zenon
  <2>2. QED BY <1>3, <2>1, Loop, Zenon
<1>5. \A n \in 1..MAX_FDS : g[n] = Drop(g[n - 1], t[n - 1])
  BY <1>1, <1>3a, <1>4, Zenon DEF Runs
<1>6. Eqn(g)
  BY <1>1, <1>4, <1>5 DEF Runs
<1> DEFINE f == CHOOSE h : Eqn(h)
<1>7. Eqn(f)
  <2> HIDE DEF Eqn
  <2>1. QED BY <1>6, Zenon
<1>8. DropTable(P, t) = f[MAX_FDS]
  BY Zenon DEF DropTable
<1> HIDE DEF f
<1>9. f[0] = P /\ \A n \in 1..MAX_FDS : f[n] = Drop(f[n - 1], t[n - 1])
  BY <1>1, <1>7
<1>10. QED BY <1>8, <1>9, Zenon

\* A dropped table: what is left is what everybody else holds.
LEMMA DropTableAccounts ==
  ASSUME NEW B \in PipeStates, NEW s, Accounts(s, B)
  PROVE  Accounts([table |-> EmptyTable, pipes |-> DropTable(s.pipes, s.table)], B)
<1> DEFINE P == s.pipes
           t == s.table
<1>1. P \in PipeStates /\ t \in FdTable
  BY Zenon DEF Accounts, FdStates
<1>2. \A p \in Pipes : /\ P[p].readers = B[p].readers + Count(t, ReadEnd(p))
                       /\ P[p].writers = B[p].writers + Count(t, WriteEnd(p))
                       /\ B[p].readers # 0 \/ B[p].writers # 0 => P[p].length = B[p].length
  BY Zenon DEF Accounts
<1> HIDE DEF P, t
<1>3. PICK f : /\ f[0] = P /\ f[MAX_FDS] = DropTable(P, t)
               /\ \A n \in 1..MAX_FDS : f[n] = Drop(f[n - 1], t[n - 1])
  BY <1>1, DropTableRounds, Zenon
<1> DEFINE Good(n) ==
             /\ f[n] \in PipeStates
             /\ \A p \in Pipes :
                  /\ f[n][p].readers = P[p].readers - CountTo(t, n, ReadEnd(p))
                  /\ f[n][p].writers = P[p].writers - CountTo(t, n, WriteEnd(p))
                  /\ B[p].readers # 0 \/ B[p].writers # 0 => f[n][p].length = P[p].length
           G == {n \in 0..MAX_FDS : Good(n)}
<1>4. \A p \in Pipes : /\ P[p].readers \in Nat /\ P[p].writers \in Nat
                       /\ B[p].readers \in Nat /\ B[p].writers \in Nat
  BY <1>1, Zenon DEF PipeStates, Pipe
<1>5. MAX_FDS \in Nat
  BY FileDescriptorsAssumption, Zenon
<1>6. 0 \in G
  <2>1. Good(0)
    BY <1>1, <1>3, <1>4, CountToStep
  <2>2. QED BY <1>5, <2>1
<1>7. ASSUME NEW n \in 1..MAX_FDS, n - 1 \in G PROVE n \in G
  <2>1. t[n - 1] \in FileDescriptor
    BY <1>1, <1>5 DEF FdTable, Fds
  <2>2. Good(n - 1)
    BY <1>7, Zenon
  <2>3. f[n] = Drop(f[n - 1], t[n - 1])
    BY <1>3, Zenon
  <2>4. ASSUME NEW p \in Pipes
        PROVE  /\ CountTo(t, n, ReadEnd(p)) = CountTo(t, n - 1, ReadEnd(p)) + Unit(t[n - 1], ReadEnd(p))
               /\ CountTo(t, n, WriteEnd(p)) = CountTo(t, n - 1, WriteEnd(p)) + Unit(t[n - 1], WriteEnd(p))
               /\ CountTo(t, n - 1, ReadEnd(p)) \in Nat /\ CountTo(t, n - 1, WriteEnd(p)) \in Nat
               /\ Unit(t[n - 1], ReadEnd(p)) \in Nat /\ Unit(t[n - 1], WriteEnd(p)) \in Nat
               /\ CountTo(t, n, ReadEnd(p)) <= Count(t, ReadEnd(p))
               /\ CountTo(t, n, WriteEnd(p)) <= Count(t, WriteEnd(p))
               /\ Count(t, ReadEnd(p)) \in Nat /\ Count(t, WriteEnd(p)) \in Nat
    <3>1. Unit(t[n - 1], ReadEnd(p)) \in Nat /\ Unit(t[n - 1], WriteEnd(p)) \in Nat
      BY Zenon DEF Unit
    <3>2. QED BY <3>1, CountToStep, CountToBound, CountType, Zenon
  <2>5. Includes(f[n - 1], t[n - 1], B)
    <3>1. ASSUME NEW p \in Pipes
          PROVE  /\ f[n - 1][p].readers >= B[p].readers + Unit(t[n - 1], ReadEnd(p))
                 /\ f[n - 1][p].writers >= B[p].writers + Unit(t[n - 1], WriteEnd(p))
      <4>1. /\ f[n - 1][p].readers = P[p].readers - CountTo(t, n - 1, ReadEnd(p))
            /\ f[n - 1][p].writers = P[p].writers - CountTo(t, n - 1, WriteEnd(p))
        BY <2>2, Zenon
      <4>2. QED BY <1>2, <1>4, <2>4, <4>1
    <3>2. QED BY <3>1, Zenon DEF Includes
  <2>6. Dropped(f[n - 1], f[n], t[n - 1], B)
    BY <2>1, <2>2, <2>3, <2>5, DropCounts, Zenon
  <2>7. ASSUME NEW p \in Pipes
        PROVE  /\ f[n][p].readers = P[p].readers - CountTo(t, n, ReadEnd(p))
               /\ f[n][p].writers = P[p].writers - CountTo(t, n, WriteEnd(p))
               /\ B[p].readers # 0 \/ B[p].writers # 0 => f[n][p].length = P[p].length
    <3>1. /\ f[n][p].readers = f[n - 1][p].readers - Unit(t[n - 1], ReadEnd(p))
          /\ f[n][p].writers = f[n - 1][p].writers - Unit(t[n - 1], WriteEnd(p))
          /\ B[p].readers # 0 \/ B[p].writers # 0 => f[n][p].length = f[n - 1][p].length
      BY <2>6, Zenon DEF Dropped
    <3>2. /\ f[n - 1][p].readers = P[p].readers - CountTo(t, n - 1, ReadEnd(p))
          /\ f[n - 1][p].writers = P[p].writers - CountTo(t, n - 1, WriteEnd(p))
          /\ B[p].readers # 0 \/ B[p].writers # 0 => f[n - 1][p].length = P[p].length
      BY <2>2, Zenon
    <3>3. B[p].readers # 0 \/ B[p].writers # 0 => f[n][p].length = P[p].length
      BY <3>1, <3>2, Zenon
    <3>4. QED BY <1>4, <2>4, <3>1, <3>2, <3>3
  <2>8. Good(n)
    BY <2>6, <2>7, Zenon DEF Dropped
  <2>9. QED BY <1>5, <2>8
<1>8. Good(MAX_FDS)
  <2>1. MAX_FDS \in G
    <3> HIDE DEF G
    <3>1. \A n \in 0..MAX_FDS : n \in G
      BY <1>5, <1>6, <1>7, Rounds, Zenon
    <3>2. QED BY <1>5, <3>1
  <2>2. QED BY <2>1, Zenon
<1>9. ASSUME NEW p \in Pipes
      PROVE  /\ CountTo(t, MAX_FDS, ReadEnd(p)) = Count(t, ReadEnd(p))
             /\ CountTo(t, MAX_FDS, WriteEnd(p)) = Count(t, WriteEnd(p))
             /\ Count(t, ReadEnd(p)) \in Nat /\ Count(t, WriteEnd(p)) \in Nat
             /\ Count(EmptyTable, ReadEnd(p)) = 0 /\ Count(EmptyTable, WriteEnd(p)) = 0
  <2>1. \A f1 \in Fds : EmptyTable[f1] # ReadEnd(p) /\ EmptyTable[f1] # WriteEnd(p)
    BY Ends, Zenon DEF EmptyTable
  <2>2. QED BY <2>1, CountToStep, CountType, Zenon
<1>10. EmptyTable \in FdTable
  BY Ends, Zenon DEF EmptyTable, FdTable
<1> DEFINE Q == DropTable(s.pipes, s.table)
<1>11. Q = f[MAX_FDS]
  BY <1>3, Zenon DEF P, t
<1> HIDE DEF Q
<1>12. ASSUME NEW p \in Pipes
       PROVE  /\ Q[p].readers = B[p].readers + Count(EmptyTable, ReadEnd(p))
              /\ Q[p].writers = B[p].writers + Count(EmptyTable, WriteEnd(p))
              /\ B[p].readers # 0 \/ B[p].writers # 0 => Q[p].length = B[p].length
  <2>1. /\ Q[p].readers = P[p].readers - Count(t, ReadEnd(p))
        /\ Q[p].writers = P[p].writers - Count(t, WriteEnd(p))
        /\ B[p].readers # 0 \/ B[p].writers # 0 => Q[p].length = P[p].length
    BY <1>8, <1>9, <1>11, Zenon
  <2>2. B[p].readers # 0 \/ B[p].writers # 0 => Q[p].length = B[p].length
    BY <1>2, <2>1, Zenon
  <2>3. /\ P[p].readers = B[p].readers + Count(t, ReadEnd(p))
        /\ P[p].writers = B[p].writers + Count(t, WriteEnd(p))
        /\ B[p].readers \in Nat /\ B[p].writers \in Nat
    BY <1>2, <1>4, Zenon
  <2>4. /\ Count(t, ReadEnd(p)) \in Nat /\ Count(t, WriteEnd(p)) \in Nat
        /\ Count(EmptyTable, ReadEnd(p)) = 0 /\ Count(EmptyTable, WriteEnd(p)) = 0
    BY <1>9, Zenon
  <2>5. Q[p].readers = B[p].readers /\ Q[p].writers = B[p].writers
    BY <2>1, <2>3, <2>4
  <2>6. QED BY <2>2, <2>3, <2>4, <2>5
<1>13. Q \in PipeStates
  BY <1>8, <1>11, Zenon
<1>14. QED BY <1>10, <1>12, <1>13, Zenon DEF Accounts, FdStates, Q

\* The mappings, round by round.
LEMMA MapAllRounds ==
  ASSUME NEW B \in PipeStates, NEW s, Accounts(s, B), NEW mappings \in Mappings
  PROVE  \E f : /\ f[0] = s /\ f[Len(mappings)] = MapAll(s, mappings)
                /\ \A n \in 0..Len(mappings) : Accounts(f[n], B)
                /\ \A n \in 1..Len(mappings) : f[n] = DupInto(f[n - 1], mappings[n].source, mappings[n].target)
<1> DEFINE N == Len(mappings)
           Eqn(f) == f = [n \in 0..N |-> IF n = 0 THEN s ELSE DupInto(f[n - 1], mappings[n].source, mappings[n].target)]
           S == {x \in FdStates : Accounts(x, B)}
           step == [n \in 1..N |-> [y \in S |-> DupInto(y, mappings[n].source, mappings[n].target)]]
<1>1. N \in Nat /\ \A n \in 1..N : n - 1 \in 0..N
  BY DEF Mappings
<1>2. \A n \in 1..N : mappings[n].source \in Fds /\ mappings[n].target \in Fds
  <2>1. \A n \in 1..N : mappings[n] \in FdMapping
    BY DEF Mappings
  <2>2. QED BY <2>1, Zenon DEF FdMapping
<1>3. step \in Steps(N, S)
  <2>1. ASSUME NEW n \in 1..N, NEW y \in S PROVE DupInto(y, mappings[n].source, mappings[n].target) \in S
    <3>1. Accounts(DupInto(y, mappings[n].source, mappings[n].target), B)
      BY <1>2, DupAccounts, Zenon
    <3>2. DupInto(y, mappings[n].source, mappings[n].target) \in FdStates
      BY <3>1, Zenon DEF Accounts
    <3>3. QED BY <3>1, <3>2, Zenon
  <2>2. QED BY <2>1, Zenon DEF Steps
<1>4. s \in S
  BY Zenon DEF Accounts
<1>4a. \A n \in 1..N, y \in S : step[n][y] = DupInto(y, mappings[n].source, mappings[n].target)
  BY Zenon
<1> HIDE DEF N, S, step
<1>5. PICK g \in [0..N -> S] : Runs(g, N, s, step)
  <2>1. N \in Nat
    BY <1>1, Zenon
  <2>2. QED BY <1>3, <1>4, <2>1, Loop, Zenon
<1>6. \A n \in 1..N : g[n] = DupInto(g[n - 1], mappings[n].source, mappings[n].target)
  <2>1. ASSUME NEW n \in 1..N PROVE g[n] = DupInto(g[n - 1], mappings[n].source, mappings[n].target)
    <3>1. g[n - 1] \in S
      BY <1>1, <1>5, Zenon
    <3>2. g[n] = step[n][g[n - 1]]
      BY <1>5, Zenon DEF Runs
    <3>3. QED BY <1>4a, <3>1, <3>2, Zenon
  <2>2. QED BY <2>1, Zenon
<1>7. Eqn(g)
  BY <1>1, <1>5, <1>6 DEF Runs
<1> DEFINE f == CHOOSE h : Eqn(h)
<1>8. Eqn(f)
  <2> HIDE DEF Eqn
  <2>1. QED BY <1>7, Zenon
<1>9. MapAll(s, mappings) = f[N]
  BY Zenon DEF MapAll, N
<1> HIDE DEF f
<1>10. f[0] = s /\ \A n \in 1..N : f[n] = DupInto(f[n - 1], mappings[n].source, mappings[n].target)
  BY <1>1, <1>8
<1>11. \A n \in 0..N : Accounts(f[n], B)
  <2> DEFINE G == {n \in 0..N : Accounts(f[n], B)}
  <2>1. 0 \in G
    BY <1>1, <1>10
  <2>2. ASSUME NEW n \in 1..N, n - 1 \in G PROVE n \in G
    <3>1. Accounts(f[n - 1], B)
      BY <2>2, Zenon
    <3>2. Accounts(DupInto(f[n - 1], mappings[n].source, mappings[n].target), B)
      BY <1>2, <3>1, DupAccounts, Zenon
    <3>3. QED BY <1>10, <3>2
  <2>3. \A n \in 0..N : n \in G
    <3> HIDE DEF G
    <3>1. N \in Nat
      BY <1>1, Zenon
    <3>2. QED BY <2>1, <2>2, <3>1, Rounds, Zenon
  <2>4. QED BY <2>3, Zenon
<1>12. QED BY <1>9, <1>10, <1>11, Zenon DEF N

\* A mapping's source is closed, unless it was mapped to itself.
LEMMA TakeSourceAccounts ==
  ASSUME NEW B \in PipeStates, NEW s, Accounts(s, B), NEW m, m.source \in Fds
  PROVE  Accounts(TakeSource(s, m), B)
BY TakeAccounts, Zenon DEF TakeSource

\* The closing of the sources, round by round.
LEMMA TakeSourcesRounds ==
  ASSUME NEW B \in PipeStates, NEW s, Accounts(s, B), NEW mappings \in Mappings
  PROVE  \E f : /\ f[0] = s /\ f[Len(mappings)] = TakeSources(s, mappings)
                /\ \A n \in 0..Len(mappings) : Accounts(f[n], B)
                /\ \A n \in 1..Len(mappings) : f[n] = TakeSource(f[n - 1], mappings[n])
<1> DEFINE N == Len(mappings)
           Eqn(f) == f = [n \in 0..N |-> IF n = 0 THEN s ELSE TakeSource(f[n - 1], mappings[n])]
           S == {x \in FdStates : Accounts(x, B)}
           step == [n \in 1..N |-> [y \in S |-> TakeSource(y, mappings[n])]]
<1>1. N \in Nat /\ \A n \in 1..N : n - 1 \in 0..N
  BY DEF Mappings
<1>2. \A n \in 1..N : mappings[n].source \in Fds /\ mappings[n].target \in Fds
  <2>1. \A n \in 1..N : mappings[n] \in FdMapping
    BY DEF Mappings
  <2>2. QED BY <2>1, Zenon DEF FdMapping
<1>3. step \in Steps(N, S)
  <2>1. ASSUME NEW n \in 1..N, NEW y \in S PROVE TakeSource(y, mappings[n]) \in S
    <3>1. Accounts(TakeSource(y, mappings[n]), B)
      BY <1>2, TakeSourceAccounts, Zenon
    <3>2. TakeSource(y, mappings[n]) \in FdStates
      BY <3>1, Zenon DEF Accounts
    <3>3. QED BY <3>1, <3>2, Zenon
  <2>2. QED BY <2>1, Zenon DEF Steps
<1>4. s \in S
  BY Zenon DEF Accounts
<1>4a. \A n \in 1..N, y \in S : step[n][y] = TakeSource(y, mappings[n])
  BY Zenon
<1> HIDE DEF N, S, step
<1>5. PICK g \in [0..N -> S] : Runs(g, N, s, step)
  <2>1. N \in Nat
    BY <1>1, Zenon
  <2>2. QED BY <1>3, <1>4, <2>1, Loop, Zenon
<1>6. \A n \in 1..N : g[n] = TakeSource(g[n - 1], mappings[n])
  <2>1. ASSUME NEW n \in 1..N PROVE g[n] = TakeSource(g[n - 1], mappings[n])
    <3>1. g[n - 1] \in S
      BY <1>1, <1>5, Zenon
    <3>2. g[n] = step[n][g[n - 1]]
      BY <1>5, Zenon DEF Runs
    <3>3. QED BY <1>4a, <3>1, <3>2, Zenon
  <2>2. QED BY <2>1, Zenon
<1>7. Eqn(g)
  BY <1>1, <1>5, <1>6 DEF Runs
<1> DEFINE f == CHOOSE h : Eqn(h)
<1>8. Eqn(f)
  <2> HIDE DEF Eqn
  <2>1. QED BY <1>7, Zenon
<1>9. TakeSources(s, mappings) = f[N]
  BY Zenon DEF TakeSources, N
<1> HIDE DEF f
<1>10. f[0] = s /\ \A n \in 1..N : f[n] = TakeSource(f[n - 1], mappings[n])
  BY <1>1, <1>8
<1>11. \A n \in 0..N : Accounts(f[n], B)
  <2> DEFINE G == {n \in 0..N : Accounts(f[n], B)}
  <2>1. 0 \in G
    BY <1>1, <1>10
  <2>2. ASSUME NEW n \in 1..N, n - 1 \in G PROVE n \in G
    <3>1. Accounts(f[n - 1], B)
      BY <2>2, Zenon
    <3>2. Accounts(TakeSource(f[n - 1], mappings[n]), B)
      BY <1>2, <3>1, TakeSourceAccounts, Zenon
    <3>3. QED BY <1>10, <3>2
  <2>3. \A n \in 0..N : n \in G
    <3> HIDE DEF G
    <3>1. N \in Nat
      BY <1>1, Zenon
    <3>2. QED BY <2>1, <2>2, <3>1, Rounds, Zenon
  <2>4. QED BY <2>3, Zenon
<1>12. QED BY <1>9, <1>10, <1>11, Zenon DEF N

\* The closing of the listed descriptors, round by round.
LEMMA TakeAllRounds ==
  ASSUME NEW B \in PipeStates, NEW s, Accounts(s, B), NEW closes \in Seq(Fds)
  PROVE  \E f : /\ f[0] = s /\ f[Len(closes)] = TakeAll(s, closes)
                /\ \A n \in 0..Len(closes) : Accounts(f[n], B)
                /\ \A n \in 1..Len(closes) : f[n] = TakeFd(f[n - 1], closes[n])
<1> DEFINE N == Len(closes)
           Eqn(f) == f = [n \in 0..N |-> IF n = 0 THEN s ELSE TakeFd(f[n - 1], closes[n])]
           S == {x \in FdStates : Accounts(x, B)}
           step == [n \in 1..N |-> [y \in S |-> TakeFd(y, closes[n])]]
<1>1. N \in Nat /\ \A n \in 1..N : n - 1 \in 0..N
  OBVIOUS
<1>2. \A n \in 1..N : closes[n] \in Fds
  OBVIOUS
<1>3. step \in Steps(N, S)
  <2>1. ASSUME NEW n \in 1..N, NEW y \in S PROVE TakeFd(y, closes[n]) \in S
    <3>1. Accounts(TakeFd(y, closes[n]), B)
      BY <1>2, TakeAccounts, Zenon
    <3>2. TakeFd(y, closes[n]) \in FdStates
      BY <3>1, Zenon DEF Accounts
    <3>3. QED BY <3>1, <3>2, Zenon
  <2>2. QED BY <2>1, Zenon DEF Steps
<1>4. s \in S
  BY Zenon DEF Accounts
<1>4a. \A n \in 1..N, y \in S : step[n][y] = TakeFd(y, closes[n])
  BY Zenon
<1> HIDE DEF N, S, step
<1>5. PICK g \in [0..N -> S] : Runs(g, N, s, step)
  <2>1. N \in Nat
    BY <1>1, Zenon
  <2>2. QED BY <1>3, <1>4, <2>1, Loop, Zenon
<1>6. \A n \in 1..N : g[n] = TakeFd(g[n - 1], closes[n])
  <2>1. ASSUME NEW n \in 1..N PROVE g[n] = TakeFd(g[n - 1], closes[n])
    <3>1. g[n - 1] \in S
      BY <1>1, <1>5, Zenon
    <3>2. g[n] = step[n][g[n - 1]]
      BY <1>5, Zenon DEF Runs
    <3>3. QED BY <1>4a, <3>1, <3>2, Zenon
  <2>2. QED BY <2>1, Zenon
<1>7. Eqn(g)
  BY <1>1, <1>5, <1>6 DEF Runs
<1> DEFINE f == CHOOSE h : Eqn(h)
<1>8. Eqn(f)
  <2> HIDE DEF Eqn
  <2>1. QED BY <1>7, Zenon
<1>9. TakeAll(s, closes) = f[N]
  BY Zenon DEF TakeAll, N
<1> HIDE DEF f
<1>10. f[0] = s /\ \A n \in 1..N : f[n] = TakeFd(f[n - 1], closes[n])
  BY <1>1, <1>8
<1>11. \A n \in 0..N : Accounts(f[n], B)
  <2> DEFINE G == {n \in 0..N : Accounts(f[n], B)}
  <2>1. 0 \in G
    BY <1>1, <1>10
  <2>2. ASSUME NEW n \in 1..N, n - 1 \in G PROVE n \in G
    <3>1. Accounts(f[n - 1], B)
      BY <2>2, Zenon
    <3>2. Accounts(TakeFd(f[n - 1], closes[n]), B)
      BY <1>2, <3>1, TakeAccounts, Zenon
    <3>3. QED BY <1>10, <3>2
  <2>3. \A n \in 0..N : n \in G
    <3> HIDE DEF G
    <3>1. N \in Nat
      BY <1>1, Zenon
    <3>2. QED BY <2>1, <2>2, <3>1, Rounds, Zenon
  <2>4. QED BY <2>3, Zenon
<1>12. QED BY <1>9, <1>10, <1>11, Zenon DEF N

\* The descriptors of a child are counted on top of those there were.
LEMMA ChildAccounts ==
  ASSUME NEW P \in PipeStates, NEW t \in FdTable,
         NEW mappings \in Mappings, NEW closes \in Seq(Fds)
  PROVE  Accounts(ChildTable(P, t, mappings, closes), P)
<1> DEFINE copied == [table |-> t, pipes |-> CloneTable(P, t)]
           mapped == MapAll(copied, mappings)
           moved == TakeSources(mapped, mappings)
<1>1. Len(mappings) \in 0..Len(mappings) /\ Len(closes) \in 0..Len(closes)
  BY DEF Mappings
<1>2. Accounts(copied, P)
  BY CloneTableAccounts, Zenon
<1> HIDE DEF copied
<1>3. Accounts(mapped, P)
  BY <1>1, <1>2, MapAllRounds
<1> HIDE DEF mapped
<1>4. Accounts(moved, P)
  BY <1>1, <1>3, TakeSourcesRounds
<1> HIDE DEF moved
<1>5. Accounts(TakeAll(moved, closes), P)
  BY <1>1, <1>4, TakeAllRounds
<1>6. QED BY <1>5, Zenon DEF ChildTable, copied, mapped, moved


-----------------------------------------------------------------------------
(***************************************************************************)
(* The table a child starts with.                                          *)
(***************************************************************************)
\* One descriptor copied.
LEMMA CopiedFd ==
  ASSUME NEW s, s.table \in FdTable, NEW a \in Fds, NEW b \in Fds, NEW u, u = DupInto(s, a, b)
  PROVE  u.table[b] = s.table[a] /\ \A g \in Fds \ {b} : u.table[g] = s.table[g]
<1>1. u.table = [s.table EXCEPT ![b] = s.table[a]]
  BY Zenon DEF DupInto
<1>2. QED BY <1>1, Zenon DEF FdTable

\* One descriptor taken.
LEMMA TakenFd ==
  ASSUME NEW s, s.table \in FdTable, NEW a \in Fds, NEW u, u = TakeFd(s, a)
  PROVE  u.table[a] = Closed /\ \A g \in Fds \ {a} : u.table[g] = s.table[g]
<1>1. u.table = [s.table EXCEPT ![a] = Closed]
  BY Zenon DEF TakeFd
<1>2. QED BY <1>1, Zenon DEF FdTable

\* A mapping is between two descriptors.
LEMMA MappingFds ==
  ASSUME NEW mappings \in Mappings, NEW n \in 1..Len(mappings)
  PROVE  mappings[n].source \in Fds /\ mappings[n].target \in Fds
<1>1. mappings[n] \in FdMapping
  BY DEF Mappings
<1>2. QED BY <1>1, Zenon DEF FdMapping

\* After the mappings, each target has what its source had.
LEMMA MappedFds ==
  ASSUME NEW B \in PipeStates, NEW s, Accounts(s, B), NEW mappings \in Mappings, Apart(mappings)
  PROVE  LET u == MapAll(s, mappings)
         IN  /\ \A k \in 1..Len(mappings) : u.table[mappings[k].target] = s.table[mappings[k].source]
             /\ \A g \in Fds : ~IsTarget(mappings, g) => u.table[g] = s.table[g]
<1> DEFINE N == Len(mappings)
<1>1. N \in Nat
  BY DEF Mappings
<1>2. PICK f : /\ f[0] = s /\ f[N] = MapAll(s, mappings)
               /\ \A n \in 0..N : Accounts(f[n], B)
               /\ \A n \in 1..N : f[n] = DupInto(f[n - 1], mappings[n].source, mappings[n].target)
  BY MapAllRounds
<1> DEFINE Good(n) ==
             /\ \A k \in 1..n : f[n].table[mappings[k].target] = s.table[mappings[k].source]
             /\ \A g \in Fds : (\A k \in 1..n : mappings[k].target # g) => f[n].table[g] = s.table[g]
           G == {n \in 0..N : Good(n)}
<1>3. 0 \in G
  BY <1>1, <1>2
<1>4. ASSUME NEW n \in 1..N, n - 1 \in G PROVE n \in G
  <2> DEFINE a == mappings[n].source
             b == mappings[n].target
  <2>1. Good(n - 1) /\ n - 1 \in 0..N /\ n \in 0..N
    BY <1>1, <1>4
  <2>2. a \in Fds /\ b \in Fds
    BY MappingFds, Zenon
  <2>3. f[n] = DupInto(f[n - 1], a, b) /\ f[n - 1].table \in FdTable
    BY <1>2, <2>1, Zenon DEF Accounts, FdStates
  <2>4. f[n].table[b] = f[n - 1].table[a] /\ \A g \in Fds \ {b} : f[n].table[g] = f[n - 1].table[g]
    BY <2>2, <2>3, CopiedFd
  <2>5. \A k \in 1..N : /\ mappings[k].target # a /\ (k # n => mappings[k].target # b)
                        /\ mappings[k].target \in Fds
    BY MappingFds, Zenon DEF Apart
  <2>6. \A k \in 1..(n - 1) : k \in 1..n /\ k \in 1..N /\ k # n
    BY <1>1
  <2>7. \A k \in 1..n : k = n \/ k \in 1..(n - 1)
    BY <1>1
  <2>8. f[n - 1].table[a] = s.table[a]
    BY <2>1, <2>2, <2>5, <2>6, Zenon
  <2> HIDE DEF a, b
  <2>9. ASSUME NEW k \in 1..n PROVE f[n].table[mappings[k].target] = s.table[mappings[k].source]
    <3>1. CASE k = n
      BY <2>4, <2>8, <3>1, Zenon DEF a, b
    <3>2. CASE k # n
      <4>1. k \in 1..(n - 1)
        BY <2>7, <3>2, Zenon
      <4>2. mappings[k].target \in Fds \ {b}
        BY <2>5, <2>6, <4>1, Zenon
      <4>3. QED BY <2>1, <2>4, <4>1, <4>2, Zenon
    <3>3. QED BY <3>1, <3>2, Zenon
  <2>10. ASSUME NEW g \in Fds, \A k \in 1..n : mappings[k].target # g PROVE f[n].table[g] = s.table[g]
    <3>1. g # b
      BY <1>1, <2>10 DEF b
    <3>2. \A k \in 1..(n - 1) : mappings[k].target # g
      BY <2>6, <2>10, Zenon
    <3>3. QED BY <2>1, <2>4, <3>1, <3>2, Zenon
  <2>11. Good(n)
    BY <2>9, <2>10, Zenon
  <2>12. QED BY <2>1, <2>11, Zenon
<1> HIDE DEF G
<1>5. \A n \in 0..N : n \in G
  BY <1>1, <1>3, <1>4, Rounds, Zenon
<1>6. N \in G
  BY <1>1, <1>5
<1>7. Good(N)
  BY <1>6, Zenon DEF G
<1>8. QED BY <1>2, <1>7, Zenon DEF IsTarget

\* Then the sources are closed.
LEMMA TakenSources ==
  ASSUME NEW B \in PipeStates, NEW s, Accounts(s, B), NEW mappings \in Mappings, Apart(mappings)
  PROVE  LET u == TakeSources(s, mappings)
         IN  \A g \in Fds : u.table[g] = IF IsSource(mappings, g) THEN Closed ELSE s.table[g]
<1> DEFINE N == Len(mappings)
<1>1. N \in Nat
  BY DEF Mappings
<1>2. PICK f : /\ f[0] = s /\ f[N] = TakeSources(s, mappings)
               /\ \A n \in 0..N : Accounts(f[n], B)
               /\ \A n \in 1..N : f[n] = TakeSource(f[n - 1], mappings[n])
  BY TakeSourcesRounds
<1> DEFINE Hit(n, g) == \E k \in 1..n : mappings[k].source = g
           Good(n) == \A g \in Fds : f[n].table[g] = IF Hit(n, g) THEN Closed ELSE s.table[g]
           G == {n \in 0..N : Good(n)}
<1>3. 0 \in G
  BY <1>1, <1>2
<1>4. ASSUME NEW n \in 1..N, n - 1 \in G PROVE n \in G
  <2> DEFINE a == mappings[n].source
  <2>1. Good(n - 1) /\ n - 1 \in 0..N /\ n \in 0..N
    BY <1>1, <1>4
  <2>2. a \in Fds /\ a # mappings[n].target
    BY MappingFds, Zenon DEF Apart
  <2>3. f[n] = TakeFd(f[n - 1], a) /\ f[n - 1].table \in FdTable
    BY <1>2, <2>1, <2>2, Zenon DEF TakeSource, Accounts, FdStates
  <2>4. f[n].table[a] = Closed /\ \A g \in Fds \ {a} : f[n].table[g] = f[n - 1].table[g]
    BY <2>2, <2>3, TakenFd
  <2>5. \A g : Hit(n, g) <=> g = a \/ Hit(n - 1, g)
    <3>1. \A k : k \in 1..n <=> k = n \/ k \in 1..(n - 1)
      BY <1>1
    <3>2. QED BY <3>1, Zenon
  <2> HIDE DEF a, Hit
  <2>6. Good(n)
    BY <2>1, <2>4, <2>5, Zenon
  <2>7. QED BY <2>1, <2>6, Zenon
<1> HIDE DEF G
<1>5. \A n \in 0..N : n \in G
  BY <1>1, <1>3, <1>4, Rounds, Zenon
<1>6. N \in G
  BY <1>1, <1>5
<1>7. Good(N)
  BY <1>6, Zenon DEF G
<1>8. QED BY <1>2, <1>7, Zenon DEF IsSource

\* Then the listed descriptors are closed.
LEMMA TakenAll ==
  ASSUME NEW B \in PipeStates, NEW s, Accounts(s, B), NEW closes \in Seq(Fds)
  PROVE  LET u == TakeAll(s, closes)
         IN  \A g \in Fds : u.table[g] = IF Lists(closes, g) THEN Closed ELSE s.table[g]
<1> DEFINE N == Len(closes)
<1>1. N \in Nat
  OBVIOUS
<1>2. PICK f : /\ f[0] = s /\ f[N] = TakeAll(s, closes)
               /\ \A n \in 0..N : Accounts(f[n], B)
               /\ \A n \in 1..N : f[n] = TakeFd(f[n - 1], closes[n])
  BY TakeAllRounds
<1> DEFINE Hit(n, g) == \E k \in 1..n : closes[k] = g
           Good(n) == \A g \in Fds : f[n].table[g] = IF Hit(n, g) THEN Closed ELSE s.table[g]
           G == {n \in 0..N : Good(n)}
<1>3. 0 \in G
  BY <1>1, <1>2
<1>4. ASSUME NEW n \in 1..N, n - 1 \in G PROVE n \in G
  <2> DEFINE a == closes[n]
  <2>1. Good(n - 1) /\ n - 1 \in 0..N /\ n \in 0..N
    BY <1>1, <1>4
  <2>2. a \in Fds
    OBVIOUS
  <2>3. f[n] = TakeFd(f[n - 1], a) /\ f[n - 1].table \in FdTable
    BY <1>2, <2>1, Zenon DEF Accounts, FdStates
  <2>4. f[n].table[a] = Closed /\ \A g \in Fds \ {a} : f[n].table[g] = f[n - 1].table[g]
    BY <2>2, <2>3, TakenFd
  <2>5. \A g : Hit(n, g) <=> g = a \/ Hit(n - 1, g)
    <3>1. \A k : k \in 1..n <=> k = n \/ k \in 1..(n - 1)
      BY <1>1
    <3>2. QED BY <3>1, Zenon
  <2> HIDE DEF a, Hit
  <2>6. Good(n)
    BY <2>1, <2>4, <2>5, Zenon
  <2>7. QED BY <2>1, <2>6, Zenon
<1> HIDE DEF G
<1>5. \A n \in 0..N : n \in G
  BY <1>1, <1>3, <1>4, Rounds, Zenon
<1>6. N \in G
  BY <1>1, <1>5
<1>7. Good(N)
  BY <1>6, Zenon DEF G
<1>8. QED BY <1>2, <1>7, Zenon DEF Lists

\* create_user_task gives a child the descriptors of its parent, except that
\* targets have what their sources had and that sources and listed
\* descriptors are closed.
LEMMA ChildFds ==
  ASSUME NEW P \in PipeStates, NEW t \in FdTable, NEW mappings \in Mappings, Apart(mappings),
         NEW closes \in Seq(Fds)
  PROVE  MappedChild(ChildTable(P, t, mappings, closes).table, t, mappings, closes)
<1> DEFINE copied == [table |-> t, pipes |-> CloneTable(P, t)]
           mapped == MapAll(copied, mappings)
           moved == TakeSources(mapped, mappings)
           all == TakeAll(moved, closes)
<1>1. Len(mappings) \in 0..Len(mappings) /\ Len(closes) \in 0..Len(closes)
  BY DEF Mappings
<1>2. Accounts(copied, P) /\ copied.table = t
  BY CloneTableAccounts, Zenon
<1> HIDE DEF copied
<1>3. Accounts(mapped, P)
  BY <1>1, <1>2, MapAllRounds
<1>4. /\ \A k \in 1..Len(mappings) : mapped.table[mappings[k].target] = t[mappings[k].source]
      /\ \A g \in Fds : ~IsTarget(mappings, g) => mapped.table[g] = t[g]
  BY <1>2, MappedFds
<1> HIDE DEF mapped
<1>5. Accounts(moved, P)
  BY <1>1, <1>3, TakeSourcesRounds
<1>6. \A g \in Fds : moved.table[g] = IF IsSource(mappings, g) THEN Closed ELSE mapped.table[g]
  BY <1>3, TakenSources, Zenon
<1> HIDE DEF moved
<1>7. \A g \in Fds : all.table[g] = IF Lists(closes, g) THEN Closed ELSE moved.table[g]
  BY <1>5, TakenAll, Zenon
<1>8. ChildTable(P, t, mappings, closes) = all
  BY Zenon DEF ChildTable, copied, mapped, moved
<1> HIDE DEF all
<1>9. \A k \in 1..Len(mappings) : mappings[k].target \in Fds /\ ~IsSource(mappings, mappings[k].target)
  BY MappingFds, Zenon DEF Apart, IsSource
<1>10. QED BY <1>4, <1>6, <1>7, <1>8, <1>9, Zenon DEF MappedChild

-----------------------------------------------------------------------------
(***************************************************************************)
(* New descriptors.                                                        *)
(***************************************************************************)
\* A free descriptor is given something that is no end of a pipe.
LEMMA FileAccounts ==
  ASSUME NEW B \in PipeStates, NEW s, Accounts(s, B), NEW f \in Fds, s.table[f] = Closed,
         NEW d \in {FileRead, FileWrite}
  PROVE  Accounts([table |-> [s.table EXCEPT ![f] = d], pipes |-> s.pipes], B)
<1> DEFINE t == [s.table EXCEPT ![f] = d]
           u == [table |-> t, pipes |-> s.pipes]
<1>1. s.table \in FdTable /\ s.pipes \in PipeStates
  BY Zenon DEF Accounts, FdStates
<1>2. d \in FileDescriptor /\ \A p : d # ReadEnd(p) /\ d # WriteEnd(p)
  BY DEF FileDescriptor, FileRead, FileWrite, ReadEnd, WriteEnd
<1>3. t \in FdTable
  BY <1>1, <1>2, Zenon DEF FdTable
<1>4. ASSUME NEW p \in Pipes
      PROVE  /\ Count(t, ReadEnd(p)) = Count(s.table, ReadEnd(p))
             /\ Count(t, WriteEnd(p)) = Count(s.table, WriteEnd(p))
  <2>1. /\ Count(t, ReadEnd(p)) =
             Count(s.table, ReadEnd(p)) - Unit(s.table[f], ReadEnd(p)) + Unit(d, ReadEnd(p))
        /\ Count(t, WriteEnd(p)) =
             Count(s.table, WriteEnd(p)) - Unit(s.table[f], WriteEnd(p)) + Unit(d, WriteEnd(p))
    BY <1>1, CountStore
  <2>2. /\ Unit(s.table[f], ReadEnd(p)) = 0 /\ Unit(d, ReadEnd(p)) = 0
        /\ Unit(s.table[f], WriteEnd(p)) = 0 /\ Unit(d, WriteEnd(p)) = 0
    BY <1>2, Ends, Zenon DEF Unit
  <2>3. Count(s.table, ReadEnd(p)) \in Nat /\ Count(s.table, WriteEnd(p)) \in Nat
    BY CountType, Zenon
  <2>4. QED BY <2>1, <2>2, <2>3
<1>5. u \in FdStates /\ u.table = t /\ u.pipes = s.pipes
  BY <1>1, <1>3, Zenon DEF FdStates
<1> HIDE DEF t, u
<1>6. Accounts(u, B)
  BY <1>4, <1>5, Zenon DEF Accounts
<1>7. QED BY <1>6, Zenon DEF u, t

\* A pipe nobody held gets one reader and one writer.
LEMMA PipeAccounts ==
  ASSUME NEW B \in PipeStates, NEW s, Accounts(s, B), NEW r \in Fds, NEW w \in Fds, r # w,
         s.table[r] = Closed, s.table[w] = Closed,
         NEW q \in Pipes, s.pipes[q].readers = 0, s.pipes[q].writers = 0
  PROVE  Accounts([table |-> [s.table EXCEPT ![r] = ReadEnd(q), ![w] = WriteEnd(q)],
                   pipes |-> [s.pipes EXCEPT ![q] = [length |-> 0, readers |-> 1, writers |-> 1]]], B)
<1> DEFINE v == [s.table EXCEPT ![r] = ReadEnd(q)]
           t == [v EXCEPT ![w] = WriteEnd(q)]
           new == [length |-> 0, readers |-> 1, writers |-> 1]
           P == [s.pipes EXCEPT ![q] = new]
           u == [table |-> t, pipes |-> P]
<1>1. s.table \in FdTable /\ s.pipes \in PipeStates
  BY Zenon DEF Accounts, FdStates
<1>2. v \in FdTable /\ v[w] = Closed
  BY <1>1, Ends, Zenon DEF FdTable
<1>3. t \in FdTable
  <2> HIDE DEF v
  <2>1. QED BY <1>2, Ends, Zenon DEF FdTable
<1>4. new \in Pipe
  BY FileDescriptorsAssumption DEF Pipe
<1>5. P \in PipeStates
  BY <1>1, <1>4, Zenon DEF PipeStates
<1>6. \A p \in Pipes : /\ Count(s.table, ReadEnd(p)) \in Nat /\ Count(s.table, WriteEnd(p)) \in Nat
                       /\ B[p].readers \in Nat /\ B[p].writers \in Nat
  BY CountType, Zenon DEF PipeStates, Pipe
<1>7. ASSUME NEW p \in Pipes
      PROVE  /\ Count(t, ReadEnd(p)) = Count(s.table, ReadEnd(p)) + Unit(p, q)
             /\ Count(t, WriteEnd(p)) = Count(s.table, WriteEnd(p)) + Unit(p, q)
  <2>1. /\ Count(v, ReadEnd(p)) =
             Count(s.table, ReadEnd(p)) - Unit(s.table[r], ReadEnd(p)) + Unit(ReadEnd(q), ReadEnd(p))
        /\ Count(v, WriteEnd(p)) =
             Count(s.table, WriteEnd(p)) - Unit(s.table[r], WriteEnd(p)) + Unit(ReadEnd(q), WriteEnd(p))
    BY <1>1, CountStore
  <2> HIDE DEF v
  <2>2. /\ Count(t, ReadEnd(p)) =
             Count(v, ReadEnd(p)) - Unit(v[w], ReadEnd(p)) + Unit(WriteEnd(q), ReadEnd(p))
        /\ Count(t, WriteEnd(p)) =
             Count(v, WriteEnd(p)) - Unit(v[w], WriteEnd(p)) + Unit(WriteEnd(q), WriteEnd(p))
    BY <1>2, CountStore
  <2>3. /\ Unit(s.table[r], ReadEnd(p)) = 0 /\ Unit(s.table[r], WriteEnd(p)) = 0
        /\ Unit(v[w], ReadEnd(p)) = 0 /\ Unit(v[w], WriteEnd(p)) = 0
        /\ Unit(ReadEnd(q), WriteEnd(p)) = 0 /\ Unit(WriteEnd(q), ReadEnd(p)) = 0
    BY <1>2, Ends, Zenon DEF Unit
  <2>4. /\ Unit(ReadEnd(q), ReadEnd(p)) = Unit(p, q) /\ Unit(WriteEnd(q), WriteEnd(p)) = Unit(p, q)
        /\ Unit(p, q) \in Nat
    BY Ends, Zenon DEF Unit
  <2> HIDE DEF t
  <2>5. QED BY <1>6, <2>1, <2>2, <2>3, <2>4
<1>8. u \in FdStates /\ u.table = t /\ u.pipes = P
  BY <1>3, <1>5, Zenon DEF FdStates
<1>9. P[q] = new /\ \A p \in Pipes \ {q} : P[p] = s.pipes[p]
  BY <1>1, Zenon DEF PipeStates
<1>10. P[q].readers = 1 /\ P[q].writers = 1
  BY <1>9
<1> HIDE DEF v, t, P, u, new
<1>11. ASSUME NEW p \in Pipes
       PROVE  /\ P[p].readers = B[p].readers + Count(t, ReadEnd(p))
              /\ P[p].writers = B[p].writers + Count(t, WriteEnd(p))
              /\ B[p].readers # 0 \/ B[p].writers # 0 => P[p].length = B[p].length
  <2>1. /\ s.pipes[p].readers = B[p].readers + Count(s.table, ReadEnd(p))
        /\ s.pipes[p].writers = B[p].writers + Count(s.table, WriteEnd(p))
        /\ B[p].readers # 0 \/ B[p].writers # 0 => s.pipes[p].length = B[p].length
    BY Zenon DEF Accounts
  <2>2. CASE p = q
    <3>1. Unit(p, q) = 1
      BY <2>2, Zenon DEF Unit
    <3>2. B[p].readers = 0 /\ B[p].writers = 0
      BY <1>6, <2>1, <2>2
    <3>3. QED BY <1>6, <1>7, <1>10, <2>1, <2>2, <3>1, <3>2
  <2>3. CASE p # q
    <3>1. Unit(p, q) = 0 /\ P[p] = s.pipes[p]
      BY <1>9, <2>3, Zenon DEF Unit
    <3>2. QED BY <1>6, <1>7, <2>1, <3>1
  <2>4. QED BY <2>2, <2>3, Zenon
<1>12. Accounts(u, B)
  BY <1>8, <1>11, Zenon DEF Accounts
<1>13. QED BY <1>12, Zenon DEF u, t, v, P, new

\* One of two descriptors is another one.
LEMMA TwoFds ==
  ASSUME NEW F \in SUBSET Fds, Cardinality(F) >= 2, NEW f
  PROVE  F # {} /\ F \ {f} # {}
<1>1. IsFiniteSet(F)
  BY Finite, FS_Subset, Zenon
<1>2. Cardinality(F) \in Nat
  BY <1>1, FS_CardinalityType, Zenon
<1>3. Cardinality({}) = 0
  BY FS_EmptySet, Zenon
<1>4. Cardinality(F \ {f}) = Cardinality(F) - 1 \/ Cardinality(F \ {f}) = Cardinality(F)
  BY <1>1, FS_RemoveElement, Zenon
<1>5. Cardinality(F \ {f}) # 0
  BY <1>2, <1>4
<1>6. QED BY <1>2, <1>3, <1>5, Zenon

-----------------------------------------------------------------------------
(***************************************************************************)
(* The contract.                                                           *)
(***************************************************************************)
\* fd.rs keeps its promises: whatever is cloned, dropped, duplicated, closed
\* and mapped, and in whatever order, the counts kept beside the pipes are the
\* descriptors held, and a child gets the descriptors it was mapped.
THEOREM DescriptorContractKept ==
  ASSUME NEW D, IsFiniteSet(D)
  PROVE  DescriptorContract(D)
<1>1. EndsDiffer
  BY Ends, Zenon DEF EndsDiffer
<1>2. CountsAreNumbers
  <2>1. Cardinality({}) = 0
    BY FS_EmptySet, Zenon
  <2>2. QED BY <2>1, CountType, TwoFds, Zenon DEF CountsAreNumbers
<1>3. HoldersAddUp(D)
  BY HoldersStore, Zenon DEF HoldersAddUp
<1>4. ASSUME NEW B \in PipeStates, NEW s \in FdStates, Accounts(s, B)
      PROVE  /\ \A f \in Fds : Accounts(TakeFd(s, f), B)
             /\ \A f, g \in Fds : Accounts(DupInto(s, f, g), B)
             /\ \A f \in Fds, d \in {FileRead, FileWrite} :
                  s.table[f] = Closed =>
                    Accounts([table |-> [s.table EXCEPT ![f] = d], pipes |-> s.pipes], B)
             /\ Accounts([table |-> EmptyTable, pipes |-> DropTable(s.pipes, s.table)], B)
  BY <1>4, TakeAccounts, DupAccounts, FileAccounts, DropTableAccounts, Zenon
<1>5. ASSUME NEW B \in PipeStates, NEW s \in FdStates, Accounts(s, B),
             NEW r \in Fds, NEW w \in Fds, NEW q \in Pipes,
             r # w /\ s.table[r] = Closed /\ s.table[w] = Closed,
             s.pipes[q].readers = 0 /\ s.pipes[q].writers = 0
      PROVE  Accounts([table |-> [s.table EXCEPT ![r] = ReadEnd(q), ![w] = WriteEnd(q)],
                       pipes |-> [s.pipes EXCEPT
                                    ![q] = [length |-> 0, readers |-> 1, writers |-> 1]]], B)
  BY <1>5, PipeAccounts, Zenon
<1>6. OperationsAccount
  <2> SUFFICES ASSUME NEW B \in PipeStates, NEW s \in FdStates, Accounts(s, B)
               PROVE  /\ \A f \in Fds : Accounts(TakeFd(s, f), B)
                      /\ \A f, g \in Fds : Accounts(DupInto(s, f, g), B)
                      /\ \A f \in Fds, d \in {FileRead, FileWrite} :
                           s.table[f] = Closed =>
                             Accounts([table |-> [s.table EXCEPT ![f] = d], pipes |-> s.pipes], B)
                      /\ \A r, w \in Fds, q \in Pipes :
                           /\ r # w /\ s.table[r] = Closed /\ s.table[w] = Closed
                           /\ s.pipes[q].readers = 0 /\ s.pipes[q].writers = 0
                           => Accounts([table |-> [s.table EXCEPT ![r] = ReadEnd(q), ![w] = WriteEnd(q)],
                                        pipes |-> [s.pipes EXCEPT
                                          ![q] = [length |-> 0, readers |-> 1, writers |-> 1]]], B)
                      /\ Accounts([table |-> EmptyTable, pipes |-> DropTable(s.pipes, s.table)], B)
    BY Zenon DEF OperationsAccount
  <2>1. QED BY <1>4, <1>5, Zenon
<1>7. ChildrenAccount
  <2> SUFFICES ASSUME NEW P \in PipeStates, NEW t \in FdTable,
                      NEW mappings \in Mappings, NEW closes \in Seq(Fds)
               PROVE  /\ Accounts(ChildTable(P, t, mappings, closes), P)
                      /\ Apart(mappings) => MappedChild(ChildTable(P, t, mappings, closes).table,
                                                        t, mappings, closes)
    BY Zenon DEF ChildrenAccount
  <2>1. QED BY ChildAccounts, ChildFds, Zenon
<1>8. QED BY <1>1, <1>2, <1>3, <1>6, <1>7, Zenon DEF DescriptorContract

=============================================================================
