--------------------------- MODULE KeyInput_proofs --------------------------
(***************************************************************************)
(* Proofs about KeyInput, for any programs, keys, sizes of the rings and   *)
(* of the buffers.                                                         *)
(*                                                                         *)
(* Both rings are shown to implement BoundedQueue step by step.  For the   *)
(* ring of drivers/input.rs the types are enough; for the shell's, which   *)
(* has no lock, the invariant says what the shell knows between two        *)
(* accesses: the queue is not empty any more, and what it loaded is still  *)
(* the oldest key, whatever the interrupt handler has put in since.        *)
(***************************************************************************)
EXTENDS KeyInput, WellFoundedInduction, SequenceTheorems, TLAPS

Inputs == [bytes : [0 .. INPUT_CAPACITY - 1 -> Nat], head : 0 .. INPUT_CAPACITY - 1,
           length : 0 .. INPUT_CAPACITY]
Queues == [slots : [0 .. QUEUE_CAPACITY - 1 -> Nat], head : 0 .. QUEUE_CAPACITY - 1,
           tail : 0 .. QUEUE_CAPACITY - 1]

Typed == KeysTypeOK /\ INPUT \in Inputs /\ QUEUE \in Queues

\* What the shell knows between two accesses to its queue.
Dequeuing ==
  /\ pc \in {"load", "store"} => QUEUE.tail # QUEUE.head
  /\ pc = "store" => byte = QUEUE.slots[QUEUE.tail]

IInv == Typed /\ Dequeuing /\ CharactersWake

-----------------------------------------------------------------------------

\* An index that has passed the end of a ring at most once.
LEMMA Wrap ==
  ASSUME NEW c \in Nat \ {0}, NEW x \in Nat, x < 2 * c
  PROVE  x % c = IF x < c THEN x ELSE x - c
  OBVIOUS

\* Two places in a ring that are less than its size apart are different.
LEMMA Apart ==
  ASSUME NEW c \in Nat \ {0}, NEW h \in 0 .. c - 1, NEW i \in 0 .. c - 1, NEW j \in 0 .. c - 1,
         i # j
  PROVE  (h + i) % c # (h + j) % c
  BY Wrap

\* An index into a ring is within it.
LEMMA Within ==
  ASSUME NEW c \in Nat \ {0}, NEW x \in Nat
  PROVE  x % c \in 0 .. c - 1
  OBVIOUS

\* Going k places and then i places is going k + i places.
LEMMA Shift ==
  ASSUME NEW c \in Nat \ {0}, NEW h \in 0 .. c - 1, NEW k \in 0 .. c, NEW i \in Nat, k + i < c
  PROVE  (((h + k) % c) + i) % c = (h + (k + i)) % c
<1>1. PICK x, y : x = h + k /\ y = h + (k + i)
  OBVIOUS
<1>2. x \in Nat /\ y \in Nat /\ x < 2 * c /\ y < 2 * c /\ y = x + i
  BY <1>1
<1>3. x % c = (IF x < c THEN x ELSE x - c) /\ y % c = (IF y < c THEN y ELSE y - c)
  BY <1>2, Wrap
<1>4. PICK z : z = (x % c) + i
  OBVIOUS
<1>5. z = y \/ (z = y - c /\ z \in 0 .. c - 1)
  BY <1>2, <1>3, <1>4
<1>6. CASE z = y
  BY <1>1, <1>4, <1>6
<1>7. CASE z = y - c /\ z \in 0 .. c - 1
  <2>1. z % c = z
    BY <1>7
  <2>2. y % c = y - c
    BY <1>2, <1>3, <1>7
  <2> QED BY <1>1, <1>4, <1>7, <2>1, <2>2
<1> QED BY <1>5, <1>6, <1>7

\* What a ring of c slots holds: n values from place h on.
RingItems(f, c, h, n) == [i \in 1 .. n |-> f[(h + i - 1) % c]]

\* The sequence s has these values.
IsRing(s, f, c, h, n) ==
  /\ s \in Seq(Nat) /\ Len(s) = n
  /\ \A i \in 1 .. n : s[i] = f[(h + i - 1) % c]

\* They are a sequence.
LEMMA RingIsSeq ==
  ASSUME NEW c \in Nat \ {0}, NEW f \in [0 .. c - 1 -> Nat], NEW h \in 0 .. c - 1, NEW n \in 0 .. c
  PROVE  IsRing(RingItems(f, c, h, n), f, c, h, n)
<1>1. ASSUME NEW i \in 1 .. n PROVE f[(h + i - 1) % c] \in Nat
  BY Within
<1>2. RingItems(f, c, h, n) \in [1 .. n -> Nat]
  BY <1>1 DEF RingItems
<1>3. n \in Nat
  OBVIOUS
<1>4. RingItems(f, c, h, n) \in Seq(Nat) /\ Len(RingItems(f, c, h, n)) = n
  BY <1>2, <1>3
<1> QED BY <1>4 DEF RingItems, IsRing

\* A ring after a value is put behind the n ones from place h on.
Put(f, c, h, n, b) == [f EXCEPT ![(h + n) % c] = b]

\* The ring g holds the n values f held from place h on, and then b.
Behind(g, f, c, h, n, b) ==
  /\ g \in [0 .. c - 1 -> Nat]
  /\ Len(RingItems(g, c, h, n + 1)) = n + 1
  /\ SubSeq(RingItems(g, c, h, n + 1), 1, n) = RingItems(f, c, h, n)
  /\ RingItems(g, c, h, n + 1)[n + 1] = b

\* A value put behind the last one leaves the others as they were.
LEMMA RingPush ==
  ASSUME NEW c \in Nat \ {0}, NEW f \in [0 .. c - 1 -> Nat], NEW h \in 0 .. c - 1,
         NEW n \in 0 .. c - 1, NEW b \in Nat
  PROVE  Behind(Put(f, c, h, n, b), f, c, h, n, b)
<1>0. PICK g : g = [f EXCEPT ![(h + n) % c] = b]
  OBVIOUS
<1> DEFINE s == RingItems(g, c, h, n + 1)
           t == RingItems(f, c, h, n)
<1>1. (h + n) % c \in 0 .. c - 1
  BY Within
<1>2. g \in [0 .. c - 1 -> Nat] /\ g[(h + n) % c] = b
  BY <1>0, <1>1
<1>3. ASSUME NEW i \in 1 .. n PROVE g[(h + i - 1) % c] = f[(h + i - 1) % c]
  <2>1. h + i - 1 = h + (i - 1) /\ i - 1 \in 0 .. c - 1 /\ i - 1 # n
    OBVIOUS
  <2>2. (h + (i - 1)) % c # (h + n) % c
    BY <2>1, Apart
  <2>3. (h + i - 1) % c \in 0 .. c - 1
    <3>1. h + i - 1 \in Nat
      OBVIOUS
    <3> QED BY <3>1, Within
  <2> QED BY <1>0, <2>1, <2>2, <2>3
<1>a. n \in 0 .. c /\ n + 1 \in 0 .. c
  OBVIOUS
<1>b. IsRing(s, g, c, h, n + 1) /\ IsRing(t, f, c, h, n)
  BY <1>2, <1>a, RingIsSeq, Zenon
<1> HIDE DEF s, t
<1>4. s \in Seq(Nat) /\ Len(s) = n + 1 /\ \A i \in 1 .. (n + 1) : s[i] = g[(h + i - 1) % c]
  BY <1>b, Zenon DEF IsRing
<1>5. t \in Seq(Nat) /\ Len(t) = n /\ \A i \in 1 .. n : t[i] = f[(h + i - 1) % c]
  BY <1>b, Zenon DEF IsRing
<1>6. ASSUME NEW i \in 1 .. n PROVE s[i] = t[i] /\ s[i] \in Nat
  <2>1. i \in 1 .. (n + 1)
    OBVIOUS
  <2>2. s[i] = t[i]
    BY <1>3, <1>4, <1>5, <2>1
  <2>3. t[i] \in Nat
    BY <1>5, ElementOfSeq
  <2> QED BY <2>2, <2>3
<1>7. /\ SubSeq(s, 1, n) \in Seq(Nat) /\ Len(SubSeq(s, 1, n)) = n
      /\ \A i \in 1 .. n : SubSeq(s, 1, n)[i] = s[i]
  BY <1>6, SubSeqProperties
<1>8. SubSeq(s, 1, n) = t
  BY <1>5, <1>6, <1>7, SeqEqual
<1>9. s[n + 1] = b
  BY <1>2, <1>4
<1> QED BY <1>0, <1>2, <1>4, <1>8, <1>9 DEF s, t, Put, Behind

\* The first k values of a ring, and what is left without them.
Splits(f, c, h, n, k) ==
  /\ SubSeq(RingItems(f, c, h, n), 1, k) = RingItems(f, c, h, k)
  /\ SubSeq(RingItems(f, c, h, n), k + 1, n) = RingItems(f, c, (h + k) % c, n - k)

\* A ring may be split at any place.
LEMMA RingTake ==
  ASSUME NEW c \in Nat \ {0}, NEW f \in [0 .. c - 1 -> Nat], NEW h \in 0 .. c - 1,
         NEW n \in 0 .. c, NEW k \in 1 .. n
  PROVE  Splits(f, c, h, n, k)
<1> DEFINE s == RingItems(f, c, h, n)
           t == RingItems(f, c, h, k)
           u == RingItems(f, c, (h + k) % c, n - k)
<1>a. k \in 0 .. c /\ h + k \in Nat
  OBVIOUS
<1>3. (h + k) % c \in 0 .. c - 1 /\ n - k \in 0 .. c
  BY Within
<1>b. IsRing(s, f, c, h, n) /\ IsRing(t, f, c, h, k) /\ IsRing(u, f, c, (h + k) % c, n - k)
  BY <1>a, <1>3, RingIsSeq, Zenon
<1>5. ASSUME NEW i \in 1 .. (n - k) PROVE (((h + k) % c) + i - 1) % c = (h + (k + i) - 1) % c
  <2>1. PICK j, r : j = i - 1 /\ r = (h + k) % c
    OBVIOUS
  <2>2. j \in Nat /\ k + j < c /\ h + (k + i) - 1 = h + (k + j)
    BY <2>1
  <2>3. (r + j) % c = (h + (k + j)) % c
    BY <1>a, <2>1, <2>2, Shift
  <2>4. r \in Nat /\ r + i - 1 = r + j
    BY <1>3, <2>1
  <2> QED BY <2>1, <2>2, <2>3, <2>4
<1> HIDE DEF s, t, u
<1>1. s \in Seq(Nat) /\ Len(s) = n /\ \A i \in 1 .. n : s[i] = f[(h + i - 1) % c]
  BY <1>b, Zenon DEF IsRing
<1>2. t \in Seq(Nat) /\ Len(t) = k /\ \A i \in 1 .. k : t[i] = f[(h + i - 1) % c]
  BY <1>b, Zenon DEF IsRing
<1>4. u \in Seq(Nat) /\ Len(u) = n - k /\ \A i \in 1 .. (n - k) : u[i] = f[(((h + k) % c) + i - 1) % c]
  BY <1>b, Zenon DEF IsRing
<1>6. \A i \in 1 .. n : s[i] \in Nat
  BY <1>1
<1>7. /\ SubSeq(s, 1, k) \in Seq(Nat) /\ Len(SubSeq(s, 1, k)) = k
      /\ \A i \in 1 .. k : SubSeq(s, 1, k)[i] = s[i]
  BY <1>6, SubSeqProperties
<1>8. SubSeq(s, 1, k) = t
  BY <1>1, <1>2, <1>7, SeqEqual
<1>9. /\ SubSeq(s, k + 1, n) \in Seq(Nat) /\ Len(SubSeq(s, k + 1, n)) = n - k
      /\ \A i \in 1 .. (n - k) : SubSeq(s, k + 1, n)[i] = s[k + i]
  <2>1. n \in Int /\ k + 1 \in Int /\ \A i \in (k + 1) .. n : s[i] \in Nat
    BY <1>6
  <2>2. /\ SubSeq(s, k + 1, n) \in Seq(Nat)
        /\ Len(SubSeq(s, k + 1, n)) = IF k + 1 <= n THEN n - (k + 1) + 1 ELSE 0
        /\ \A i \in 1 .. (n - (k + 1) + 1) : SubSeq(s, k + 1, n)[i] = s[(k + 1) + i - 1]
    BY <2>1, SubSeqProperties
  <2>3. n - (k + 1) + 1 = n - k /\ \A i \in 1 .. (n - k) : (k + 1) + i - 1 = k + i
    OBVIOUS
  <2>4. Len(SubSeq(s, k + 1, n)) = n - k
    BY <2>2
  <2>5. ASSUME NEW i \in 1 .. (n - k) PROVE SubSeq(s, k + 1, n)[i] = s[k + i]
    BY <2>2, <2>3
  <2> QED BY <2>2, <2>4, <2>5
<1>10. ASSUME NEW i \in 1 .. (n - k) PROVE SubSeq(s, k + 1, n)[i] = u[i]
  <2>1. k + i \in 1 .. n
    OBVIOUS
  <2>2. SubSeq(s, k + 1, n)[i] = s[k + i]
    BY <1>9, Zenon
  <2>3. s[k + i] = f[(h + (k + i) - 1) % c]
    BY <1>1, <2>1, Zenon
  <2>4. u[i] = f[(((h + k) % c) + i - 1) % c]
    BY <1>4, Zenon
  <2>5. f[(((h + k) % c) + i - 1) % c] = f[(h + (k + i) - 1) % c]
    BY <1>5, Zenon
  <2> QED BY <2>2, <2>3, <2>4, <2>5, Zenon
<1>11. SubSeq(s, k + 1, n) = u
  BY <1>4, <1>9, <1>10, SeqEqual
<1> QED BY <1>8, <1>11 DEF s, t, u, Splits

\* A set of places that is not empty has a first one.
LEMMA LeastNatural ==
  ASSUME NEW S \in SUBSET Nat, S # {}
  PROVE  \E i \in S : \A j \in S : i <= j
<1> DEFINE R == {p \in Nat \X Nat : p[1] < p[2]}
<1>1. IsWellFoundedOn(R, Nat)
  BY NatLessThanWellFounded DEF OpToRel
<1>2. PICK i \in S : \A j \in S : ~(<<j, i>> \in R)
  <2> HIDE DEF R
  <2> QED BY <1>1, WFMin
<1>3. ASSUME NEW j \in S PROVE i <= j
  <2>1. j < i => <<j, i>> \in R
    OBVIOUS
  <2> QED BY <1>2, <2>1
<1> QED BY <1>3

\* The scheduler gives the processor to the shell or to a task that is ready.
LEMMA NextTaskIsReady ==
  ASSUME NEW ready \in SUBSET Users
  PROVE  NextTask(ready) \in {"shell"} \cup ready
<1> DEFINE First(set) == CHOOSE i \in set : \A j \in set : i <= j
           Can == {i \in DOMAIN Order : Order[i] \in {"shell"} \cup ready}
           Later == {i \in DOMAIN Order : i > Slot(current) /\ Order[i] \in {"shell"} \cup ready}
<1>1. ASSUME NEW set \in SUBSET Nat, set # {} PROVE First(set) \in set
  <2>1. \E i \in set : \A j \in set : i <= j
    BY <1>1, LeastNatural
  <2> QED BY <2>1
<1>2. Order \in Seq({"shell"} \cup Users) /\ Order[1] = "shell" /\ 1 \in DOMAIN Order
  <2>1. Programs \in Seq({"shell"} \cup Users) /\ <<"shell">> \in Seq({"shell"} \cup Users)
    BY KeyInputAssumption
  <2> QED BY <2>1 DEF Order
<1>3. Can \in SUBSET Nat /\ Can # {} /\ Later \in SUBSET Nat /\ Later \subseteq Can
  BY <1>2
<1>4. NextTask(ready) = IF Later # {} THEN Order[First(Later)] ELSE Order[First(Can)]
  BY DEF NextTask
<1>5. \A i \in Can : Order[i] \in {"shell"} \cup ready
  OBVIOUS
<1> HIDE DEF First, Can, Later
<1> QED BY <1>1, <1>3, <1>4, <1>5

\* The rings begin empty.
LEMMA InitIInv == Init => IInv
<1> SUFFICES ASSUME Init PROVE IInv
  OBVIOUS
<1>1. INPUT \in Inputs /\ QUEUE \in Queues
  BY KeyInputAssumption DEF Init, NewInput, NewQueue, Inputs, Queues
<1>2. KeysTypeOK
  BY <1>1, KeyInputAssumption DEF Init, KeysTypeOK, Inputs, Queues, Tasks
<1>3. Dequeuing
  BY DEF Init, Dequeuing
<1>4. CharactersWake
  BY DEF Init, CharactersWake
<1> QED BY <1>1, <1>2, <1>3, <1>4 DEF IInv, Typed

-----------------------------------------------------------------------------

\* Only these steps touch the ring of drivers/input.rs.
LEMMA InputSteps ==
  ASSUME IInv, [Next]_vars
  PROVE  \/ UNCHANGED <<INPUT, read>>
         \/ \E b \in Keys : push(b) /\ UNCHANGED read
         \/ \E size \in READ_SIZES : INPUT.length > 0 /\ read_available(size)
<1>1. ASSUME NEW b \in Keys, KeyForProgram(b) PROVE \E c \in Keys : push(c) /\ UNCHANGED read
  BY <1>1 DEF KeyForProgram
<1>2. ASSUME NEW u \in Users, NEW size \in READ_SIZES, FdRead(u, size)
      PROVE  \/ UNCHANGED <<INPUT, read>>
             \/ \E n \in READ_SIZES : INPUT.length > 0 /\ read_available(n)
  <2>1. INPUT.length # 0 => INPUT.length > 0
    BY DEF IInv, Typed, Inputs
  <2> QED BY <1>2, <2>1 DEF FdRead
<1>3. ASSUME NEW u \in Users, NEW size \in READ_SIZES, SysRead(u, size)
      PROVE  \E n \in READ_SIZES : INPUT.length > 0 /\ read_available(n)
  BY <1>3 DEF SysRead
<1>4. ShellStep \/ Tick \/ UNCHANGED vars => UNCHANGED <<INPUT, read>>
  BY DEF ShellStep, DequeueTest, DequeueLoad, DequeueStore, Halt, Tick, TimerInterrupt, vars
<1>5. \A b : KeyForShell(b) => UNCHANGED <<INPUT, read>>
  BY DEF KeyForShell
<1>6. \A group : InterruptGroup(group) => UNCHANGED <<INPUT, read>>
  BY DEF InterruptGroup
<1>7. KeyboardSpins => UNCHANGED <<INPUT, read>>
  BY DEF KeyboardSpins
<1>8. \A u : Launch(u) \/ Exit(u) => UNCHANGED <<INPUT, read>>
  BY DEF Launch, Exit
<1> QED BY <1>1, <1>2, <1>3, <1>4, <1>5, <1>6, <1>7, <1>8 DEF Next

\* Only these steps touch the shell's ring.
LEMMA QueueSteps ==
  ASSUME [Next]_vars
  PROVE  \/ UNCHANGED <<QUEUE, key>>
         \/ \E b \in Keys : enqueue_key(b) /\ UNCHANGED key
         \/ DequeueStore
<1>1. ASSUME NEW b \in Keys, KeyForShell(b) PROVE \E c \in Keys : enqueue_key(c) /\ UNCHANGED key
  BY <1>1 DEF KeyForShell
<1>2. ShellStep => DequeueStore \/ UNCHANGED <<QUEUE, key>>
  BY DEF ShellStep, DequeueTest, DequeueLoad, Halt
<1>3. Tick \/ UNCHANGED vars => UNCHANGED <<QUEUE, key>>
  BY DEF Tick, TimerInterrupt, vars
<1>4. \A b : KeyForProgram(b) => UNCHANGED <<QUEUE, key>>
  BY DEF KeyForProgram
<1>5. \A group : InterruptGroup(group) => UNCHANGED <<QUEUE, key>>
  BY DEF InterruptGroup
<1>6. KeyboardSpins => UNCHANGED <<QUEUE, key>>
  BY DEF KeyboardSpins
<1>7. \A u : Launch(u) \/ Exit(u) => UNCHANGED <<QUEUE, key>>
  BY DEF Launch, Exit
<1>8. \A u, size : FdRead(u, size) \/ SysRead(u, size) => UNCHANGED <<QUEUE, key>>
  BY DEF FdRead, SysRead
<1> QED BY <1>1, <1>2, <1>3, <1>4, <1>5, <1>6, <1>7, <1>8 DEF Next

\* What the ring of drivers/input.rs holds, oldest byte first.
InputItems == RingItems(INPUT.bytes, INPUT_CAPACITY, INPUT.head, INPUT.length)

\* push drops the byte or puts it behind the others.
LEMMA PushKeeps ==
  ASSUME INPUT \in Inputs, NEW b \in Keys, push(b)
  PROVE  /\ INPUT' \in Inputs
         /\ \/ UNCHANGED INPUT
            \/ /\ INPUT.length < INPUT_CAPACITY /\ Len(InputItems) = INPUT.length
               /\ Len(InputItems') = INPUT.length + 1 /\ INPUT'.length = INPUT.length + 1
               /\ SubSeq(InputItems', 1, INPUT.length) = InputItems
               /\ InputItems'[INPUT.length + 1] = b
<1>0. /\ INPUT_CAPACITY \in Nat \ {0} /\ b \in Nat
      /\ INPUT.bytes \in [0 .. INPUT_CAPACITY - 1 -> Nat]
      /\ INPUT.head \in 0 .. INPUT_CAPACITY - 1 /\ INPUT.length \in 0 .. INPUT_CAPACITY
  BY KeyInputAssumption DEF Inputs, Keys, CtrlC
<1>1. CASE INPUT.length = INPUT_CAPACITY
  BY <1>1 DEF push
<1>2. CASE INPUT.length # INPUT_CAPACITY
  <2> DEFINE tail == (INPUT.head + INPUT.length) % INPUT_CAPACITY
             g == [INPUT.bytes EXCEPT ![tail] = b]
  <2>1. INPUT' = [INPUT EXCEPT !.bytes[tail] = b, !.length = @ + 1]
    BY <1>2 DEF push
  <2>2. INPUT'.bytes = g /\ INPUT'.head = INPUT.head /\ INPUT'.length = INPUT.length + 1
    BY <2>1 DEF Inputs
  <2>3. INPUT.length \in 0 .. INPUT_CAPACITY - 1
    BY <1>0, <1>2
  <2>4. /\ g \in [0 .. INPUT_CAPACITY - 1 -> Nat]
        /\ Len(RingItems(g, INPUT_CAPACITY, INPUT.head, INPUT.length + 1)) = INPUT.length + 1
        /\ SubSeq(RingItems(g, INPUT_CAPACITY, INPUT.head, INPUT.length + 1), 1, INPUT.length) = InputItems
        /\ RingItems(g, INPUT_CAPACITY, INPUT.head, INPUT.length + 1)[INPUT.length + 1] = b
    <3>1. PICK c, f, h, n :
             c = INPUT_CAPACITY /\ f = INPUT.bytes /\ h = INPUT.head /\ n = INPUT.length
      OBVIOUS
    <3>2. /\ c \in Nat \ {0} /\ f \in [0 .. c - 1 -> Nat] /\ h \in 0 .. c - 1
          /\ n \in 0 .. c - 1
      BY <1>0, <2>3, <3>1
    <3>3. Behind(Put(f, c, h, n, b), f, c, h, n, b)
      <4>1. b \in Nat
        BY <1>0
      <4> QED BY <3>2, <4>1, RingPush, Zenon
    <3> QED BY <3>1, <3>3 DEF InputItems, Put, Behind
  <2>5. Len(InputItems) = INPUT.length
    <3>1. PICK c, f, h, n :
             c = INPUT_CAPACITY /\ f = INPUT.bytes /\ h = INPUT.head /\ n = INPUT.length
      OBVIOUS
    <3>2. /\ c \in Nat \ {0} /\ f \in [0 .. c - 1 -> Nat] /\ h \in 0 .. c - 1
          /\ n \in 0 .. c
      BY <1>0, <3>1
    <3>a. IsRing(RingItems(f, c, h, n), f, c, h, n)
      BY <3>2, RingIsSeq, Zenon
    <3>3. Len(RingItems(f, c, h, n)) = n
      BY <3>a, Zenon DEF IsRing
    <3> QED BY <3>1, <3>3 DEF InputItems
  <2> HIDE DEF g
  <2>6. INPUT' \in Inputs
    <3>1. INPUT' = [bytes |-> g, head |-> INPUT.head, length |-> INPUT.length + 1]
      BY <2>1 DEF Inputs, g
    <3>2. INPUT.length + 1 \in 0 .. INPUT_CAPACITY
      BY <1>0, <2>3
    <3> QED BY <1>0, <2>4, <3>1, <3>2 DEF Inputs
  <2>7. InputItems' = RingItems(g, INPUT_CAPACITY, INPUT.head, INPUT.length + 1)
    BY <2>2 DEF InputItems
  <2> QED BY <1>0, <2>2, <2>3, <2>4, <2>5, <2>6, <2>7
<1> QED BY <1>1, <1>2

\* read gives the oldest bytes, at least one, and takes them out.
LEMMA ReadKeeps ==
  ASSUME INPUT \in Inputs, NEW size \in READ_SIZES, INPUT.length > 0,
         read_available(size)
  PROVE  /\ INPUT' \in Inputs
         /\ Len(InputItems) = INPUT.length
         /\ \E k \in 1 .. INPUT.length :
              /\ read' = SubSeq(InputItems, 1, k)
              /\ InputItems' = SubSeq(InputItems, k + 1, INPUT.length)
              /\ INPUT' = [INPUT EXCEPT !.head = (INPUT.head + k) % INPUT_CAPACITY,
                                        !.length = INPUT.length - k]
<1>0. PICK c, f, h, n :
        c = INPUT_CAPACITY /\ f = INPUT.bytes /\ h = INPUT.head /\ n = INPUT.length
  OBVIOUS
<1>1. /\ c \in Nat \ {0} /\ f \in [0 .. c - 1 -> Nat] /\ h \in 0 .. c - 1
      /\ n \in 0 .. c /\ n > 0 /\ size \in Nat \ {0}
  BY <1>0, KeyInputAssumption DEF Inputs
<1>2. PICK k : k = IF size < n THEN size ELSE n
  OBVIOUS
<1>3. k \in 1 .. n /\ n - k \in 0 .. c /\ h + k \in Nat
  BY <1>1, <1>2
<1>4. (h + k) % c \in 0 .. c - 1
  BY <1>1, <1>3, Within
<1>5. INPUT' = [INPUT EXCEPT !.head = (h + k) % c, !.length = n - k]
  BY <1>0, <1>2 DEF read_available
<1>6. INPUT' = [bytes |-> f, head |-> (h + k) % c, length |-> n - k]
  BY <1>0, <1>5 DEF Inputs
<1>7. INPUT' \in Inputs
  BY <1>0, <1>1, <1>3, <1>4, <1>6 DEF Inputs
<1>8. read' = RingItems(f, c, h, k)
  BY <1>0, <1>2 DEF read_available, RingItems
<1>a. IsRing(RingItems(f, c, h, n), f, c, h, n)
  BY <1>1, RingIsSeq, Zenon
<1>9. Len(RingItems(f, c, h, n)) = n
  BY <1>a, Zenon DEF IsRing
<1>10. /\ SubSeq(RingItems(f, c, h, n), 1, k) = RingItems(f, c, h, k)
       /\ SubSeq(RingItems(f, c, h, n), k + 1, n) = RingItems(f, c, (h + k) % c, n - k)
  <2>1. Splits(f, c, h, n, k)
    BY <1>1, <1>3, RingTake, Zenon
  <2> QED BY <2>1, Zenon DEF Splits
<1>11. InputItems = RingItems(f, c, h, n)
  BY <1>0 DEF InputItems
<1>12. InputItems' = RingItems(f, c, (h + k) % c, n - k)
  BY <1>0, <1>6 DEF InputItems
<1> QED BY <1>0, <1>3, <1>5, <1>7, <1>8, <1>9, <1>10, <1>11, <1>12

\* How many keys a ring holds that knows its two ends only.
Count(c, h, t) == (h + c - t) % c

\* The same without a division.
LEMMA CountIs ==
  ASSUME NEW c \in Nat \ {0}, NEW h \in 0 .. c - 1, NEW t \in 0 .. c - 1
  PROVE  Count(c, h, t) = IF h < t THEN h + c - t ELSE h - t
<1>1. PICK x : x = h + c - t
  OBVIOUS
<1>2. x \in Nat /\ x < 2 * c
  BY <1>1
<1>3. x % c = IF x < c THEN x ELSE x - c
  BY <1>2, Wrap
<1>4. Count(c, h, t) = x % c
  BY <1>1 DEF Count
<1> QED BY <1>1, <1>3, <1>4

\* The place after a place.
LEMMA AfterIs ==
  ASSUME NEW c \in Nat \ {0}, NEW h \in 0 .. c - 1
  PROVE  (h + 1) % c = IF h + 1 < c THEN h + 1 ELSE 0
<1>1. PICK x : x = h + 1
  OBVIOUS
<1>2. x \in Nat /\ x < 2 * c /\ x <= c
  BY <1>1
<1>3. x % c = IF x < c THEN x ELSE x - c
  BY <1>2, Wrap
<1> QED BY <1>1, <1>2, <1>3

\* The next key goes where they end, and there is one more or less when an
\* end moves on.
LEMMA CountMoves ==
  ASSUME NEW c \in Nat \ {0, 1}, NEW h \in 0 .. c - 1, NEW t \in 0 .. c - 1
  PROVE  /\ Count(c, h, t) \in 0 .. c - 1
         /\ (t + Count(c, h, t)) % c = h
         /\ (h + 1) % c # t => Count(c, h, t) < c - 1
                              /\ Count(c, (h + 1) % c, t) = Count(c, h, t) + 1
         /\ h # t => Count(c, h, t) > 0
                    /\ Count(c, h, (t + 1) % c) = Count(c, h, t) - 1
<1>1. c \in Nat \ {0}
  OBVIOUS
<1>2. Count(c, h, t) = IF h < t THEN h + c - t ELSE h - t
  BY <1>1, CountIs
<1>3. Count(c, h, t) \in 0 .. c - 1
  BY <1>2
<1>4. (t + Count(c, h, t)) % c = h
  <2>1. PICK x : x = t + Count(c, h, t)
    OBVIOUS
  <2>2. x \in Nat /\ x < 2 * c /\ (x = h \/ x = h + c)
    BY <1>2, <2>1
  <2>3. x % c = IF x < c THEN x ELSE x - c
    BY <1>1, <2>2, Wrap
  <2> QED BY <2>1, <2>2, <2>3
<1>5. ASSUME (h + 1) % c # t
      PROVE  Count(c, h, t) < c - 1 /\ Count(c, (h + 1) % c, t) = Count(c, h, t) + 1
  <2>1. (h + 1) % c = IF h + 1 < c THEN h + 1 ELSE 0
    BY <1>1, AfterIs
  <2>2. PICK j : j = (h + 1) % c
    OBVIOUS
  <2>3. j \in 0 .. c - 1 /\ j # t /\ j = IF h + 1 < c THEN h + 1 ELSE 0
    BY <1>5, <2>1, <2>2
  <2>5. Count(c, j, t) = IF j < t THEN j + c - t ELSE j - t
    BY <1>1, <2>3, CountIs
  <2>6. Count(c, h, t) < c - 1
    BY <1>2, <2>3
  <2>7. Count(c, j, t) = Count(c, h, t) + 1
    BY <1>2, <2>3, <2>5
  <2> QED BY <2>2, <2>6, <2>7
<1>6. ASSUME h # t
      PROVE  Count(c, h, t) > 0 /\ Count(c, h, (t + 1) % c) = Count(c, h, t) - 1
  <2>1. (t + 1) % c = IF t + 1 < c THEN t + 1 ELSE 0
    BY <1>1, AfterIs
  <2>2. PICK j : j = (t + 1) % c
    OBVIOUS
  <2>3. j \in 0 .. c - 1 /\ j = IF t + 1 < c THEN t + 1 ELSE 0
    BY <2>1, <2>2
  <2>5. Count(c, h, j) = IF h < j THEN h + c - j ELSE h - j
    BY <1>1, <2>3, CountIs
  <2>6. Count(c, h, t) > 0
    BY <1>2, <1>6
  <2>7. Count(c, h, j) = Count(c, h, t) - 1
    BY <1>2, <1>6, <2>3, <2>5
  <2> QED BY <2>2, <2>6, <2>7
<1> QED BY <1>3, <1>4, <1>5, <1>6

\* What the shell's ring holds, oldest key first.
QueueItems == RingItems(QUEUE.slots, QUEUE_CAPACITY, QUEUE.tail, QueueLength)

\* enqueue_key drops the key or puts it behind the others; the place the
\* shell takes the next key from keeps its key.
LEMMA EnqueueKeeps ==
  ASSUME QUEUE \in Queues, NEW b \in Keys, enqueue_key(b)
  PROVE  /\ QUEUE' \in Queues /\ QUEUE'.tail = QUEUE.tail
         /\ QUEUE.tail # QUEUE.head => /\ QUEUE'.head # QUEUE.tail
                                       /\ QUEUE'.slots[QUEUE.tail] = QUEUE.slots[QUEUE.tail]
         /\ \/ UNCHANGED QUEUE
            \/ /\ Len(QueueItems) < QUEUE_CAPACITY - 1
               /\ Len(QueueItems') = Len(QueueItems) + 1
               /\ SubSeq(QueueItems', 1, Len(QueueItems)) = QueueItems
<1>0. PICK c, f, h, t :
        c = QUEUE_CAPACITY /\ f = QUEUE.slots /\ h = QUEUE.head /\ t = QUEUE.tail
  OBVIOUS
<1>1. /\ c \in Nat \ {0, 1} /\ c \in Nat \ {0} /\ f \in [0 .. c - 1 -> Nat]
      /\ h \in 0 .. c - 1 /\ t \in 0 .. c - 1 /\ b \in Nat
  BY <1>0, KeyInputAssumption DEF Queues, Keys, CtrlC
<1>2. CASE (h + 1) % c = t
  <2>1. UNCHANGED QUEUE
    BY <1>0, <1>2 DEF enqueue_key
  <2> QED BY <2>1
<1>3. CASE (h + 1) % c # t
  <2>1. PICK n : n = Count(c, h, t)
    OBVIOUS
  <2>2. /\ n \in 0 .. c - 1 /\ (t + n) % c = h /\ n < c - 1
        /\ Count(c, (h + 1) % c, t) = n + 1
    BY <1>1, <1>3, <2>1, CountMoves
  <2>3. QUEUE' = [QUEUE EXCEPT !.slots[h] = b, !.head = (h + 1) % c]
    BY <1>0, <1>3 DEF enqueue_key
  <2>4. PICK j : j = (h + 1) % c
    OBVIOUS
  <2>5. j \in 0 .. c - 1 /\ j # t
    <3>1. h + 1 \in Nat
      BY <1>1
    <3> QED BY <1>1, <1>3, <2>4, <3>1, Within
  <2>6. QUEUE' = [slots |-> Put(f, c, t, n, b), head |-> j, tail |-> t]
    BY <1>0, <2>2, <2>3, <2>4 DEF Queues, Put
  <2>7. Behind(Put(f, c, t, n, b), f, c, t, n, b)
    BY <1>1, <2>2, RingPush, Zenon
  <2>8. Put(f, c, t, n, b) \in [0 .. c - 1 -> Nat]
    BY <2>7 DEF Behind
  <2>9. QUEUE' \in Queues
    BY <1>0, <1>1, <2>5, <2>6, <2>8 DEF Queues
  <2>10. h # t => Put(f, c, t, n, b)[t] = f[t]
    BY <1>1, <2>2 DEF Put
  <2>11. QueueItems = RingItems(f, c, t, n)
    BY <1>0, <2>1 DEF QueueItems, QueueLength, Count
  <2>12. QueueItems' = RingItems(Put(f, c, t, n, b), c, t, n + 1)
    BY <1>0, <2>2, <2>4, <2>6 DEF QueueItems, QueueLength, Count
  <2>13. Len(QueueItems) = n
    <3>1. n \in 0 .. c
      BY <1>1, <2>2
    <3>2. IsRing(RingItems(f, c, t, n), f, c, t, n)
      BY <1>1, <3>1, RingIsSeq, Zenon
    <3> QED BY <2>11, <3>2, Zenon DEF IsRing
  <2>14. Len(QueueItems') = n + 1 /\ SubSeq(QueueItems', 1, n) = QueueItems
    BY <2>7, <2>11, <2>12 DEF Behind
  <2>15. QUEUE'.slots = Put(f, c, t, n, b) /\ QUEUE'.head = j /\ QUEUE'.tail = t
    BY <2>6
  <2>16. h # t => QUEUE'.slots[t] = f[t]
    BY <2>10, <2>15
  <2> QED BY <1>0, <2>2, <2>5, <2>9, <2>13, <2>14, <2>15, <2>16
<1> QED BY <1>2, <1>3

\* The last access of dequeue_key takes out the key it returns, the oldest.
LEMMA StoreKeeps ==
  ASSUME QUEUE \in Queues, QUEUE.tail # QUEUE.head,
         byte = QUEUE.slots[QUEUE.tail], DequeueStore
  PROVE  /\ QUEUE' \in Queues
         /\ 1 \in 1 .. Len(QueueItems)
         /\ key' = SubSeq(QueueItems, 1, 1)
         /\ QueueItems' = SubSeq(QueueItems, 1 + 1, Len(QueueItems))
<1>0. PICK c, f, h, t :
        c = QUEUE_CAPACITY /\ f = QUEUE.slots /\ h = QUEUE.head /\ t = QUEUE.tail
  OBVIOUS
<1>1. /\ c \in Nat \ {0, 1} /\ c \in Nat \ {0} /\ f \in [0 .. c - 1 -> Nat]
      /\ h \in 0 .. c - 1 /\ t \in 0 .. c - 1 /\ h # t
  BY <1>0, KeyInputAssumption DEF Queues
<1>2. PICK n : n = Count(c, h, t)
  OBVIOUS
<1>3. n \in 0 .. c - 1 /\ n > 0 /\ Count(c, h, (t + 1) % c) = n - 1
  BY <1>1, <1>2, CountMoves
<1>4. n \in 0 .. c /\ 1 \in 1 .. n /\ 1 \in 0 .. c /\ t + 1 \in Nat
  BY <1>1, <1>3
<1>5. PICK j : j = (t + 1) % c
  OBVIOUS
<1>6. j \in 0 .. c - 1
  BY <1>1, <1>4, <1>5, Within
<1>7. QUEUE' = [QUEUE EXCEPT !.tail = j] /\ key' = <<f[t]>>
  BY <1>0, <1>5 DEF DequeueStore
<1>8. QUEUE' = [slots |-> f, head |-> h, tail |-> j]
  BY <1>0, <1>7 DEF Queues
<1>9. QUEUE' \in Queues
  BY <1>0, <1>1, <1>6, <1>8 DEF Queues
<1>10. QueueItems = RingItems(f, c, t, n)
  BY <1>0, <1>2 DEF QueueItems, QueueLength, Count
<1>11. QueueItems' = RingItems(f, c, j, n - 1)
  BY <1>0, <1>3, <1>5, <1>8 DEF QueueItems, QueueLength, Count
<1>12. Len(QueueItems) = n
  <2>1. IsRing(RingItems(f, c, t, n), f, c, t, n)
    BY <1>1, <1>4, RingIsSeq, Zenon
  <2> QED BY <1>10, <2>1, Zenon DEF IsRing
<1>13. /\ SubSeq(QueueItems, 1, 1) = RingItems(f, c, t, 1)
       /\ SubSeq(QueueItems, 1 + 1, n) = RingItems(f, c, j, n - 1)
  <2>1. PICK k : k = 1
    OBVIOUS
  <2>2. k \in 1 .. n
    BY <1>4, <2>1
  <2>3. /\ SubSeq(RingItems(f, c, t, n), 1, k) = RingItems(f, c, t, k)
        /\ SubSeq(RingItems(f, c, t, n), k + 1, n) = RingItems(f, c, (t + k) % c, n - k)
    <3>1. Splits(f, c, t, n, k)
      BY <1>1, <1>4, <2>2, RingTake, Zenon
    <3> QED BY <3>1, Zenon DEF Splits
  <2> QED BY <1>5, <1>10, <2>1, <2>3
<1>14. RingItems(f, c, t, 1) = <<f[t]>>
  <2>0. PICK k : k = 1
    OBVIOUS
  <2>a. /\ RingItems(f, c, t, k) \in Seq(Nat) /\ Len(RingItems(f, c, t, k)) = k
        /\ \A i \in 1 .. k : RingItems(f, c, t, k)[i] = f[(t + i - 1) % c]
    <3>1. k \in 0 .. c
      BY <1>4, <2>0
    <3>2. IsRing(RingItems(f, c, t, k), f, c, t, k)
      BY <1>1, <3>1, RingIsSeq, Zenon
    <3> QED BY <3>2, Zenon DEF IsRing
  <2>1. /\ RingItems(f, c, t, 1) \in Seq(Nat) /\ Len(RingItems(f, c, t, 1)) = 1
        /\ \A i \in 1 .. 1 : RingItems(f, c, t, 1)[i] = f[(t + i - 1) % c]
    BY <2>0, <2>a
  <2>2. t % c = t
    BY <1>1
  <2>3. RingItems(f, c, t, 1)[1] = f[t]
    <3>1. 1 \in 1 .. 1 /\ t + 1 - 1 = t
      BY <1>1
    <3> QED BY <2>1, <2>2, <3>1
  <2>4. <<f[t]>> \in Seq(Nat) /\ Len(<<f[t]>>) = 1 /\ <<f[t]>>[1] = f[t]
    BY <1>1
  <2>5. \A i \in 1 .. 1 : RingItems(f, c, t, 1)[i] = <<f[t]>>[i]
    BY <2>3, <2>4
  <2> QED BY <2>1, <2>4, <2>5, SeqEqual
<1> QED BY <1>4, <1>7, <1>9, <1>11, <1>12, <1>13, <1>14

-----------------------------------------------------------------------------

\* Every step keeps the two rings well formed.
LEMMA RingsKeep ==
  ASSUME IInv, [Next]_vars
  PROVE  INPUT' \in Inputs /\ QUEUE' \in Queues
<1>0. INPUT \in Inputs /\ QUEUE \in Queues
  BY DEF IInv, Typed
<1>1. INPUT' \in Inputs
  <2>1. UNCHANGED <<INPUT, read>> => INPUT' \in Inputs
    BY <1>0
  <2>2. ASSUME NEW b \in Keys, push(b) PROVE INPUT' \in Inputs
    BY <1>0, <2>2, PushKeeps
  <2>3. ASSUME NEW n \in READ_SIZES, INPUT.length > 0, read_available(n) PROVE INPUT' \in Inputs
    BY <1>0, <2>3, ReadKeeps
  <2> QED BY <2>1, <2>2, <2>3, InputSteps
<1>2. QUEUE' \in Queues
  <2>1. UNCHANGED <<QUEUE, key>> => QUEUE' \in Queues
    BY <1>0
  <2>2. ASSUME NEW b \in Keys, enqueue_key(b) PROVE QUEUE' \in Queues
    BY <1>0, <2>2, EnqueueKeeps
  <2>3. ASSUME DequeueStore PROVE QUEUE' \in Queues
    <3>1. QUEUE.tail # QUEUE.head /\ byte = QUEUE.slots[QUEUE.tail]
      BY <2>3 DEF IInv, Dequeuing, DequeueStore
    <3> QED BY <1>0, <2>3, <3>1, StoreKeeps
  <2> QED BY <2>1, <2>2, <2>3, QueueSteps
<1> QED BY <1>1, <1>2

\* Every step leaves the processor with the shell or with a ready task.
LEMMA TasksKeep ==
  ASSUME IInv, [Next]_vars
  PROVE  /\ current' \in Tasks
         /\ state' \in [Users -> {"ready", "blocked", "none"}]
         /\ current' \in Users => state'[current'] = "ready"
<1> DEFINE Fine == /\ current' \in Tasks
                   /\ state' \in [Users -> {"ready", "blocked", "none"}]
                   /\ current' \in Users => state'[current'] = "ready"
<1>0. /\ current \in Tasks /\ state \in [Users -> {"ready", "blocked", "none"}]
      /\ current \in Users => state[current] = "ready"
  BY DEF IInv, Typed, KeysTypeOK
<1>1. UNCHANGED <<current, state>> => Fine
  BY <1>0
<1>2. ASSUME state' \in [Users -> {"ready", "blocked", "none"}], current' = NextTask(Ready(state'))
      PROVE  Fine
  <2>1. Ready(state') \in SUBSET Users /\ \A u \in Ready(state') : state'[u] = "ready"
    BY DEF Ready
  <2>2. NextTask(Ready(state')) \in {"shell"} \cup Ready(state')
    BY <2>1, NextTaskIsReady
  <2>3. "shell" \notin Users
    BY KeyInputAssumption
  <2> QED BY <1>2, <2>1, <2>2, <2>3 DEF Tasks
<1>3. /\ WakeAllBlocked(state) \in [Users -> {"ready", "blocked", "none"}]
      /\ \A u \in Users : state[u] = "ready" => WakeAllBlocked(state)[u] = "ready"
  BY <1>0 DEF WakeAllBlocked
<1>4. ASSUME UNCHANGED current, state' = WakeAllBlocked(state) PROVE Fine
  BY <1>0, <1>3, <1>4
<1> HIDE DEF Fine
<1>5. ShellStep => Fine
  BY <1>1 DEF ShellStep, DequeueTest, DequeueLoad, DequeueStore, Halt
<1>6. ASSUME Tick PROVE Fine
  <2>1. state' = state /\ current' = NextTask(Ready(state))
    BY <1>6 DEF Tick, TimerInterrupt
  <2> QED BY <1>0, <1>2, <2>1
<1>7. ASSUME NEW b \in Keys, KeyForProgram(b) PROVE Fine
  <2>1. UNCHANGED current /\ (state' = WakeAllBlocked(state) \/ state' = state)
    BY <1>7 DEF KeyForProgram
  <2> QED BY <1>1, <1>4, <2>1
<1>8. ASSUME NEW b \in Keys, KeyForShell(b) PROVE Fine
  BY <1>1, <1>8 DEF KeyForShell
<1>9. ASSUME NEW group \in SUBSET Users, InterruptGroup(group) PROVE Fine
  <2>1. /\ state' = [u \in Users |-> IF u \in group THEN "none" ELSE state[u]]
        /\ current' = NextTask(Ready(state'))
    BY <1>9 DEF InterruptGroup
  <2>2. state' \in [Users -> {"ready", "blocked", "none"}]
    BY <1>0, <2>1
  <2> QED BY <1>2, <2>1, <2>2
<1>10. KeyboardSpins => Fine
  BY <1>1 DEF KeyboardSpins
<1>11. ASSUME NEW u \in Users, Launch(u) PROVE Fine
  <2>1. current = "shell" /\ current' = current /\ state' = [state EXCEPT ![u] = "ready"]
    BY <1>11 DEF Launch
  <2>2. "shell" \notin Users
    BY KeyInputAssumption
  <2> QED BY <1>0, <2>1, <2>2 DEF Fine
<1>12. ASSUME NEW u \in Users, Exit(u) PROVE Fine
  <2>1. state' = [state EXCEPT ![u] = "none"] /\ current' = NextTask(Ready(state'))
    BY <1>12 DEF Exit
  <2>2. state' \in [Users -> {"ready", "blocked", "none"}]
    BY <1>0, <2>1
  <2> QED BY <1>2, <2>1, <2>2
<1>13. ASSUME NEW u \in Users, NEW size \in READ_SIZES, FdRead(u, size) PROVE Fine
  <2>1. \/ state' = [state EXCEPT ![u] = "blocked"] /\ current' = NextTask(Ready(state'))
        \/ state' = WakeAllBlocked(state) /\ UNCHANGED current
    BY <1>13 DEF FdRead
  <2>2. state' = [state EXCEPT ![u] = "blocked"] => state' \in [Users -> {"ready", "blocked", "none"}]
    BY <1>0
  <2> QED BY <1>2, <1>4, <2>1, <2>2
<1>14. ASSUME NEW u \in Users, NEW size \in READ_SIZES, SysRead(u, size) PROVE Fine
  BY <1>1, <1>14 DEF SysRead
<1>15. UNCHANGED vars => Fine
  BY <1>1 DEF vars
<1>16. Fine
  BY <1>5, <1>6, <1>7, <1>8, <1>9, <1>10, <1>11, <1>12, <1>13, <1>14, <1>15 DEF Next
<1> QED BY <1>16 DEF Fine

\* The shell's steps keep to their order, and the handler to its lock.
LEMMA ControlKeeps ==
  ASSUME IInv, [Next]_vars
  PROVE  /\ pc' \in {"poll", "load", "store", "empty", "halt"}
         /\ KEYBOARD' \in {"free", "held"} /\ hung' \in BOOLEAN
<1>0. /\ pc \in {"poll", "load", "store", "empty", "halt"}
      /\ KEYBOARD \in {"free", "held"} /\ hung \in BOOLEAN
  BY DEF IInv, Typed, KeysTypeOK
<1>1. Resumed \in {"poll", "load", "store", "empty", "halt"}
  BY <1>0 DEF Resumed
<1>2. ShellStep => pc' \in {"poll", "load", "store", "empty", "halt"} /\ UNCHANGED <<KEYBOARD, hung>>
  BY DEF ShellStep, DequeueTest, DequeueLoad, DequeueStore, Halt
<1>3. Tick => pc' = Resumed /\ UNCHANGED <<KEYBOARD, hung>>
  BY DEF Tick, TimerInterrupt
<1>4. \A b : KeyForProgram(b) => UNCHANGED <<pc, KEYBOARD, hung>>
  BY DEF KeyForProgram
<1>5. \A b : KeyForShell(b) => pc' = Resumed /\ UNCHANGED <<KEYBOARD, hung>>
  BY DEF KeyForShell
<1>6. \A group : InterruptGroup(group) => KEYBOARD' = "held" /\ UNCHANGED <<pc, hung>>
  BY DEF InterruptGroup
<1>7. KeyboardSpins => hung' = TRUE /\ UNCHANGED <<pc, KEYBOARD>>
  BY DEF KeyboardSpins
<1>8. \A u : Launch(u) \/ Exit(u) => UNCHANGED <<pc, KEYBOARD, hung>>
  BY DEF Launch, Exit
<1>9. \A u, size : FdRead(u, size) \/ SysRead(u, size) => UNCHANGED <<pc, KEYBOARD, hung>>
  BY DEF FdRead, SysRead
<1>10. UNCHANGED vars => UNCHANGED <<pc, KEYBOARD, hung>>
  BY DEF vars
<1> QED BY <1>0, <1>1, <1>2, <1>3, <1>4, <1>5, <1>6, <1>7, <1>8, <1>9, <1>10 DEF Next

\* What the shell knows of its queue stays true while the handler fills it.
LEMMA DequeuingKeeps ==
  ASSUME IInv, [Next]_vars
  PROVE  Dequeuing'
<1>0. /\ QUEUE \in Queues
      /\ pc \in {"load", "store"} => QUEUE.tail # QUEUE.head
      /\ pc = "store" => byte = QUEUE.slots[QUEUE.tail]
  BY DEF IInv, Typed, Dequeuing
<1>1. UNCHANGED <<QUEUE, pc, byte>> => Dequeuing'
  BY <1>0 DEF Dequeuing
<1>2. Resumed \in {"load", "store"} => Resumed = pc
  BY DEF Resumed
<1>3. ASSUME ShellStep PROVE Dequeuing'
  <2>1. DequeueTest => Dequeuing'
    BY DEF DequeueTest, Dequeuing
  <2>2. DequeueLoad => Dequeuing'
    BY <1>0 DEF DequeueLoad, Dequeuing
  <2>3. DequeueStore \/ Halt => Dequeuing'
    BY DEF DequeueStore, Halt, Dequeuing
  <2> QED BY <1>3, <2>1, <2>2, <2>3 DEF ShellStep
<1>4. Tick => Dequeuing'
  BY <1>0, <1>2 DEF Tick, TimerInterrupt, Dequeuing
<1>5. ASSUME NEW b \in Keys, KeyForShell(b) PROVE Dequeuing'
  <2>1. enqueue_key(b) /\ pc' = Resumed /\ byte' = byte
    BY <1>5 DEF KeyForShell
  <2>2. /\ QUEUE'.tail = QUEUE.tail
        /\ QUEUE.tail # QUEUE.head => /\ QUEUE'.head # QUEUE.tail
                                      /\ QUEUE'.slots[QUEUE.tail] = QUEUE.slots[QUEUE.tail]
    BY <1>0, <2>1, EnqueueKeeps
  <2> QED BY <1>0, <1>2, <2>1, <2>2 DEF Dequeuing
<1>6. \A b : KeyForProgram(b) => UNCHANGED <<QUEUE, pc, byte>>
  BY DEF KeyForProgram
<1>7. \A group : InterruptGroup(group) => UNCHANGED <<QUEUE, pc, byte>>
  BY DEF InterruptGroup
<1>8. KeyboardSpins \/ UNCHANGED vars => UNCHANGED <<QUEUE, pc, byte>>
  BY DEF KeyboardSpins, vars
<1>9. \A u : Launch(u) \/ Exit(u) => UNCHANGED <<QUEUE, pc, byte>>
  BY DEF Launch, Exit
<1>10. \A u, size : FdRead(u, size) \/ SysRead(u, size) => UNCHANGED <<QUEUE, pc, byte>>
  BY DEF FdRead, SysRead
<1> QED BY <1>1, <1>3, <1>4, <1>5, <1>6, <1>7, <1>8, <1>9, <1>10 DEF Next

\* Whoever leaves a character behind leaves nobody blocked.
LEMMA WakeKeeps ==
  ASSUME IInv, [Next]_vars
  PROVE  CharactersWake'
<1> DEFINE Blocked == \E u \in Users : state[u] = "blocked"
<1>0. PICK c, f, h, n :
        c = INPUT_CAPACITY /\ f = INPUT.bytes /\ h = INPUT.head /\ n = INPUT.length
  OBVIOUS
<1>1. /\ c \in Nat \ {0} /\ f \in [0 .. c - 1 -> Nat] /\ h \in 0 .. c - 1 /\ n \in 0 .. c
      /\ INPUT \in Inputs /\ state \in [Users -> {"ready", "blocked", "none"}]
  BY <1>0, KeyInputAssumption DEF IInv, Typed, Inputs, KeysTypeOK
<1>2. Blocked => \A i \in 0 .. n - 1 : f[(h + i) % c] \in SpecialKeys
  BY <1>0 DEF IInv, CharactersWake
<1>3. ASSUME Blocked' => Blocked, UNCHANGED INPUT PROVE CharactersWake'
  BY <1>0, <1>2, <1>3 DEF CharactersWake
<1>4. ASSUME state' = WakeAllBlocked(state) PROVE CharactersWake'
  BY <1>4 DEF CharactersWake, WakeAllBlocked
<1>5. UNCHANGED <<state, INPUT>> => CharactersWake'
  BY <1>3
<1>6. ASSUME NEW b \in Keys, KeyForProgram(b) PROVE CharactersWake'
  <2>1. b \in OrdinaryKeys \/ b \in SpecialKeys
    BY <1>6 DEF KeyForProgram, Keys
  <2>2. b \in OrdinaryKeys => CharactersWake'
    BY <1>4, <1>6 DEF KeyForProgram
  <2>3. CASE b \in SpecialKeys /\ UNCHANGED state
    <3>1. CASE n = c
      BY <1>0, <1>5, <1>6, <2>3, <3>1 DEF KeyForProgram, push
    <3>2. CASE n # c
      <4>1. INPUT' = [INPUT EXCEPT !.bytes[(h + n) % c] = b, !.length = n + 1]
        BY <1>0, <1>6, <3>2 DEF KeyForProgram, push
      <4>2. PICK r : r = (h + n) % c
        OBVIOUS
      <4>3. INPUT'.bytes = [f EXCEPT ![r] = b] /\ INPUT'.head = h /\ INPUT'.length = n + 1
        BY <1>0, <1>1, <4>1, <4>2 DEF Inputs
      <4>4. ASSUME Blocked, NEW i \in 0 .. n
            PROVE  INPUT'.bytes[(h + i) % c] \in SpecialKeys
        <5>1. (h + i) % c \in 0 .. c - 1
          <6>1. h + i \in Nat
            BY <1>1
          <6> QED BY <1>1, <6>1, Within
        <5>2. CASE i = n
          <6>1. INPUT'.bytes[r] = b
            BY <1>1, <4>2, <4>3, <5>1, <5>2
          <6> QED BY <2>3, <4>2, <5>2, <6>1
        <5>3. CASE i # n
          <6>1. i \in 0 .. n - 1
            BY <1>1, <5>3
          <6>2. PICK q : q = (h + i) % c
            OBVIOUS
          <6>3. f[q] \in SpecialKeys /\ q \in 0 .. c - 1
            BY <1>2, <4>4, <5>1, <6>1, <6>2
          <6>4. INPUT'.bytes[q] = b \/ INPUT'.bytes[q] = f[q]
            BY <1>1, <4>3, <6>3
          <6> QED BY <2>3, <6>2, <6>3, <6>4
        <5> QED BY <5>2, <5>3
      <4>5. 0 .. (n + 1) - 1 = 0 .. n
        BY <1>1
      <4> QED BY <1>0, <2>3, <4>3, <4>4, <4>5 DEF CharactersWake
    <3> QED BY <3>1, <3>2
  <2> QED BY <1>6, <2>1, <2>2, <2>3 DEF KeyForProgram
<1>7. ASSUME NEW u \in Users, NEW size \in READ_SIZES, SysRead(u, size) PROVE CharactersWake'
  <2>1. INPUT.length > 0 /\ read_available(size) /\ UNCHANGED state
    BY <1>7 DEF SysRead
  <2>2. PICK k \in 1 .. n : INPUT' = [INPUT EXCEPT !.head = (h + k) % c, !.length = n - k]
    BY <1>0, <1>1, <2>1, ReadKeeps
  <2>3. INPUT'.bytes = f /\ INPUT'.head = (h + k) % c /\ INPUT'.length = n - k
    BY <1>0, <1>1, <2>2 DEF Inputs
  <2>4. ASSUME Blocked, NEW i \in 0 .. (n - k) - 1
        PROVE  f[(((h + k) % c) + i) % c] \in SpecialKeys
    <3>1. k \in 0 .. c /\ i \in Nat /\ k + i < c /\ k + i \in 0 .. n - 1
      BY <1>1
    <3>2. (((h + k) % c) + i) % c = (h + (k + i)) % c
      BY <1>1, <3>1, Shift
    <3> QED BY <1>2, <2>4, <3>1, <3>2
  <2> QED BY <1>0, <2>1, <2>3, <2>4 DEF CharactersWake
<1>8. ASSUME NEW u \in Users, NEW size \in READ_SIZES, FdRead(u, size) PROVE CharactersWake'
  <2>1. CASE INPUT.length = 0
    <3>1. UNCHANGED INPUT
      BY <1>8, <2>1 DEF FdRead
    <3>2. 0 .. 0 - 1 = {}
      OBVIOUS
    <3> QED BY <2>1, <3>1, <3>2 DEF CharactersWake
  <2>2. CASE INPUT.length # 0
    BY <1>4, <1>8, <2>2 DEF FdRead
  <2> QED BY <2>1, <2>2
<1>9. ASSUME NEW u \in Users, Launch(u) \/ Exit(u) PROVE CharactersWake'
  <2>1. /\ UNCHANGED INPUT
        /\ state' = [state EXCEPT ![u] = "ready"] \/ state' = [state EXCEPT ![u] = "none"]
    BY <1>9 DEF Launch, Exit
  <2>2. Blocked' => Blocked
    BY <1>1, <2>1
  <2> QED BY <1>3, <2>1, <2>2
<1>10. ASSUME NEW group \in SUBSET Users, InterruptGroup(group) PROVE CharactersWake'
  <2>1. UNCHANGED INPUT /\ state' = [u \in Users |-> IF u \in group THEN "none" ELSE state[u]]
    BY <1>10 DEF InterruptGroup
  <2>2. Blocked' => Blocked
    BY <2>1
  <2> QED BY <1>3, <2>1, <2>2
<1>11. ShellStep \/ Tick \/ KeyboardSpins \/ UNCHANGED vars => UNCHANGED <<state, INPUT>>
  BY DEF ShellStep, DequeueTest, DequeueLoad, DequeueStore, Halt, Tick, TimerInterrupt,
         KeyboardSpins, vars
<1>12. \A b : KeyForShell(b) => UNCHANGED <<state, INPUT>>
  BY DEF KeyForShell
<1> QED BY <1>5, <1>6, <1>7, <1>8, <1>9, <1>10, <1>11, <1>12 DEF Next

\* Every step keeps the invariant.
LEMMA NextIInv ==
  ASSUME IInv, [Next]_vars
  PROVE  IInv'
<1>1. INPUT' \in Inputs /\ QUEUE' \in Queues
  BY RingsKeep
<1>2. KeysTypeOK'
  <2>1. /\ INPUT'.head \in 0 .. INPUT_CAPACITY - 1 /\ INPUT'.length \in 0 .. INPUT_CAPACITY
        /\ QUEUE'.head \in 0 .. QUEUE_CAPACITY - 1 /\ QUEUE'.tail \in 0 .. QUEUE_CAPACITY - 1
    BY <1>1 DEF Inputs, Queues
  <2> QED BY <2>1, TasksKeep, ControlKeeps, Zenon DEF KeysTypeOK
<1>3. Typed'
  BY <1>1, <1>2 DEF Typed, Inputs, Queues
<1> QED BY <1>3, DequeuingKeeps, WakeKeeps DEF IInv

-----------------------------------------------------------------------------

\* The invariant the other theorems rest on.
THEOREM KeysInvariant == Spec => []IInv
<1>1. Init => IInv
  BY InitIInv
<1>2. IInv /\ [Next]_vars => IInv'
  BY NextIInv
<1> QED BY <1>1, <1>2, PTL DEF Spec

\* The indices of both rings stay within them and the processor is given to
\* the shell or to a ready program, in every reachable state.
THEOREM KeysTypes == Spec => []KeysTypeOK
<1>1. IInv => KeysTypeOK
  BY DEF IInv, Typed
<1> QED BY <1>1, KeysInvariant, PTL

\* No program sleeps in fd_read on a character: keyboard handler and readers
\* together wake every blocked program that has one to read.
THEOREM NoCharacterIsMissed == Spec => []CharactersWake
<1>1. IInv => CharactersWake
  BY DEF IInv
<1> QED BY <1>1, KeysInvariant, PTL

\* The ring of drivers/input.rs implements a queue of INPUT_CAPACITY bytes.
THEOREM InputImplementsQueue == Spec => InputIsQueue
<1>1. Init => Input!Init
  <2> SUFFICES ASSUME Init PROVE Input!Init
    OBVIOUS
  <2>1. INPUT.length = 0 /\ read = <<>>
    BY DEF Init, NewInput
  <2>2. 1 .. 0 = {}
    OBVIOUS
  <2>3. [i \in 1 .. INPUT.length |-> INPUT.bytes[(INPUT.head + i - 1) % INPUT_CAPACITY]] = <<>>
    BY <2>1, <2>2
  <2> QED BY <2>1, <2>3 DEF Input!Init
<1>2. IInv /\ [Next]_vars => Input!Step
  <2> SUFFICES ASSUME IInv, [Next]_vars PROVE Input!Step
    OBVIOUS
  <2>0. INPUT \in Inputs
    BY DEF IInv, Typed
  <2>1. UNCHANGED <<INPUT, read>> => Input!Step
    BY DEF Input!Step
  <2>2. ASSUME NEW b \in Keys, push(b), UNCHANGED read PROVE Input!Step
    <3>1. \/ UNCHANGED INPUT
          \/ /\ Len(InputItems) < INPUT_CAPACITY
             /\ Len(InputItems') = Len(InputItems) + 1
             /\ SubSeq(InputItems', 1, Len(InputItems)) = InputItems
      BY <2>0, <2>2, PushKeeps
    <3> QED BY <2>1, <2>2, <3>1 DEF InputItems, RingItems, Input!Step, Input!Push
  <2>3. ASSUME NEW size \in READ_SIZES, INPUT.length > 0, read_available(size) PROVE Input!Step
    <3>1. \E k \in 1 .. Len(InputItems) :
            /\ read' = SubSeq(InputItems, 1, k)
            /\ InputItems' = SubSeq(InputItems, k + 1, Len(InputItems))
      BY <2>0, <2>3, ReadKeeps
    <3> QED BY <3>1, Zenon DEF InputItems, RingItems, Input!Step, Input!Take
  <2> QED BY <2>1, <2>2, <2>3, InputSteps
<1> QED BY <1>1, <1>2, KeysInvariant, PTL DEF Spec, InputIsQueue, Input!Spec, Input!Step

\* The shell's ring without a lock implements a queue of QUEUE_CAPACITY - 1
\* keys, wherever in dequeue_key the keyboard interrupt comes.
THEOREM ShellRingImplementsQueue == Spec => QueueIsQueue
<1>1. Init => Queue!Init
  <2> SUFFICES ASSUME Init PROVE Queue!Init
    OBVIOUS
  <2>1. QUEUE.head = 0 /\ QUEUE.tail = 0 /\ key = <<>>
    BY DEF Init, NewQueue
  <2>2. QueueLength = 0
    <3>1. QUEUE_CAPACITY \in Nat \ {0} /\ 0 \in 0 .. QUEUE_CAPACITY - 1
      BY KeyInputAssumption
    <3>2. Count(QUEUE_CAPACITY, 0, 0) = 0
      BY <3>1, CountIs
    <3> QED BY <2>1, <3>2 DEF QueueLength, Count
  <2>3. 1 .. 0 = {}
    OBVIOUS
  <2>4. [i \in 1 .. QueueLength |-> QUEUE.slots[(QUEUE.tail + i - 1) % QUEUE_CAPACITY]] = <<>>
    BY <2>2, <2>3
  <2> QED BY <2>1, <2>4 DEF Queue!Init
<1>2. IInv /\ [Next]_vars => Queue!Step
  <2> SUFFICES ASSUME IInv, [Next]_vars PROVE Queue!Step
    OBVIOUS
  <2>0. QUEUE \in Queues
    BY DEF IInv, Typed
  <2>1. UNCHANGED <<QUEUE, key>> => Queue!Step
    BY DEF Queue!Step, QueueLength
  <2>2. ASSUME NEW b \in Keys, enqueue_key(b), UNCHANGED key PROVE Queue!Step
    <3>1. \/ UNCHANGED QUEUE
          \/ /\ Len(QueueItems) < QUEUE_CAPACITY - 1
             /\ Len(QueueItems') = Len(QueueItems) + 1
             /\ SubSeq(QueueItems', 1, Len(QueueItems)) = QueueItems
      BY <2>0, <2>2, EnqueueKeeps
    <3> QED BY <2>1, <2>2, <3>1 DEF QueueItems, RingItems, Queue!Step, Queue!Push
  <2>3. ASSUME DequeueStore PROVE Queue!Step
    <3>1. QUEUE.tail # QUEUE.head /\ byte = QUEUE.slots[QUEUE.tail]
      BY <2>3 DEF IInv, Dequeuing, DequeueStore
    <3>2. \E n \in 1 .. Len(QueueItems) :
            /\ key' = SubSeq(QueueItems, 1, n)
            /\ QueueItems' = SubSeq(QueueItems, n + 1, Len(QueueItems))
      BY <2>0, <2>3, <3>1, StoreKeeps
    <3> QED BY <3>2, Zenon DEF QueueItems, RingItems, Queue!Step, Queue!Take
  <2> QED BY <2>1, <2>2, <2>3, QueueSteps
<1> QED BY <1>1, <1>2, KeysInvariant, PTL DEF Spec, QueueIsQueue, Queue!Spec, Queue!Step
=============================================================================
