-------------------------- MODULE BlinkList_proofs --------------------------
(***************************************************************************)
(* Proofs about module BlinkList: types, and that what a location shows is *)
(* what the status of its entry says.  Both hold whatever the list looks   *)
(* like, also after an entry was added at the corner.  Then the list       *)
(* itself, when nothing is added at the corner: it leads to the entries    *)
(* that are not free, and synchronised entries blink together.             *)
(***************************************************************************)
EXTENDS BlinkList, FiniteSetTheorems, WellFoundedInduction, TLAPS

\* Entries keep their types through every change the code makes to one.

LEMMA ZeroTyped == Zero \in Records /\ Zero.countdown <= Phased(Zero)
BY DEF Zero, Records, Locations, Chars, Lengths, NULL, Phased

LEMMA EntryTyped ==
  ASSUME TypeOK, NEW b \in Blinks
  PROVE  Entry(b) \in Records /\ Entry(b).countdown <= Phased(Entry(b))
<1>1. /\ b.location \in Locations /\ b.on_length \in Nat
      /\ {b.on_length, b.off_length} \subseteq Lengths
      /\ {b.on_char, b.off_char} \subseteq Chars
  BY ConstantsAssumption DEF Locations, Lengths, Chars
<1>2. mp1_list_head \in Nodes \cup {NULL}
  BY DEF TypeOK
<1>3. Entry(b) \in Records
  BY <1>1, <1>2 DEF Entry, Records
<1>4. Phased(Entry(b)) = b.on_length /\ Entry(b).countdown = b.on_length
  BY DEF Entry, Phased
<1> QED
  BY <1>1, <1>3, <1>4

LEMMA LengthsNat == Lengths \subseteq Nat
BY ConstantsAssumption DEF Lengths

LEMMA PhasedNat ==
  ASSUME NEW e \in Records
  PROVE  Phased(e) \in Nat /\ Phased(e) \in Lengths
BY LengthsNat DEF Phased, Records

LEMMA ToggledTyped ==
  ASSUME NEW e \in Records
  PROVE  Toggled(e) \in Records /\ Toggled(e).countdown <= Phased(Toggled(e))
<1> DEFINE n == IF e.status = 1 THEN e.off_length ELSE e.on_length
           t == 1 - e.status
           d == [e EXCEPT !.countdown = n, !.status = t]
<1>1. n \in Nat /\ t \in {0, 1} /\ (e.status = 1 <=> t = 0)
  <2>1. /\ e.on_length \in Lengths /\ e.off_length \in Lengths
        /\ e.status \in {0, 1}
    BY DEF Records
  <2>2. n \in Nat
    BY <2>1, LengthsNat
  <2>3. t \in {0, 1}
    BY <2>1
  <2>4. e.status = 1 <=> t = 0
    BY <2>1
  <2> QED
    BY <2>2, <2>3, <2>4
<1>2. n = IF t = 1 THEN e.on_length ELSE e.off_length
  BY <1>1
<1>3. Toggled(e) = d
  BY DEF Toggled
<1> HIDE DEF n, t
<1>4. d \in Records /\ d.countdown = n /\ d.status = t
  BY <1>1 DEF Records
<1>5. d.on_length = e.on_length /\ d.off_length = e.off_length
  BY DEF Records
<1>6. Phased(d) = n
  BY <1>1, <1>2, <1>4, <1>5 DEF Phased
<1> HIDE DEF d
<1> QED
  BY <1>1, <1>3, <1>4, <1>6

\* Poke changes the character and the owner of one location.
LEMMA Poked ==
  ASSUME TypeOK, NEW l, NEW c \in Chars, NEW i \in Nodes \cup {NULL},
         Poke(l, c, i)
  PROVE  /\ vmem' \in [Locations -> Chars]
         /\ owner' \in [Locations -> Nodes \cup {NULL}]
BY DEF TypeOK, Poke

\* A step from one well-typed array to another.
LEMMA Retyped ==
  ASSUME TypeOK, NEW a \in [Nodes -> Records],
         \A i \in Nodes : a[i].countdown <= Phased(a[i]),
         blink_array' = a,
         mp1_list_head' \in Nodes \cup {NULL}, at' \in Nodes \cup {NULL},
         vmem' \in [Locations -> Chars],
         owner' \in [Locations -> Nodes \cup {NULL}],
         paired' \subseteq Nodes \X Nodes
  PROVE  TypeOK'
BY DEF TypeOK, Phased

\* Whatever is added, removed or synchronised between two ticks, entries have
\* types, and no countdown is longer than the state it is in.
THEOREM Typed == Spec => []TypeOK
<1>1. Init => TypeOK
  <2> SUFFICES ASSUME Init PROVE TypeOK
    OBVIOUS
  <2>1. "nul" \in Chars
    BY DEF Chars
  <2>2. \A i \in Nodes : blink_array[i] = Zero
    BY DEF Init
  <2>3. blink_array \in [Nodes -> Records]
    BY ZeroTyped DEF Init
  <2> QED
    BY <2>1, <2>2, <2>3, ZeroTyped DEF Init, TypeOK
<1>2. TypeOK /\ [Next]_vars => TypeOK'
  <2> SUFFICES ASSUME TypeOK, [Next]_vars PROVE TypeOK'
    OBVIOUS
  <2> USE DEF NULL
  <2>1. CASE \E b \in Blinks, i \in Nodes : Add(b, i)
    <3>1. PICK b \in Blinks, i \in Nodes : Add(b, i)
      BY <2>1
    <3> DEFINE e == Entry(b)
    <3>2. e \in Records /\ e.countdown <= Phased(e)
      BY EntryTyped
    <3> HIDE DEF e
    <3> DEFINE a == [blink_array EXCEPT ![i] = e]
    <3>3. a \in [Nodes -> Records]
      BY <3>2 DEF TypeOK
    <3>4. \A j \in Nodes : a[j].countdown <= Phased(a[j])
      BY <3>2 DEF TypeOK
    <3>5. blink_array' = a
      BY <3>1 DEF Add, e
    <3>6. b.on_char \in Chars
      BY DEF Chars
    <3>7. Poke(b.location, b.on_char, i)
      BY <3>1 DEF Add
    <3>8. /\ vmem' \in [Locations -> Chars]
          /\ owner' \in [Locations -> Nodes \cup {NULL}]
      BY <3>6, <3>7, Poked
    <3>9. /\ mp1_list_head' \in Nodes \cup {NULL} /\ at' \in Nodes \cup {NULL}
          /\ paired' \subseteq Nodes \X Nodes
      BY <3>1 DEF Add, TypeOK, Without
    <3> HIDE DEF a
    <3> QED
      BY <3>3, <3>4, <3>5, <3>8, <3>9, Retyped
  <2>2. CASE \E l \in Locations : Remove(l)
    <3>1. PICK l \in Locations, i \in Nodes :
            /\ blink_array' = Unlinked(i)
            /\ mp1_list_head' = IF mp1_list_head = i THEN blink_array[i].next
                                                     ELSE mp1_list_head
            /\ owner' = [owner EXCEPT ![l] = IF @ = i THEN NULL ELSE @]
            /\ paired' = Without(i)
            /\ UNCHANGED <<vmem, at>>
      BY <2>2 DEF Remove
    <3> DEFINE a == Unlinked(i)
    <3>2. \A j \in Nodes : \/ a[j] = Zero \/ a[j] = blink_array[j]
                           \/ a[j] = [blink_array[j] EXCEPT
                                        !.next = blink_array[i].next]
      BY DEF Unlinked
    <3>3. \A j \in Nodes : a[j] \in Records /\ a[j].countdown <= Phased(a[j])
      <4> TAKE j \in Nodes
      <4>1. /\ blink_array[j] \in Records /\ blink_array[i].next \in Nodes \cup {NULL}
            /\ blink_array[j].countdown <= Phased(blink_array[j])
        BY DEF TypeOK, Records
      <4>2. CASE a[j] = Zero
        BY <4>2, ZeroTyped
      <4>3. CASE a[j] = blink_array[j]
        BY <4>1, <4>3
      <4>4. CASE a[j] = [blink_array[j] EXCEPT !.next = blink_array[i].next]
        <5> HIDE DEF a
        <5> QED BY <4>1, <4>4 DEF Records, Phased
      <4> QED
        BY <3>2, <4>2, <4>3, <4>4
    <3>4. a \in [Nodes -> Records]
      <4>1. a = [j \in Nodes |-> a[j]]
        BY DEF Unlinked
      <4> HIDE DEF a
      <4> QED BY <3>3, <4>1
    <3>5. /\ mp1_list_head' \in Nodes \cup {NULL} /\ at' \in Nodes \cup {NULL}
          /\ vmem' \in [Locations -> Chars]
          /\ owner' \in [Locations -> Nodes \cup {NULL}]
          /\ paired' \subseteq Nodes \X Nodes
      BY <3>1 DEF TypeOK, Records, Without
    <3>6. blink_array' = a
      BY <3>1
    <3> HIDE DEF a
    <3> QED
      BY <3>3, <3>4, <3>5, <3>6, Retyped
  <2>3. CASE \E l, m \in Locations : Sync(l, m)
    <3>1. PICK l \in Locations, m \in Locations, i \in Nodes, j \in Nodes :
            /\ blink_array' = Synced(i, j)
            /\ Poke(m, blink_array[j].off_char,
                    IF blink_array[i].status = 0 THEN j ELSE NULL)
            /\ paired' = Without(j) \cup {<<i, j>>}
            /\ UNCHANGED <<mp1_list_head, at>>
      BY <2>3 DEF Sync
    <3> DEFINE e == [blink_array[j] EXCEPT
                       !.on_length = blink_array[i].on_length,
                       !.off_length = blink_array[i].off_length,
                       !.countdown = blink_array[i].countdown,
                       !.status = blink_array[i].status]
               a == [blink_array EXCEPT ![j] = e]
    <3>2. /\ blink_array[i] \in Records /\ blink_array[j] \in Records
          /\ blink_array[i].countdown <= Phased(blink_array[i])
      BY DEF TypeOK
    <3>3. blink_array' = a
      BY <3>1 DEF Synced, TypeOK
    <3>4. e \in Records /\ e.countdown <= Phased(e)
      BY <3>2 DEF Records, Phased
    <3> HIDE DEF e
    <3>5. a \in [Nodes -> Records]
      BY <3>4 DEF TypeOK
    <3>6. \A k \in Nodes : a[k].countdown <= Phased(a[k])
      BY <3>4 DEF TypeOK
    <3>7. blink_array[j].off_char \in Chars
      BY <3>2 DEF Records
    <3>8. (IF blink_array[i].status = 0 THEN j ELSE NULL) \in Nodes \cup {NULL}
      OBVIOUS
    <3>9. /\ vmem' \in [Locations -> Chars]
          /\ owner' \in [Locations -> Nodes \cup {NULL}]
      BY <3>1, <3>7, <3>8, Poked
    <3>10. /\ mp1_list_head' \in Nodes \cup {NULL} /\ at' \in Nodes \cup {NULL}
           /\ paired' \subseteq Nodes \X Nodes
      BY <3>1 DEF TypeOK, Without
    <3> HIDE DEF a
    <3> QED
      BY <3>3, <3>5, <3>6, <3>9, <3>10, Retyped
  <2>4. CASE Tasklet
    BY <2>4 DEF Tasklet, TypeOK, Phased
  <2>5. CASE TaskletEntry
    <3> DEFINE e == blink_array[at]
    <3>1. /\ at \in Nodes /\ e \in Records /\ e.countdown <= Phased(e)
          /\ e.next \in Nodes \cup {NULL}
      BY <2>5 DEF TaskletEntry, TypeOK, Records
    <3>2. /\ mp1_list_head' \in Nodes \cup {NULL} /\ at' \in Nodes \cup {NULL}
          /\ paired' \subseteq Nodes \X Nodes
      BY <2>5, <3>1 DEF TaskletEntry, TypeOK
    <3>3. CASE e.countdown - 1 > 0
      <4> DEFINE n == [e EXCEPT !.countdown = @ - 1]
                 a == [blink_array EXCEPT ![at] = n]
      <4>1. n \in Records /\ n.countdown <= Phased(n)
        <5> HIDE DEF e
        <5>1. e.countdown \in Nat /\ Phased(e) \in Nat
          BY <3>1, PhasedNat DEF Records
        <5>2. n \in Records /\ n.countdown = e.countdown - 1
          BY <3>1, <3>3, <5>1 DEF Records
        <5>3. Phased(n) = Phased(e)
          BY <3>1 DEF Records, Phased
        <5> QED
          BY <3>1, <5>1, <5>2, <5>3
      <4>2. blink_array' = a /\ UNCHANGED <<vmem, owner>>
        BY <2>5, <3>3 DEF TaskletEntry
      <4> HIDE DEF n
      <4>3. a \in [Nodes -> Records]
        BY <4>1 DEF TypeOK
      <4>4. \A k \in Nodes : a[k].countdown <= Phased(a[k])
        BY <4>1 DEF TypeOK
      <4>5. /\ vmem' \in [Locations -> Chars]
            /\ owner' \in [Locations -> Nodes \cup {NULL}]
        BY <4>2 DEF TypeOK
      <4> HIDE DEF a
      <4> QED
        BY <3>2, <4>2, <4>3, <4>4, <4>5, Retyped
    <3>4. CASE ~(e.countdown - 1 > 0)
      <4> DEFINE n == Toggled(e)
                 a == [blink_array EXCEPT ![at] = n]
                 c == IF e.status = 1 THEN e.off_char ELSE e.on_char
      <4>1. n \in Records /\ n.countdown <= Phased(n)
        BY <3>1, ToggledTyped
      <4>2. blink_array' = a /\ Poke(e.location, c, at)
        BY <2>5, <3>4 DEF TaskletEntry
      <4>3. c \in Chars
        BY <3>1 DEF Records
      <4>4. /\ vmem' \in [Locations -> Chars]
            /\ owner' \in [Locations -> Nodes \cup {NULL}]
        BY <3>1, <4>2, <4>3, Poked
      <4> HIDE DEF n
      <4>5. a \in [Nodes -> Records]
        BY <4>1 DEF TypeOK
      <4>6. \A k \in Nodes : a[k].countdown <= Phased(a[k])
        BY <4>1 DEF TypeOK
      <4> HIDE DEF a
      <4> QED
        BY <3>2, <4>2, <4>4, <4>5, <4>6, Retyped
    <3> QED
      BY <3>3, <3>4
  <2>6. CASE UNCHANGED vars
    BY <2>6 DEF vars, TypeOK, Phased
  <2> QED
    BY <2>1, <2>2, <2>3, <2>4, <2>5, <2>6 DEF Next
<1> QED
  BY <1>1, <1>2, PTL DEF Spec

-----------------------------------------------------------------------------
\* A location other than the corner shows the character its entry's status
\* asks for, through every order of add, remove, sync and ticks: the owner of
\* a location is never freed or moved behind its back.
THEOREM Phases == Spec => []Phase
<1>1. Init => Phase
  BY DEF Init, Phase, NULL
<1>2. TypeOK /\ Phase /\ [Next]_vars => Phase'
  <2> SUFFICES ASSUME TypeOK, Phase, [Next]_vars PROVE Phase'
    OBVIOUS
  <2> SUFFICES ASSUME NEW l \in Locations \ {0}, owner'[l] # NULL
               PROVE  LET e == blink_array'[owner'[l]]
                      IN  /\ e.location = l
                          /\ vmem'[l] = IF e.status = 1 THEN e.on_char
                                                        ELSE e.off_char
    BY DEF Phase
  <2> DEFINE o == owner[l]
             Shows(e) == /\ e.location = l
                         /\ vmem[l] = IF e.status = 1 THEN e.on_char
                                                      ELSE e.off_char
  <2>1. o # NULL => o \in Nodes /\ Shows(blink_array[o])
    BY DEF Phase, TypeOK
  <2>2. CASE \E b \in Blinks, i \in Nodes : Add(b, i)
    <3>1. PICK b \in Blinks, i \in Nodes : Add(b, i)
      BY <2>2
    <3>2. /\ Poke(b.location, b.on_char, i)
          /\ blink_array' = [blink_array EXCEPT ![i] = Entry(b)]
          /\ blink_array[i].location = 0
      BY <3>1 DEF Add, Malloc, Free
    <3>3. blink_array'[i] = Entry(b)
      BY <3>2 DEF TypeOK
    <3>4. CASE l = b.location
      BY <3>2, <3>3, <3>4 DEF Poke, Entry, TypeOK
    <3>5. CASE l # b.location
      <4>1. owner'[l] = o /\ vmem'[l] = vmem[l]
        BY <3>2, <3>5 DEF Poke, TypeOK
      <4>2. o # i
        BY <2>1, <3>2, <4>1
      <4>3. blink_array'[o] = blink_array[o]
        BY <2>1, <3>2, <4>1, <4>2 DEF TypeOK
      <4> QED
        BY <2>1, <4>1, <4>3
    <3> QED
      BY <3>4, <3>5
  <2>3. CASE \E m \in Locations : Remove(m)
    <3>1. PICK m \in Locations, i \in Nodes :
            /\ blink_array[i].location = m
            /\ blink_array' = Unlinked(i)
            /\ owner' = [owner EXCEPT ![m] = IF @ = i THEN NULL ELSE @]
            /\ vmem' = vmem
      BY <2>3 DEF Remove, Finds
    <3>2. owner'[l] = o /\ o # i
      <4>1. CASE m = l
        BY <3>1, <4>1 DEF TypeOK
      <4>2. CASE m # l
        BY <2>1, <3>1, <4>2 DEF TypeOK
      <4> QED
        BY <4>1, <4>2
    <3>3. \/ blink_array'[o] = blink_array[o]
          \/ blink_array'[o] = [blink_array[o] EXCEPT
                                  !.next = blink_array[i].next]
      BY <2>1, <3>1, <3>2 DEF Unlinked
    <3>4. blink_array[o] \in Records
      BY <2>1, <3>2 DEF TypeOK
    <3>5. Shows(blink_array'[o])
      BY <2>1, <3>2, <3>3, <3>4 DEF Records
    <3> QED
      BY <3>1, <3>2, <3>5
  <2>4. CASE \E k, m \in Locations : Sync(k, m)
    <3>1. PICK m \in Locations, i \in Nodes, j \in Nodes :
            /\ blink_array[j].location = m
            /\ blink_array' = Synced(i, j)
            /\ Poke(m, blink_array[j].off_char,
                    IF blink_array[i].status = 0 THEN j ELSE NULL)
      BY <2>4 DEF Sync, Finds
    <3>2. blink_array[i] \in Records /\ blink_array[j] \in Records
      BY DEF TypeOK
    <3>3. CASE m = l
      <4>1. /\ vmem'[l] = blink_array[j].off_char
            /\ owner'[l] = j /\ blink_array[i].status = 0
        BY <3>1, <3>3 DEF Poke, TypeOK
      <4>2. /\ blink_array'[j].status = 0
            /\ blink_array'[j].off_char = blink_array[j].off_char
            /\ blink_array'[j].location = l
        BY <3>1, <3>2, <3>3, <4>1 DEF Synced, TypeOK, Records
      <4> QED
        BY <4>1, <4>2
    <3>4. CASE m # l
      <4>1. owner'[l] = o /\ vmem'[l] = vmem[l]
        BY <3>1, <3>4 DEF Poke, TypeOK
      <4>2. o # j
        BY <2>1, <3>1, <3>4, <4>1
      <4>3. blink_array'[o] = blink_array[o]
        BY <2>1, <3>1, <4>1, <4>2 DEF Synced, TypeOK
      <4> QED
        BY <2>1, <4>1, <4>3
    <3> QED
      BY <3>3, <3>4
  <2>5. CASE Tasklet
    BY <2>1, <2>5 DEF Tasklet
  <2>6. CASE TaskletEntry
    <3> DEFINE e == blink_array[at]
    <3>1. at \in Nodes /\ e \in Records
      BY <2>6 DEF TaskletEntry, TypeOK
    <3>2. CASE e.countdown - 1 > 0
      <4> DEFINE c == e.countdown - 1
      <4>1. /\ blink_array' = [blink_array EXCEPT ![at] = [e EXCEPT !.countdown = c]]
            /\ UNCHANGED <<vmem, owner>>
        BY <2>6, <3>2 DEF TaskletEntry
      <4> HIDE DEF c
      <4>2. o \in Nodes /\ Shows(blink_array[o])
        BY <2>1, <4>1
      <4>3. CASE o = at
        <5>1. blink_array'[o] = [e EXCEPT !.countdown = c]
          BY <4>1, <4>2, <4>3 DEF TypeOK
        <5>2. Shows(blink_array'[o])
          BY <3>1, <4>2, <4>3, <5>1 DEF Records
        <5> QED
          BY <4>1, <5>2
      <4>4. CASE o # at
        <5>1. blink_array'[o] = blink_array[o]
          BY <4>1, <4>2, <4>4 DEF TypeOK
        <5> QED
          BY <4>1, <4>2, <5>1
      <4> QED
        BY <4>3, <4>4
    <3>3. CASE ~(e.countdown - 1 > 0)
      <4>1. /\ blink_array' = [blink_array EXCEPT ![at] = Toggled(e)]
            /\ Poke(e.location,
                    IF e.status = 1 THEN e.off_char ELSE e.on_char, at)
        BY <2>6, <3>3 DEF TaskletEntry
      <4>2. CASE l = e.location
        <5>1. /\ owner'[l] = at
              /\ vmem'[l] = IF e.status = 1 THEN e.off_char ELSE e.on_char
          BY <4>1, <4>2 DEF Poke, TypeOK
        <5>2. blink_array'[at] = Toggled(e)
          BY <3>1, <4>1 DEF TypeOK
        <5>3. /\ Toggled(e).location = l
              /\ Toggled(e).on_char = e.on_char
              /\ Toggled(e).off_char = e.off_char
              /\ Toggled(e).status = 1 - e.status
          <6> DEFINE n == IF e.status = 1 THEN e.off_length ELSE e.on_length
                     t == 1 - e.status
          <6>1. Toggled(e) = [e EXCEPT !.countdown = n, !.status = t]
            BY DEF Toggled
          <6> HIDE DEF n, t
          <6>2. /\ Toggled(e).location = l
                /\ Toggled(e).on_char = e.on_char
                /\ Toggled(e).off_char = e.off_char
                /\ Toggled(e).status = t
            BY <3>1, <4>2, <6>1 DEF Records
          <6> QED
            BY <6>2 DEF t
        <5>4. e.status \in {0, 1}
          BY <3>1 DEF Records
        <5> QED
          BY <5>1, <5>2, <5>3, <5>4
      <4>3. CASE l # e.location
        <5>1. owner'[l] = o /\ vmem'[l] = vmem[l]
          BY <4>1, <4>3 DEF Poke, TypeOK
        <5>2. o # at
          BY <2>1, <4>3, <5>1
        <5>3. blink_array'[o] = blink_array[o]
          BY <2>1, <4>1, <5>1, <5>2 DEF TypeOK
        <5> QED
          BY <2>1, <5>1, <5>3
      <4> QED
        BY <4>2, <4>3
    <3> QED
      BY <3>2, <3>3
  <2>7. CASE UNCHANGED vars
    BY <2>1, <2>7 DEF vars
  <2> QED
    BY <2>2, <2>3, <2>4, <2>5, <2>6, <2>7 DEF Next
<1> QED
  BY <1>1, <1>2, Typed, PTL DEF Spec
-----------------------------------------------------------------------------
(***************************************************************************)
(* The list.  Walk is a recursive function: what it computes is shown by   *)
(* an induction over a set of numbers, from the well-foundedness of <.     *)
(***************************************************************************)
\* A set of natural numbers that is not empty has a least element.
LEMMA LeastElement ==
  ASSUME NEW T, T \subseteq Nat, T # {}
  PROVE  \E x \in T : \A y \in T : x <= y
<1> DEFINE R == OpToRel(<, Nat)
<1>1. IsWellFoundedOn(R, Nat)
  BY NatLessThanWellFounded
<1>2. \A x, y \in Nat : y < x => <<y, x>> \in R
  BY DEF OpToRel
<1> HIDE DEF R
<1>3. PICK x \in T : \A y \in T : ~ (<<y, x>> \in R)
  BY <1>1, WFMin
<1>4. \A y \in T : x \in Nat /\ y \in Nat /\ ~(y < x)
  BY <1>2, <1>3
<1>5. \A y \in T : x <= y
  BY <1>4
<1>6. QED
  BY <1>5

\* A set that holds 0 and, with a number, its successor, holds every number.
LEMMA SetInduction ==
  ASSUME NEW T, T \subseteq Nat, 0 \in T, \A n \in T : n + 1 \in T
  PROVE  \A n \in Nat : n \in T
<1> DEFINE F == Nat \ T
<1> SUFFICES ASSUME F # {} PROVE FALSE
  OBVIOUS
<1>1. F \subseteq Nat
  OBVIOUS
<1>2. PICK x \in F : \A y \in F : x <= y
  <2> HIDE DEF F
  <2>1. QED
    BY <1>1, LeastElement
<1>3. x \in Nat /\ x # 0 /\ x - 1 \in Nat
  OBVIOUS
<1>4. x - 1 \notin F
  BY <1>2, <1>3
<1>5. x - 1 + 1 \in T
  BY <1>3, <1>4
<1>6. QED
  BY <1>3, <1>5

\* q lists, from the head, the k entries that are not free.
Chain(k, q) ==
  /\ q \in [1 .. k -> Nodes]
  /\ \A i, j \in 1 .. k : q[i] = q[j] => i = j
  /\ \A e \in Nodes : ~Free(e) <=> \E i \in 1 .. k : q[i] = e
  /\ mp1_list_head = IF k = 0 THEN NULL ELSE q[1]
  /\ \A i \in 1 .. k :
       blink_array[q[i]].next = IF i = k THEN NULL ELSE q[i + 1]

\* Walk follows the list.
LEMMA WalkIs ==
  ASSUME NEW k \in Nat, NEW q, Chain(k, q)
  PROVE  \A n \in Nat : Walk[n] = IF n < k THEN q[n + 1] ELSE NULL
<1> DEFINE g == [n \in Nat |-> IF n < k THEN q[n + 1] ELSE NULL]
<1>1. \A n \in Nat : g[n] = IF n < k THEN q[n + 1] ELSE NULL
  OBVIOUS
<1>2. \A i \in 1 .. k : q[i] \in Nodes /\ q[i] # NULL
  BY DEF Chain, Nodes, NULL
<1>3. g = [n \in Nat |-> IF n = 0 THEN mp1_list_head
                         ELSE IF g[n - 1] = NULL THEN NULL
                              ELSE blink_array[g[n - 1]].next]
  <2> SUFFICES ASSUME NEW n \in Nat
               PROVE  g[n] = IF n = 0 THEN mp1_list_head
                             ELSE IF g[n - 1] = NULL THEN NULL
                                  ELSE blink_array[g[n - 1]].next
    OBVIOUS
  <2> HIDE DEF g
  <2>1. CASE n = 0
    BY <1>1, <2>1 DEF Chain
  <2>2. CASE n # 0 /\ n - 1 < k
    <3>1. g[n - 1] = q[n] /\ n \in 1 .. k
      BY <1>1, <2>2
    <3>2. g[n - 1] # NULL
      BY <1>2, <3>1
    <3>3. blink_array[q[n]].next = IF n = k THEN NULL ELSE q[n + 1]
      BY <3>1 DEF Chain
    <3>4. g[n] = IF n = k THEN NULL ELSE q[n + 1]
      BY <1>1, <2>2
    <3>5. QED
      BY <2>2, <3>1, <3>2, <3>3, <3>4
  <2>3. CASE n # 0 /\ ~(n - 1 < k)
    <3>1. g[n - 1] = NULL /\ g[n] = NULL
      BY <1>1, <2>3
    <3>2. QED
      BY <2>3, <3>1
  <2>4. QED
    BY <2>1, <2>2, <2>3
<1> HIDE DEF g
<1>4. Walk = [n \in Nat |-> IF n = 0 THEN mp1_list_head
                            ELSE IF Walk[n - 1] = NULL THEN NULL
                                 ELSE blink_array[Walk[n - 1]].next]
  BY <1>3 DEF Walk
<1> HIDE DEF Walk
<1> DEFINE T == {n \in Nat : Walk[n] = g[n]}
<1>5. 0 \in T
  BY <1>3, <1>4
<1>6. ASSUME NEW n \in T PROVE n + 1 \in T
  <2>1. n + 1 \in Nat /\ n + 1 # 0 /\ (n + 1) - 1 = n
    OBVIOUS
  <2>2. Walk[n + 1] = IF Walk[n] = NULL THEN NULL
                      ELSE blink_array[Walk[n]].next
    BY <1>4, <2>1
  <2>3. g[n + 1] = IF g[n] = NULL THEN NULL ELSE blink_array[g[n]].next
    BY <1>3, <2>1
  <2>4. QED
    BY <2>1, <2>2, <2>3
<1>7. \A n \in Nat : n \in T
  <2>1. T \subseteq Nat
    OBVIOUS
  <2> HIDE DEF T
  <2>2. QED
    BY <1>5, <1>6, <2>1, SetInduction
<1>8. QED
  BY <1>1, <1>7

\* There are no more entries in the list than in the array.
LEMMA ChainLength ==
  ASSUME NEW k \in Nat, NEW q, Chain(k, q) PROVE k <= NumNodes
<1> SUFFICES ASSUME k > NumNodes PROVE FALSE
  BY ConstantsAssumption
<1>1. /\ IsFiniteSet(1 .. k) /\ Cardinality(1 .. k) = k
      /\ IsFiniteSet(Nodes) /\ Cardinality(Nodes) = NumNodes
  BY FS_Interval, ConstantsAssumption DEF Nodes
<1>2. Cardinality(Nodes) < Cardinality(1 .. k)
  BY <1>1, ConstantsAssumption
<1>3. q \in [1 .. k -> Nodes]
  BY DEF Chain
<1>4. \E x, y \in 1 .. k : x # y /\ q[x] = q[y]
  BY <1>1, <1>2, <1>3, FS_PigeonHole
<1>5. QED
  BY <1>4 DEF Chain

LEMMA ChainLinked ==
  ASSUME NEW k \in Nat, NEW q, Chain(k, q) PROVE Linked
<1>1. \A n \in Nat : Walk[n] = IF n < k THEN q[n + 1] ELSE NULL
  BY WalkIs
<1>2. k <= NumNodes /\ NumNodes \in Nat
  BY ChainLength, ConstantsAssumption
<1>3. \A i \in 1 .. k : q[i] \in Nodes /\ q[i] # NULL
  BY DEF Chain, Nodes, NULL
<1> HIDE DEF Walk
<1>4. Walk[NumNodes] = NULL
  BY <1>1, <1>2
<1>5. {Walk[n] : n \in 0 .. NumNodes} \ {NULL} = {i \in Nodes : ~Free(i)}
  <2>1. ASSUME NEW n \in 0 .. NumNodes, Walk[n] # NULL
        PROVE  Walk[n] \in Nodes /\ ~Free(Walk[n])
    <3>1. n < k /\ Walk[n] = q[n + 1] /\ n + 1 \in 1 .. k
      BY <1>1, <1>2, <2>1
    <3>2. QED
      BY <1>3, <3>1 DEF Chain
  <2>2. ASSUME NEW e \in Nodes, ~Free(e)
        PROVE  e # NULL /\ \E n \in 0 .. NumNodes : Walk[n] = e
    <3>1. PICK i \in 1 .. k : q[i] = e
      BY <2>2 DEF Chain
    <3>2. i - 1 \in 0 .. NumNodes /\ Walk[i - 1] = q[i]
      BY <1>1, <1>2
    <3>3. QED
      BY <1>3, <3>1, <3>2
  <2>3. QED
    BY <2>1, <2>2
<1>6. ASSUME NEW m \in 0 .. NumNodes - 1, NEW n \in 0 .. NumNodes - 1,
             m < n, Walk[n] # NULL
      PROVE  Walk[m] # Walk[n]
  <2>1. n < k /\ m < k /\ m + 1 \in 1 .. k /\ n + 1 \in 1 .. k
          /\ m + 1 # n + 1
    BY <1>1, <1>2, <1>6
  <2>2. Walk[m] = q[m + 1] /\ Walk[n] = q[n + 1]
    BY <1>1, <1>2, <2>1
  <2>3. QED
    BY <2>1, <2>2 DEF Chain
<1>7. QED
  BY <1>4, <1>5, <1>6 DEF Linked

\* mp1_ioctl_add puts the entry at the head.
LEMMA ChainAdd ==
  ASSUME TypeOK, NEW k \in Nat, NEW q, Chain(k, q),
         NEW b \in Blinks, NEW i \in Nodes, b.location # 0, Free(i),
         blink_array' = [blink_array EXCEPT ![i] = Entry(b)],
         mp1_list_head' = i,
         NEW r, r = [j \in 1 .. k + 1 |-> IF j = 1 THEN i ELSE q[j - 1]]
  PROVE  Chain(k + 1, r)'
<1>1. \A j \in 1 .. k : q[j] \in Nodes /\ q[j] # i
  BY DEF Chain
<1>2. /\ r[1] = i
      /\ \A j \in 2 .. k + 1 : j - 1 \in 1 .. k /\ r[j] = q[j - 1]
      /\ \A j \in 1 .. k + 1 : j = 1 \/ j \in 2 .. k + 1
  OBVIOUS
<1>3. r \in [1 .. k + 1 -> Nodes]
  BY <1>1
<1>4. /\ blink_array'[i] = Entry(b)
      /\ \A j \in Nodes \ {i} : blink_array'[j] = blink_array[j]
  BY DEF TypeOK
<1>5. /\ blink_array'[i].next = mp1_list_head
      /\ blink_array'[i].location # 0
  BY <1>4 DEF Entry
<1>6. \A x, y \in 1 .. k + 1 : r[x] = r[y] => x = y
  <2> SUFFICES ASSUME NEW x \in 1 .. k + 1, NEW y \in 1 .. k + 1, r[x] = r[y]
               PROVE  x = y
    OBVIOUS
  <2>1. CASE x = 1 \/ y = 1
    BY <1>1, <1>2, <2>1
  <2>2. CASE x # 1 /\ y # 1
    <3>1. q[x - 1] = q[y - 1] /\ x - 1 \in 1 .. k /\ y - 1 \in 1 .. k
      BY <1>2, <2>2
    <3>2. x - 1 = y - 1
      BY <3>1 DEF Chain
    <3>3. QED
      BY <3>2
  <2>3. QED
    BY <2>1, <2>2
<1>7. ASSUME NEW e \in Nodes
      PROVE  ~(blink_array'[e].location = 0)
               <=> \E j \in 1 .. k + 1 : r[j] = e
  <2>1. CASE e = i
    BY <1>2, <1>5, <2>1
  <2>2. CASE e # i
    <3>1. blink_array'[e].location = 0 <=> Free(e)
      BY <1>4, <2>2 DEF Free
    <3>2. ~Free(e) <=> \E j \in 1 .. k : q[j] = e
      BY DEF Chain
    <3>3. ASSUME NEW j \in 1 .. k, q[j] = e
          PROVE  j + 1 \in 1 .. k + 1 /\ r[j + 1] = e
      BY <1>2, <3>3
    <3>4. ASSUME NEW j \in 1 .. k + 1, r[j] = e
          PROVE  j - 1 \in 1 .. k /\ q[j - 1] = e
      BY <1>2, <2>2, <3>4
    <3>5. QED
      BY <3>1, <3>2, <3>3, <3>4
  <2>3. QED
    BY <2>1, <2>2
<1>8. ASSUME NEW j \in 1 .. k + 1
      PROVE  blink_array'[r[j]].next = IF j = k + 1 THEN NULL ELSE r[j + 1]
  <2>1. CASE j = 1
    <3>1. blink_array'[r[j]].next = IF k = 0 THEN NULL ELSE q[1]
      BY <1>2, <1>5, <2>1 DEF Chain
    <3>2. k # 0 => r[j + 1] = q[1]
      BY <1>2, <2>1
    <3>3. QED
      BY <2>1, <3>1, <3>2
  <2>2. CASE j # 1
    <3>1. j - 1 \in 1 .. k /\ r[j] = q[j - 1]
      BY <1>2, <2>2
    <3>2. blink_array'[r[j]] = blink_array[q[j - 1]]
      BY <1>1, <1>4, <3>1
    <3>3. blink_array[q[j - 1]].next = IF j - 1 = k THEN NULL
                                                    ELSE q[j - 1 + 1]
      BY <3>1 DEF Chain
    <3>4. j # k + 1 => j + 1 \in 2 .. k + 1 /\ r[j + 1] = q[j - 1 + 1]
      BY <1>2, <3>1
    <3>5. QED
      BY <3>1, <3>2, <3>3, <3>4
  <2>3. QED
    BY <2>1, <2>2
<1>9. QED
  BY <1>2, <1>3, <1>6, <1>7, <1>8 DEF Chain, Free

\* A step that moves no entry and frees none.
LEMMA ChainKept ==
  ASSUME NEW k \in Nat, NEW q, Chain(k, q), mp1_list_head' = mp1_list_head,
         \A e \in Nodes : /\ blink_array'[e].location = blink_array[e].location
                          /\ blink_array'[e].next = blink_array[e].next
  PROVE  Chain(k, q)'
<1>1. \A i \in 1 .. k : q[i] \in Nodes
  BY DEF Chain
<1>2. QED
  BY <1>1 DEF Chain, Free

\* mp1_ioctl_remove takes the entry at position d out.
LEMMA ChainRemove ==
  ASSUME TypeOK, NEW k \in Nat, NEW q, Chain(k, q), NEW d \in 1 .. k,
         NEW i, i = q[d], blink_array' = Unlinked(i),
         mp1_list_head' = IF mp1_list_head = i THEN blink_array[i].next
                                               ELSE mp1_list_head,
         NEW r, r = [j \in 1 .. k - 1 |-> IF j < d THEN q[j] ELSE q[j + 1]]
  PROVE  Chain(k - 1, r)'
<1>1. \A j \in 1 .. k : q[j] \in Nodes /\ (q[j] = i <=> j = d)
  BY DEF Chain
<1>2. \A j \in 1 .. k - 1 :
        IF j < d THEN j \in 1 .. k /\ r[j] = q[j]
                 ELSE j + 1 \in 1 .. k /\ r[j] = q[j + 1]
  OBVIOUS
<1>3. r \in [1 .. k - 1 -> Nodes]
  BY <1>1
<1>4. \A n \in Nat : Walk[n] = IF n < k THEN q[n + 1] ELSE NULL
  BY WalkIs
<1>5. k <= NumNodes /\ NumNodes \in Nat
  BY ChainLength, ConstantsAssumption
<1> HIDE DEF Walk
<1>6. \A j \in 1 .. k : \E n \in 0 .. NumNodes - 1 : Walk[n] = q[j]
  <2> TAKE j \in 1 .. k
  <2>1. j - 1 \in 0 .. NumNodes - 1 /\ Walk[j - 1] = q[j]
    BY <1>4, <1>5
  <2>2. QED
    BY <2>1
<1>7. \A e \in Nodes \ {i} :
        /\ blink_array'[e].location = blink_array[e].location
        /\ (\E j \in 1 .. k : q[j] = e) =>
             blink_array'[e].next = IF blink_array[e].next = i
                                    THEN blink_array[i].next
                                    ELSE blink_array[e].next
  <2> TAKE e \in Nodes \ {i}
  <2>1. blink_array[e] \in Records
    BY DEF TypeOK
  <2>2. \/ blink_array'[e] = blink_array[e]
        \/ blink_array'[e] = [blink_array[e] EXCEPT
                                !.next = blink_array[i].next]
    BY DEF Unlinked
  <2>3. blink_array'[e].location = blink_array[e].location
    BY <2>1, <2>2 DEF Records
  <2>4. ASSUME NEW j \in 1 .. k, q[j] = e, blink_array[e].next = i
        PROVE  blink_array'[e].next = blink_array[i].next
    <3>1. blink_array'[e] = [blink_array[e] EXCEPT
                               !.next = blink_array[i].next]
      BY <1>6, <2>4 DEF Unlinked
    <3>2. QED
      BY <2>1, <3>1 DEF Records
  <2>5. ASSUME blink_array[e].next # i
        PROVE  blink_array'[e].next = blink_array[e].next
    BY <2>5 DEF Unlinked
  <2>6. QED
    BY <2>3, <2>4, <2>5
<1>8. blink_array'[i].location = 0
  BY <1>1 DEF Unlinked, Zero
<1>9. \A x, y \in 1 .. k - 1 : r[x] = r[y] => x = y
  <2> SUFFICES ASSUME NEW x \in 1 .. k - 1, NEW y \in 1 .. k - 1, r[x] = r[y]
               PROVE  x = y
    OBVIOUS
  <2> DEFINE a == IF x < d THEN x ELSE x + 1
             c == IF y < d THEN y ELSE y + 1
  <2>1. a \in 1 .. k /\ c \in 1 .. k /\ q[a] = q[c]
    BY <1>2
  <2>2. a = c
    <3> HIDE DEF a, c
    <3>1. QED
      BY <2>1 DEF Chain
  <2>3. QED
    BY <2>2
<1>10. ASSUME NEW e \in Nodes
       PROVE  ~(blink_array'[e].location = 0)
                <=> \E j \in 1 .. k - 1 : r[j] = e
  <2>1. CASE e = i
    <3>1. \A j \in 1 .. k - 1 : r[j] # i
      BY <1>1, <1>2
    <3>2. QED
      BY <1>8, <2>1, <3>1
  <2>2. CASE e # i
    <3>1. blink_array'[e].location = 0 <=> Free(e)
      BY <1>7, <2>2 DEF Free
    <3>2. ~Free(e) <=> \E j \in 1 .. k : q[j] = e
      BY DEF Chain
    <3>3. ASSUME NEW j \in 1 .. k, q[j] = e
          PROVE  \E x \in 1 .. k - 1 : r[x] = e
      <4>1. j < d \/ j > d
        <5>1. j # d
          BY <2>2, <3>3
        <5>2. QED
          BY <5>1
      <4>2. CASE j < d
        <5>1. j \in 1 .. k - 1 /\ r[j] = e
          BY <1>2, <3>3, <4>2
        <5>2. QED
          BY <5>1
      <4>3. CASE j > d
        <5>1. j - 1 \in 1 .. k - 1 /\ ~(j - 1 < d) /\ (j - 1) + 1 = j
          BY <4>3
        <5>2. r[j - 1] = e
          BY <1>2, <3>3, <5>1
        <5>3. QED
          BY <5>1, <5>2
      <4>4. QED
        BY <4>1, <4>2, <4>3
    <3>4. ASSUME NEW j \in 1 .. k - 1, r[j] = e
          PROVE  \E x \in 1 .. k : q[x] = e
      BY <1>2, <3>4
    <3>5. QED
      BY <3>1, <3>2, <3>3, <3>4
  <2>3. QED
    BY <2>1, <2>2
<1>11. \A j \in 1 .. k :
         blink_array[q[j]].next = IF j = k THEN NULL ELSE q[j + 1]
  BY DEF Chain
<1>12. i # NULL
  BY <1>1 DEF Nodes, NULL
<1>13. ASSUME NEW j \in 1 .. k - 1
       PROVE  blink_array'[r[j]].next = IF j = k - 1 THEN NULL ELSE r[j + 1]
  <2>1. r[j] \in Nodes \ {i} /\ \E x \in 1 .. k : q[x] = r[j]
    BY <1>1, <1>2
  <2>2. blink_array'[r[j]].next = IF blink_array[r[j]].next = i
                                  THEN blink_array[i].next
                                  ELSE blink_array[r[j]].next
    BY <1>7, <2>1
  <2>3. CASE j < d - 1
    <3>1. r[j] = q[j] /\ r[j + 1] = q[j + 1] /\ j \in 1 .. k /\ j # k
            /\ j # k - 1 /\ j + 1 \in 1 .. k /\ j + 1 # d
      BY <1>2, <2>3
    <3>2. blink_array[r[j]].next = q[j + 1] /\ q[j + 1] # i
      BY <1>1, <1>11, <3>1
    <3>3. QED
      BY <2>2, <3>1, <3>2
  <2>4. CASE j = d - 1
    <3>1. r[j] = q[j] /\ j \in 1 .. k /\ j # k /\ j + 1 = d
      BY <1>2, <2>4
    <3>2. blink_array[r[j]].next = i
      BY <1>11, <3>1
    <3>3. blink_array[i].next = IF d = k THEN NULL ELSE q[d + 1]
      BY <1>11
    <3>4. d # k => j + 1 \in 1 .. k - 1 /\ ~(j + 1 < d)
      BY <3>1
    <3>5. d # k => r[j + 1] = q[d + 1]
      BY <1>2, <3>1, <3>4
    <3>6. QED
      BY <2>2, <3>1, <3>2, <3>3, <3>5
  <2>5. CASE j > d - 1
    <3>1. r[j] = q[j + 1] /\ j + 1 \in 1 .. k /\ ~(j < d)
      BY <1>2, <2>5
    <3>2. blink_array[q[j + 1]].next = IF j + 1 = k THEN NULL ELSE q[j + 1 + 1]
      BY <1>11, <3>1
    <3>3. j # k - 1 => j + 1 \in 1 .. k - 1 /\ ~(j + 1 < d)
                         /\ j + 1 + 1 \in 1 .. k /\ j + 1 + 1 # d
      BY <3>1
    <3>4. j # k - 1 => r[j + 1] = q[j + 1 + 1] /\ q[j + 1 + 1] # i
      BY <1>1, <1>2, <3>3
    <3>5. QED
      BY <1>12, <2>2, <3>1, <3>2, <3>4
  <2>6. QED
    BY <2>3, <2>4, <2>5
<1>14. mp1_list_head' = IF k - 1 = 0 THEN NULL ELSE r[1]
  <2>1. mp1_list_head = q[1] /\ 1 \in 1 .. k
    BY DEF Chain
  <2>2. CASE d = 1
    <3>1. mp1_list_head' = IF k = 1 THEN NULL ELSE q[2]
      BY <1>11, <2>1, <2>2
    <3>2. k # 1 => r[1] = q[2]
      BY <1>2, <2>2
    <3>3. QED
      BY <3>1, <3>2
  <2>3. CASE d # 1
    <3>1. mp1_list_head' = q[1] /\ k # 1 /\ 1 \in 1 .. k - 1 /\ 1 < d
      BY <1>1, <2>1, <2>3
    <3>2. r[1] = q[1]
      BY <1>2, <3>1
    <3>3. QED
      BY <3>1, <3>2
  <2>4. QED
    BY <2>2, <2>3
<1>15. QED
  BY <1>3, <1>9, <1>10, <1>13, <1>14 DEF Chain, Free

-----------------------------------------------------------------------------
(***************************************************************************)
(* The tasklet walks along the list, and synchronised entries stay so.     *)
(***************************************************************************)
\* What a tick makes of an entry.
Tick(e) == IF e.countdown - 1 > 0 THEN [e EXCEPT !.countdown = @ - 1]
                                  ELSE Toggled(e)

Alike(e, f) == e.countdown = f.countdown /\ e.status = f.status

Lasting(e, f) == e.on_length = f.on_length /\ e.off_length = f.off_length

\* The tasklet is at position d: the entries before it have ticked.
Paired(q, d, a, b) ==
  LET e == blink_array[q[a]]
      f == blink_array[q[b]]
  IN  /\ Lasting(e, f)
      /\ a < d /\ d <= b => Alike(e, Tick(f))
      /\ b < d /\ d <= a => Alike(Tick(e), f)
      /\ (a < d <=> b < d) => Alike(e, f)

Paced(k, q, d) ==
  /\ at = IF d = k + 1 THEN NULL ELSE q[d]
  /\ \A p \in paired : \E a, b \in 1 .. k :
       p = <<q[a], q[b]>> /\ Paired(q, d, a, b)

ListInv ==
  \E k \in Nat : \E q : Chain(k, q) /\ \E d \in 1 .. k + 1 : Paced(k, q, d)

\* Equal entries tick alike.
LEMMA TickAlike ==
  ASSUME NEW e \in Records, NEW f \in Records, Lasting(e, f), Alike(e, f)
  PROVE  Lasting(Tick(e), Tick(f)) /\ Alike(Tick(e), Tick(f))
BY DEF Lasting, Alike, Tick, Toggled, Records

LEMMA TickKeeps ==
  ASSUME NEW e \in Records
  PROVE  /\ Tick(e).location = e.location /\ Tick(e).next = e.next
         /\ Tick(e).on_length = e.on_length
         /\ Tick(e).off_length = e.off_length
BY DEF Tick, Toggled, Records

\* One step of the tasklet is one tick of the entry it looks at.
LEMMA TaskletTicks ==
  ASSUME TypeOK, TaskletEntry
  PROVE  /\ at \in Nodes
         /\ blink_array' = [blink_array EXCEPT ![at] = Tick(blink_array[at])]
         /\ at' = blink_array[at].next
         /\ UNCHANGED <<mp1_list_head, paired>>
BY DEF TypeOK, TaskletEntry, Tick

\* Between two walks of the tasklet synchronised entries are alike.
Still ==
  \A p \in paired :
    /\ ~Free(p[1]) /\ ~Free(p[2])
    /\ Lasting(blink_array[p[1]], blink_array[p[2]])
    /\ Alike(blink_array[p[1]], blink_array[p[2]])

LEMMA AtNull ==
  ASSUME NEW k \in Nat, NEW q, Chain(k, q), NEW d \in 1 .. k + 1,
         Paced(k, q, d), at = NULL
  PROVE  d = k + 1 /\ Still
<1>1. \A i \in 1 .. k : q[i] \in Nodes /\ q[i] # NULL /\ ~Free(q[i])
  BY DEF Chain, Nodes, NULL
<1>2. d = k + 1
  <2>1. CASE d # k + 1
    BY <1>1, <2>1 DEF Paced
  <2>2. QED
    BY <2>1
<1>3. ASSUME NEW p \in paired
      PROVE  /\ ~Free(p[1]) /\ ~Free(p[2])
             /\ Lasting(blink_array[p[1]], blink_array[p[2]])
             /\ Alike(blink_array[p[1]], blink_array[p[2]])
  <2>1. PICK a \in 1 .. k, b \in 1 .. k :
          p = <<q[a], q[b]>> /\ Paired(q, d, a, b)
    BY <1>3 DEF Paced
  <2>2. a < d /\ b < d /\ p[1] = q[a] /\ p[2] = q[b]
    BY <1>2, <2>1
  <2>3. Lasting(blink_array[q[a]], blink_array[q[b]])
          /\ Alike(blink_array[q[a]], blink_array[q[b]])
    BY <2>1, <2>2 DEF Paired
  <2>4. QED
    BY <1>1, <2>2, <2>3
<1>4. QED
  BY <1>2, <1>3 DEF Still

LEMMA ListInvAfter ==
  ASSUME NEW k \in Nat, NEW q, Chain(k, q)', NEW d \in 1 .. k + 1,
         Paced(k, q, d)'
  PROVE  ListInv'
BY DEF ListInv

LEMMA StillAfter ==
  ASSUME NEW k \in Nat, NEW q, Chain(k, q)', at' = NULL, Still',
         paired' \subseteq Nodes \X Nodes
  PROVE  ListInv'
<1>1. ASSUME NEW p \in paired'
      PROVE  \E a, b \in 1 .. k : p = <<q[a], q[b]>> /\ Paired(q, k + 1, a, b)'
  <2>1. /\ p[1] \in Nodes /\ p[2] \in Nodes /\ p = <<p[1], p[2]>>
        /\ ~(blink_array'[p[1]].location = 0)
        /\ ~(blink_array'[p[2]].location = 0)
        /\ Lasting(blink_array'[p[1]], blink_array'[p[2]])
        /\ Alike(blink_array'[p[1]], blink_array'[p[2]])
    BY <1>1 DEF Still, Free
  <2>2. PICK a \in 1 .. k : q[a] = p[1]
    BY <2>1 DEF Chain, Free
  <2>3. PICK b \in 1 .. k : q[b] = p[2]
    BY <2>1 DEF Chain, Free
  <2>4. a < k + 1 /\ b < k + 1
    OBVIOUS
  <2>5. Paired(q, k + 1, a, b)'
    BY <2>1, <2>2, <2>3, <2>4 DEF Paired
  <2>6. p = <<q[a], q[b]>>
    BY <2>1, <2>2, <2>3
  <2>7. QED
    BY <2>5, <2>6
<1>2. Paced(k, q, k + 1)'
  BY <1>1 DEF Paced
<1>3. k + 1 \in 1 .. k + 1
  OBVIOUS
<1>4. QED
  BY <1>2, <1>3, ListInvAfter

\* The search finds an entry of the list.
LEMMA Found ==
  ASSUME NEW k \in Nat, NEW q, Chain(k, q), NEW l, NEW i, Finds(l, i)
  PROVE  \E d \in 1 .. k : q[d] = i
<1>1. PICK n \in 0 .. NumNodes - 1 : Walk[n] = i /\ i # NULL
  BY DEF Finds
<1>2. n \in Nat /\ Walk[n] = IF n < k THEN q[n + 1] ELSE NULL
  BY WalkIs, ConstantsAssumption
<1> HIDE DEF Walk
<1>3. n + 1 \in 1 .. k /\ q[n + 1] = i
  BY <1>1, <1>2
<1>4. QED
  BY <1>3

LEMMA AddKeeps ==
  ASSUME TypeOK, TypeOK', Corner = FALSE, ListInv,
         NEW b \in Blinks, NEW i \in Nodes, Add(b, i)
  PROVE  ListInv'
<1>k. PICK k \in Nat :
        \E q : Chain(k, q) /\ \E d \in 1 .. k + 1 : Paced(k, q, d)
  BY DEF ListInv
<1>1. PICK q : Chain(k, q) /\ \E d \in 1 .. k + 1 : Paced(k, q, d)
  BY <1>k
<1>2. /\ at = NULL /\ at' = NULL /\ b.location # 0 /\ Free(i)
      /\ blink_array' = [blink_array EXCEPT ![i] = Entry(b)]
      /\ mp1_list_head' = i /\ paired' = Without(i)
  BY DEF Add, Malloc
<1>3. Still
  BY <1>1, <1>2, AtNull
<1>4. PICK r : r = [j \in 1 .. k + 1 |-> IF j = 1 THEN i ELSE q[j - 1]]
  OBVIOUS
<1>5. Chain(k + 1, r)'
  BY <1>1, <1>2, <1>4, ChainAdd
<1>6. Still'
  <2>1. ASSUME NEW p \in paired'
        PROVE  /\ p \in paired
               /\ blink_array'[p[1]] = blink_array[p[1]]
               /\ blink_array'[p[2]] = blink_array[p[2]]
    <3>1. p \in paired /\ p[1] \in Nodes \ {i} /\ p[2] \in Nodes \ {i}
      BY <1>2, <2>1 DEF Without, TypeOK
    <3>2. QED
      BY <1>2, <3>1 DEF TypeOK
  <2>2. QED
    BY <1>3, <2>1 DEF Still, Free
<1>7. paired' \subseteq Nodes \X Nodes /\ k + 1 \in Nat
  BY DEF TypeOK
<1>8. QED
  BY <1>2, <1>5, <1>6, <1>7, StillAfter

LEMMA RemoveKeeps ==
  ASSUME TypeOK, TypeOK', ListInv, NEW l \in Locations, Remove(l)
  PROVE  ListInv'
<1>k. PICK k \in Nat :
        \E q : Chain(k, q) /\ \E d \in 1 .. k + 1 : Paced(k, q, d)
  BY DEF ListInv
<1>1. PICK q : Chain(k, q) /\ \E d \in 1 .. k + 1 : Paced(k, q, d)
  BY <1>k
<1>2. PICK i \in Nodes :
        /\ Finds(l, i)
        /\ at = NULL /\ at' = NULL /\ blink_array' = Unlinked(i)
        /\ mp1_list_head' = IF mp1_list_head = i THEN blink_array[i].next
                                                 ELSE mp1_list_head
        /\ paired' = Without(i)
  BY DEF Remove
<1>3. Still
  BY <1>1, <1>2, AtNull
<1>4. PICK d \in 1 .. k : i = q[d]
  BY <1>1, <1>2, Found
<1>5. PICK r : r = [j \in 1 .. k - 1 |-> IF j < d THEN q[j] ELSE q[j + 1]]
  OBVIOUS
<1>6. Chain(k - 1, r)'
  BY <1>1, <1>2, <1>4, <1>5, ChainRemove
<1>7. \A e \in Nodes \ {i} :
        /\ blink_array'[e].location = blink_array[e].location
        /\ Lasting(blink_array'[e], blink_array[e])
        /\ Alike(blink_array'[e], blink_array[e])
  <2> TAKE e \in Nodes \ {i}
  <2>1. blink_array[e] \in Records
    BY DEF TypeOK
  <2>2. \/ blink_array'[e] = blink_array[e]
        \/ blink_array'[e] = [blink_array[e] EXCEPT
                                !.next = blink_array[i].next]
    BY <1>2 DEF Unlinked
  <2>3. QED
    BY <2>1, <2>2 DEF Records, Lasting, Alike
<1>8. Still'
  <2>1. ASSUME NEW p \in paired'
        PROVE  /\ p \in paired
               /\ p[1] \in Nodes \ {i} /\ p[2] \in Nodes \ {i}
    BY <1>2, <2>1 DEF Without, TypeOK
  <2>2. QED
    BY <1>3, <1>7, <2>1 DEF Still, Free, Lasting, Alike
<1>9. paired' \subseteq Nodes \X Nodes /\ k - 1 \in Nat
  BY <1>4 DEF TypeOK
<1>10. QED
  BY <1>2, <1>6, <1>8, <1>9, StillAfter

LEMMA SyncKeeps ==
  ASSUME TypeOK, TypeOK', ListInv, NEW l \in Locations, NEW m \in Locations,
         Sync(l, m)
  PROVE  ListInv'
<1>k. PICK k \in Nat :
        \E q : Chain(k, q) /\ \E d \in 1 .. k + 1 : Paced(k, q, d)
  BY DEF ListInv
<1>1. PICK q : Chain(k, q) /\ \E d \in 1 .. k + 1 : Paced(k, q, d)
  BY <1>k
<1>2. PICK i \in Nodes, j \in Nodes :
        /\ Finds(l, i) /\ Finds(m, j)
        /\ at = NULL /\ at' = NULL /\ blink_array' = Synced(i, j)
        /\ mp1_list_head' = mp1_list_head
        /\ paired' = Without(j) \cup {<<i, j>>}
  BY DEF Sync
<1>3. Still
  BY <1>1, <1>2, AtNull
<1>4. ~Free(i) /\ ~Free(j)
  BY <1>1, <1>2, Found DEF Chain
<1>5. /\ \A e \in Nodes \ {j} : blink_array'[e] = blink_array[e]
      /\ blink_array'[j] = [blink_array[j] EXCEPT
                              !.on_length = blink_array[i].on_length,
                              !.off_length = blink_array[i].off_length,
                              !.countdown = blink_array[i].countdown,
                              !.status = blink_array[i].status]
  BY <1>2 DEF Synced, TypeOK
<1>6. /\ blink_array'[j].location = blink_array[j].location
      /\ blink_array'[j].next = blink_array[j].next
      /\ Lasting(blink_array[i], blink_array'[j])
      /\ Alike(blink_array[i], blink_array'[j])
  <2>1. blink_array[j] \in Records
    BY DEF TypeOK
  <2>2. QED
    BY <1>5, <2>1 DEF Records, Lasting, Alike
<1>7. \A e \in Nodes : /\ blink_array'[e].location = blink_array[e].location
                       /\ blink_array'[e].next = blink_array[e].next
  BY <1>5, <1>6
<1>8. Chain(k, q)'
  BY <1>1, <1>2, <1>7, ChainKept
<1>9. Still'
  <2>1. ASSUME NEW p \in Without(j)
        PROVE  /\ p \in paired
               /\ p[1] \in Nodes \ {j} /\ p[2] \in Nodes \ {j}
    BY <2>1 DEF Without, TypeOK
  <2>2. ASSUME NEW p \in Without(j)
        PROVE  /\ ~Free(p[1])' /\ ~Free(p[2])'
               /\ Lasting(blink_array'[p[1]], blink_array'[p[2]])
               /\ Alike(blink_array'[p[1]], blink_array'[p[2]])
    BY <1>3, <1>5, <2>1 DEF Still, Free
  <2>3. Lasting(blink_array'[i], blink_array'[j])
          /\ Alike(blink_array'[i], blink_array'[j])
    <3>1. CASE i = j
      BY <3>1 DEF Lasting, Alike
    <3>2. CASE i # j
      BY <1>5, <1>6, <3>2
    <3>3. QED
      BY <3>1, <3>2
  <2>4. ~Free(i)' /\ ~Free(j)'
    BY <1>4, <1>7 DEF Free
  <2>5. <<i, j>>[1] = i /\ <<i, j>>[2] = j
    OBVIOUS
  <2>6. QED
    BY <1>2, <2>2, <2>3, <2>4, <2>5 DEF Still
<1>10. paired' \subseteq Nodes \X Nodes
  BY DEF TypeOK
<1>11. QED
  BY <1>2, <1>8, <1>9, <1>10, StillAfter

LEMMA TaskletKeeps ==
  ASSUME TypeOK, ListInv, Tasklet
  PROVE  ListInv'
<1>k. PICK k \in Nat :
        \E q : Chain(k, q) /\ \E d \in 1 .. k + 1 : Paced(k, q, d)
  BY DEF ListInv
<1>1. PICK q : Chain(k, q) /\ \E d \in 1 .. k + 1 : Paced(k, q, d)
  BY <1>k
<1>2. /\ at = NULL /\ mp1_list_head # NULL /\ at' = mp1_list_head
      /\ UNCHANGED <<blink_array, mp1_list_head, paired>>
  BY DEF Tasklet
<1>3. Paced(k, q, k + 1)
  BY <1>1, <1>2, AtNull
<1>4. k # 0 /\ at' = q[1] /\ 1 \in 1 .. k + 1 /\ 1 # k + 1
  BY <1>1, <1>2 DEF Chain
<1>5. ASSUME NEW p \in paired'
      PROVE  \E a, b \in 1 .. k : p = <<q[a], q[b]>> /\ Paired(q, 1, a, b)'
  <2>1. PICK a \in 1 .. k, b \in 1 .. k :
          p = <<q[a], q[b]>> /\ Paired(q, k + 1, a, b)
    BY <1>2, <1>3, <1>5 DEF Paced
  <2>2. a < k + 1 /\ b < k + 1 /\ ~(a < 1) /\ ~(b < 1)
    OBVIOUS
  <2>3. Paired(q, 1, a, b)'
    BY <1>2, <2>1, <2>2 DEF Paired
  <2>4. QED
    BY <2>1, <2>3
<1>6. Paced(k, q, 1)'
  BY <1>4, <1>5 DEF Paced
<1>7. Chain(k, q)'
  BY <1>1, <1>2, ChainKept
<1>8. QED
  BY <1>4, <1>6, <1>7, ListInvAfter

LEMMA TaskletEntryKeeps ==
  ASSUME TypeOK, ListInv, TaskletEntry
  PROVE  ListInv'
<1>k. PICK k \in Nat :
        \E q : Chain(k, q) /\ \E d \in 1 .. k + 1 : Paced(k, q, d)
  BY DEF ListInv
<1>0. PICK q : Chain(k, q) /\ \E d \in 1 .. k + 1 : Paced(k, q, d)
  BY <1>k
<1>1. PICK d \in 1 .. k + 1 : Chain(k, q) /\ Paced(k, q, d)
  BY <1>0
<1>2. /\ at \in Nodes /\ at # NULL
      /\ blink_array' = [blink_array EXCEPT ![at] = Tick(blink_array[at])]
      /\ at' = blink_array[at].next
      /\ UNCHANGED <<mp1_list_head, paired>>
  BY TaskletTicks DEF TaskletEntry
<1>3. d \in 1 .. k /\ at = q[d]
  BY <1>1, <1>2 DEF Paced
<1>4. d + 1 \in 1 .. k + 1 /\ at' = IF d + 1 = k + 1 THEN NULL ELSE q[d + 1]
  BY <1>1, <1>2, <1>3 DEF Chain
<1>5. \A a \in 1 .. k :
        /\ blink_array[q[a]] \in Records
        /\ blink_array'[q[a]] = IF a = d THEN Tick(blink_array[q[a]])
                                         ELSE blink_array[q[a]]
  <2> TAKE a \in 1 .. k
  <2>1. q[a] \in Nodes /\ (q[a] = q[d] <=> a = d)
    BY <1>1, <1>3 DEF Chain
  <2>2. QED
    BY <1>2, <1>3, <2>1 DEF TypeOK
<1>6. Chain(k, q)'
  <2>1. \A e \in Nodes : /\ blink_array'[e].location = blink_array[e].location
                         /\ blink_array'[e].next = blink_array[e].next
    <3> TAKE e \in Nodes
    <3>1. blink_array[e] \in Records
      BY DEF TypeOK
    <3>2. blink_array'[e] = IF e = at THEN Tick(blink_array[e])
                                      ELSE blink_array[e]
      BY <1>2 DEF TypeOK
    <3>3. QED
      BY <3>1, <3>2, TickKeeps
  <2>2. QED
    BY <1>1, <1>2, <2>1, ChainKept
<1>7. ASSUME NEW p \in paired'
      PROVE  \E a, b \in 1 .. k : p = <<q[a], q[b]>> /\ Paired(q, d + 1, a, b)'
  <2>1. PICK a \in 1 .. k, b \in 1 .. k :
          p = <<q[a], q[b]>> /\ Paired(q, d, a, b)
    BY <1>1, <1>2, <1>7 DEF Paced
  <2>2. PICK e \in Records : e = blink_array[q[a]]
    BY <1>5
  <2>3. PICK f \in Records : f = blink_array[q[b]]
    BY <1>5
  <2>4. PICK e2 : e2 = blink_array'[q[a]] /\ e2 = IF a = d THEN Tick(e) ELSE e
    BY <1>5, <2>2
  <2>5. PICK f2 : f2 = blink_array'[q[b]] /\ f2 = IF b = d THEN Tick(f) ELSE f
    BY <1>5, <2>3
  <2>6. /\ Lasting(e, f)
        /\ a < d /\ d <= b => Alike(e, Tick(f))
        /\ b < d /\ d <= a => Alike(Tick(e), f)
        /\ (a < d <=> b < d) => Alike(e, f)
    BY <2>1, <2>2, <2>3 DEF Paired
  <2>7. Alike(e, f) => Alike(Tick(e), Tick(f))
    BY <2>6, TickAlike
  <2>8. Lasting(e2, f2)
    BY <2>4, <2>5, <2>6, TickKeeps DEF Lasting
  <2>9. a < d + 1 /\ d + 1 <= b => Alike(e2, Tick(f2))
    <3>1. a \in Nat /\ b \in Nat /\ d \in Nat
      OBVIOUS
    <3>2. QED
      BY <2>4, <2>5, <2>6, <2>7, <3>1
  <2>10. b < d + 1 /\ d + 1 <= a => Alike(Tick(e2), f2)
    <3>1. a \in Nat /\ b \in Nat /\ d \in Nat
      OBVIOUS
    <3>2. QED
      BY <2>4, <2>5, <2>6, <2>7, <3>1
  <2>11. (a < d + 1 <=> b < d + 1) => Alike(e2, f2)
    <3>1. a \in Nat /\ b \in Nat /\ d \in Nat
      OBVIOUS
    <3>2. CASE a = d /\ b = d
      <4>1. e = f
        BY <2>2, <2>3, <3>2
      <4>2. QED
        BY <2>4, <2>5, <3>2, <4>1 DEF Alike
    <3>3. CASE ~(a = d /\ b = d)
      BY <2>4, <2>5, <2>6, <3>1, <3>3
    <3>4. QED
      BY <3>2, <3>3
  <2>12. Paired(q, d + 1, a, b)'
    BY <2>4, <2>5, <2>8, <2>9, <2>10, <2>11 DEF Paired
  <2>13. QED
    BY <2>1, <2>12
<1>8. Paced(k, q, d + 1)'
  BY <1>4, <1>7 DEF Paced
<1>9. QED
  BY <1>4, <1>6, <1>8, ListInvAfter

\* Entries added at locations other than the corner stay on one list, which
\* the tasklet walks along; synchronised ones differ by at most the tick of
\* the walk that is under way.
THEOREM Listed == ASSUME Corner = FALSE PROVE Spec => []ListInv
<1>1. Init => ListInv
  <2> SUFFICES ASSUME Init PROVE ListInv
    OBVIOUS
  <2>1. PICK q : q = [i \in 1 .. 0 |-> i]
    OBVIOUS
  <2>2. q \in [1 .. 0 -> Nodes]
    BY <2>1
  <2>3. \A e \in Nodes : Free(e)
    BY DEF Init, Free, Zero
  <2>4. Chain(0, q)
    BY <2>2, <2>3 DEF Chain, Init
  <2>5. 1 \in 1 .. 0 + 1 /\ 1 = 0 + 1 /\ 0 \in Nat
    OBVIOUS
  <2>6. Paced(0, q, 1)
    BY <2>5 DEF Paced, Init
  <2>7. QED
    BY <2>4, <2>5, <2>6 DEF ListInv
<1>2. TypeOK /\ TypeOK' /\ ListInv /\ [Next]_vars => ListInv'
  <2> SUFFICES ASSUME TypeOK, TypeOK', ListInv, [Next]_vars PROVE ListInv'
    OBVIOUS
  <2>1. CASE UNCHANGED vars
    <3>k. PICK k \in Nat :
            \E q : Chain(k, q) /\ \E d \in 1 .. k + 1 : Paced(k, q, d)
      BY DEF ListInv
    <3>1. PICK q : Chain(k, q) /\ \E d \in 1 .. k + 1 : Paced(k, q, d)
      BY <3>k
    <3>2. PICK d \in 1 .. k + 1 : Paced(k, q, d)
      BY <3>1
    <3>3. UNCHANGED <<blink_array, mp1_list_head, at, paired>>
      BY <2>1 DEF vars
    <3>4. Chain(k, q)'
      BY <3>1, <3>3, ChainKept
    <3>5. Paced(k, q, d)'
      BY <3>2, <3>3 DEF Paced, Paired
    <3>6. QED
      BY <3>4, <3>5, ListInvAfter
  <2>2. QED
    BY <2>1, AddKeeps, RemoveKeeps, SyncKeeps, TaskletKeeps,
       TaskletEntryKeeps DEF Next
<1>3. QED
  BY <1>1, <1>2, Typed, PTL DEF Spec

\* The list leads, once, to every entry that is not free, and to no other.
THEOREM ListLinked == ASSUME Corner = FALSE PROVE Spec => []Linked
<1>1. ListInv => Linked
  BY ChainLinked DEF ListInv
<1>2. QED
  BY <1>1, Listed, PTL

\* Synchronised entries blink together.
THEOREM StepsKept == ASSUME Corner = FALSE PROVE Spec => []InStep
<1>1. ListInv => InStep
  BY AtNull DEF ListInv, InStep, Still, Alike
<1>2. QED
  BY <1>1, Listed, PTL
=============================================================================
