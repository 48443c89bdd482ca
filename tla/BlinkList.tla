----------------------------- MODULE BlinkList ------------------------------
(***************************************************************************)
(* The list of blinking characters of fish (blink.S, with the memory that  *)
(* fish.c gives it).  A program adds, removes and synchronises entries     *)
(* between two calls of the tasklet, which it makes at every tick of the   *)
(* clock.  Entries live in an array whose free ones are those at location  *)
(* 0, so the location of an entry is also what keeps it allocated.         *)
(*                                                                         *)
(* The tasklet takes one step per entry.  Lengths are below 2^15.          *)
(***************************************************************************)
EXTENDS Integers

CONSTANTS
  NumNodes,   \* entries in blink_array (80 * 25 in the code)
  Blinks,     \* what the program adds: location, characters, lengths
  Corner      \* whether it also adds entries at location 0, the corner

ASSUME ConstantsAssumption ==
  /\ NumNodes \in Nat \ {0}
  /\ \A b \in Blinks :
       /\ b.location \in Nat
       /\ b.on_length \in Nat /\ b.off_length \in Nat
  /\ Corner \in BOOLEAN

Nodes == 1 .. NumNodes
NULL == 0

VARIABLES
  blink_array,
  mp1_list_head,
  vmem,       \* the character shown at each location
  at,         \* the entry the tasklet looks at, or NULL
  owner,      \* history: the entry each location shows, NULL if none
  paired      \* history: pairs of entries, the second synchronised with the
              \* first, and neither changed since

vars == <<blink_array, mp1_list_head, vmem, at, owner, paired>>

Locations == {b.location : b \in Blinks} \cup {0}
Chars == {b.on_char : b \in Blinks} \cup {b.off_char : b \in Blinks}
             \cup {"nul"}
Lengths == {b.on_length : b \in Blinks} \cup {b.off_length : b \in Blinks}
             \cup {0}

\* The length of the state an entry is in.
Phased(e) == IF e.status = 1 THEN e.on_length ELSE e.off_length

Records ==
  [location : Locations, on_char : Chars, off_char : Chars,
   on_length : Lengths, off_length : Lengths, countdown : Nat,
   status : {0, 1}, next : Nodes \cup {NULL}]

TypeOK ==
  /\ blink_array \in [Nodes -> Records]
  /\ \A i \in Nodes : blink_array[i].countdown <= Phased(blink_array[i])
  /\ mp1_list_head \in Nodes \cup {NULL}
  /\ vmem \in [Locations -> Chars]
  /\ at \in Nodes \cup {NULL}
  /\ owner \in [Locations -> Nodes \cup {NULL}]
  /\ paired \subseteq Nodes \X Nodes

Zero == [location |-> 0, on_char |-> "nul", off_char |-> "nul",
         on_length |-> 0, off_length |-> 0, countdown |-> 0, status |-> 0,
         next |-> NULL]

Init ==
  /\ blink_array = [i \in Nodes |-> Zero]
  /\ mp1_list_head = NULL
  /\ vmem = [l \in Locations |-> "nul"]
  /\ at = NULL
  /\ owner = [l \in Locations |-> NULL]
  /\ paired = {}

-----------------------------------------------------------------------------
Poke(l, c, i) ==
  /\ vmem' = [vmem EXCEPT ![l] = c]
  /\ owner' = [owner EXCEPT ![l] = i]

Without(i) == {p \in paired : i \notin {p[1], p[2]}}

\* mp1_malloc
Free(i) == blink_array[i].location = 0
Malloc(i) == Free(i) /\ \A j \in Nodes : j < i => ~Free(j)

\* The entries the list leads to, in order, up to n of them.
Walk[n \in Nat] ==
  IF n = 0 THEN mp1_list_head
  ELSE IF Walk[n - 1] = NULL THEN NULL ELSE blink_array[Walk[n - 1]].next

\* mp1_find_helper: the first entry of the list at location l.  The search
\* ends, unless the list runs in a circle without l.
Finds(l, i) ==
  \E n \in 0 .. NumNodes - 1 :
    /\ Walk[n] = i /\ i # NULL
    /\ blink_array[i].location = l
    /\ \A m \in 0 .. n - 1 : blink_array[Walk[m]].location # l

\* mp1_ioctl_add.  The mutant marks it as off.
Entry_Off(b) ==
  [location |-> b.location, on_char |-> b.on_char, off_char |-> b.off_char,
   on_length |-> b.on_length, off_length |-> b.off_length,
   countdown |-> b.on_length, status |-> 0, next |-> mp1_list_head]
Entry(b) ==
  [location |-> b.location, on_char |-> b.on_char, off_char |-> b.off_char,
   on_length |-> b.on_length, off_length |-> b.off_length,
   countdown |-> b.on_length, status |-> 1, next |-> mp1_list_head]

Add(b, i) ==
  /\ at = NULL
  /\ Corner \/ b.location # 0
  /\ Malloc(i)
  /\ blink_array' = [blink_array EXCEPT ![i] = Entry(b)]
  /\ mp1_list_head' = i
  /\ Poke(b.location, b.on_char, i)
  /\ paired' = Without(i)
  /\ UNCHANGED at

\* mp1_ioctl_remove.  The mutant frees the entry and leaves it in the list.
Unlinked_Not(i) == [blink_array EXCEPT ![i] = Zero]
Unlinked(i) ==
  [j \in Nodes |->
     IF j = i THEN Zero
     ELSE IF blink_array[j].next = i /\ \E n \in 0 .. NumNodes - 1 : Walk[n] = j
     THEN [blink_array[j] EXCEPT !.next = blink_array[i].next]
     ELSE blink_array[j]]

Remove(l) ==
  /\ at = NULL
  /\ \E i \in Nodes :
       /\ Finds(l, i)
       /\ blink_array' = Unlinked(i)
       /\ mp1_list_head' = IF mp1_list_head = i THEN blink_array[i].next
                                                ELSE mp1_list_head
       /\ owner' = [owner EXCEPT ![l] = IF @ = i THEN NULL ELSE @]
       /\ paired' = Without(i)
  /\ UNCHANGED <<vmem, at>>

\* mp1_ioctl_sync of the entries at l and m.  cmovl tests the sign, which
\* testb never sets, so the second entry shows its off character, whatever
\* its status.  The mutant does not copy the countdown.
Synced_NoCountdown(i, j) ==
  [blink_array EXCEPT ![j].on_length = blink_array[i].on_length,
                      ![j].off_length = blink_array[i].off_length,
                      ![j].status = blink_array[i].status]
Synced(i, j) ==
  [blink_array EXCEPT ![j].on_length = blink_array[i].on_length,
                      ![j].off_length = blink_array[i].off_length,
                      ![j].countdown = blink_array[i].countdown,
                      ![j].status = blink_array[i].status]

Sync(l, m) ==
  /\ at = NULL
  /\ \E i, j \in Nodes :
       /\ Finds(l, i) /\ Finds(m, j)
       /\ blink_array' = Synced(i, j)
       /\ Poke(m, blink_array[j].off_char,
               IF blink_array[i].status = 0 THEN j ELSE NULL)
       /\ paired' = Without(j) \cup {<<i, j>>}
  /\ UNCHANGED <<mp1_list_head, at>>

\* mp1_rtc_tasklet begins, ...
Tasklet ==
  /\ at = NULL
  /\ mp1_list_head # NULL
  /\ at' = mp1_list_head
  /\ UNCHANGED <<blink_array, mp1_list_head, vmem, owner, paired>>

\* ... and counts an entry down.  Mutant: the state stays.
Toggled_Stays(e) ==
  [e EXCEPT !.countdown = IF e.status = 1 THEN e.off_length ELSE e.on_length]
Toggled(e) ==
  [e EXCEPT !.countdown = IF e.status = 1 THEN e.off_length ELSE e.on_length,
            !.status = 1 - @]

TaskletEntry ==
  /\ at # NULL
  /\ LET e == blink_array[at]
     IN  /\ IF e.countdown - 1 > 0
            THEN /\ blink_array' = [blink_array EXCEPT ![at].countdown = @ - 1]
                 /\ UNCHANGED <<vmem, owner>>
            ELSE /\ blink_array' = [blink_array EXCEPT ![at] = Toggled(e)]
                 /\ Poke(e.location,
                         IF e.status = 1 THEN e.off_char ELSE e.on_char, at)
         /\ at' = e.next
  /\ UNCHANGED <<mp1_list_head, paired>>

Next ==
  \/ \E b \in Blinks, i \in Nodes : Add(b, i)
  \/ \E l \in Locations : Remove(l)
  \/ \E l, m \in Locations : Sync(l, m)
  \/ Tasklet \/ TaskletEntry

Spec == Init /\ [][Next]_vars

\* The processor goes on executing the tasklet.
FairSpec == Spec /\ WF_vars(TaskletEntry)

-----------------------------------------------------------------------------
\* The list leads, once, to every entry that is not free, and to no other: no
\* order of adding and removing loses an entry, or leaves one in the list that
\* mp1_malloc hands out again.
Linked ==
  /\ Walk[NumNodes] = NULL
  /\ {Walk[n] : n \in 0 .. NumNodes} \ {NULL} = {i \in Nodes : ~Free(i)}
  /\ \A m, n \in 0 .. NumNodes - 1 : m < n /\ Walk[n] # NULL => Walk[m] # Walk[n]

\* An entry that was the last to be shown at its location is shown as its
\* status says.  What sync shows while the status is on is not: owner excludes
\* it.  At the corner an entry is free as soon as it is added.
Phase ==
  \A l \in Locations \ {0} :
    owner[l] # NULL =>
      LET e == blink_array[owner[l]]
      IN  /\ e.location = l
          /\ vmem[l] = IF e.status = 1 THEN e.on_char ELSE e.off_char

\* Entries that have been synchronised blink together, until one of them is
\* removed or synchronised with another.
InStep ==
  at = NULL =>
    \A p \in paired :
      /\ blink_array[p[1]].countdown = blink_array[p[2]].countdown
      /\ blink_array[p[1]].status = blink_array[p[2]].status

\* The tasklet comes to the end of the list.
TaskletEnds == (at # NULL) ~> (at = NULL)
=============================================================================
