-------------------------- MODULE FileSystem_proofs --------------------------
(***************************************************************************)
(* Theorems about FileSystem, for blocks, names and directories of any     *)
(* size, any image and any number of descriptors.                          *)
(***************************************************************************)
EXTENDS FileSystem, SequenceTheorems, WellFoundedInduction, TLAPS

-----------------------------------------------------------------------------
(***************************************************************************)
(* Numbers.                                                                *)
(***************************************************************************)
LEMMA LeastNumber ==
  ASSUME NEW T, T \subseteq Nat, T # {}
  PROVE  \E x \in T : \A y \in T : x <= y
<1> DEFINE R == OpToRel(<, Nat)
<1>1. IsWellFoundedOn(R, Nat)
  BY NatLessThanWellFounded
<1>2. \A x, y \in Nat : y < x => <<y, x>> \in R
  BY DEF OpToRel
<1> HIDE DEF R
<1>3. PICK x \in T : \A y \in T : ~ (<<y, x>> \in R)
  BY <1>1, WFMin
<1>4. \A y \in T : x \in Nat /\ y \in Nat /\ ~(y < x)
  BY <1>2, <1>3
<1>5. \A y \in T : x <= y
  BY <1>4
<1>6. QED
  BY <1>5

LEMMA MulUp ==
  ASSUME NEW d \in Nat \ {0}, NEW a \in Int, NEW b \in Int, a <= b
  PROVE  d * a <= d * b
  OBVIOUS

LEMMA DivMod ==
  ASSUME NEW d \in Nat \ {0}, NEW a \in Nat
  PROVE  /\ a = d * (a \div d) + (a % d)
         /\ a \div d \in Nat /\ a % d \in 0 .. d - 1
  OBVIOUS

LEMMA DivIs ==
  ASSUME NEW d \in Nat \ {0}, NEW q \in Nat, NEW r \in 0 .. d - 1,
         NEW a \in Nat, a = d * q + r
  PROVE  a \div d = q /\ a % d = r
<1> DEFINE p == a \div d
           s == a % d
<1>1. a = d * p + s /\ p \in Nat /\ s \in 0 .. d - 1
  BY DivMod
<1> HIDE DEF p, s
<1>2. ASSUME p < q PROVE FALSE
  <2>1. d * (p + 1) <= d * q
    BY <1>1, <1>2, MulUp
  <2>2. d * (p + 1) = d * p + d
    BY <1>1
  <2>3. QED
    BY <1>1, <2>1, <2>2
<1>3. ASSUME q < p PROVE FALSE
  <2>1. d * (q + 1) <= d * p
    BY <1>1, <1>3, MulUp
  <2>2. d * (q + 1) = d * q + d
    BY <1>1
  <2>3. QED
    BY <1>1, <2>1, <2>2
<1>4. p = q
  BY <1>1, <1>2, <1>3
<1>5. QED
  BY <1>1, <1>4 DEF p, s

\* A position behind another is not in a block before it.
LEMMA DivUp ==
  ASSUME NEW d \in Nat \ {0}, NEW a \in Nat, NEW b \in Nat, a <= b
  PROVE  a \div d <= b \div d
<1> DEFINE p == a \div d
           q == b \div d
           r == a % d
           s == b % d
<1>1. /\ a = d * p + r /\ p \in Nat /\ r \in 0 .. d - 1
      /\ b = d * q + s /\ q \in Nat /\ s \in 0 .. d - 1
  BY DivMod
<1> HIDE DEF p, q, r, s
<1>2. ASSUME q < p PROVE FALSE
  <2>1. d * (q + 1) <= d * p
    BY <1>1, <1>2, MulUp
  <2>2. d * (q + 1) = d * q + d
    BY <1>1
  <2>3. QED
    BY <1>1, <2>1, <2>2
<1>3. QED
  BY <1>1, <1>2 DEF p, q

\* The positions of n blocks are in the first n of them.
LEMMA DivBelow ==
  ASSUME NEW d \in Nat \ {0}, NEW n \in Nat, NEW a \in Nat, a < n * d
  PROVE  a \div d < n
<1> DEFINE p == a \div d
           r == a % d
<1>1. a = d * p + r /\ p \in Nat /\ r \in 0 .. d - 1
  BY DivMod
<1> HIDE DEF p, r
<1>2. ASSUME n <= p PROVE FALSE
  <2>1. d * n <= d * p
    BY <1>1, <1>2, MulUp
  <2>2. d * n = n * d
    OBVIOUS
  <2>3. QED
    BY <1>1, <2>1, <2>2
<1>3. QED
  BY <1>1, <1>2 DEF p

-----------------------------------------------------------------------------
(***************************************************************************)
(* What read_data copies.                                                  *)
(***************************************************************************)
LEMMA Sizes ==
  /\ MAX_DATA \in Nat \ {0} /\ STR_LEN \in Nat \ {0}
  /\ MAX_INDEX \in Nat \ {0} /\ Entries \in Nat \ {0}
BY ConstantsAssumption

\* The byte at position p of an inode, and n bytes from there.
ByteAt(inode, p) ==
  <<IF p \div MAX_DATA < Entries
    THEN inode_entry[inode].data_block[p \div MAX_DATA] ELSE Wild,
    p % MAX_DATA>>
Bytes(inode, p, n) == [k \in 1 .. n |-> ByteAt(inode, p + k - 1)]

LEMMA ByteTyped ==
  ASSUME TypeOK, NEW inode \in Inodes, NEW p \in Nat
  PROVE  ByteAt(inode, p) \in Byte
<1> DEFINE q == p \div MAX_DATA
           r == p % MAX_DATA
<1>1. q \in Nat /\ r \in 0 .. MAX_DATA - 1
  BY Sizes, DivMod
<1> HIDE DEF q, r
<1>2. ASSUME q < Entries
      PROVE  inode_entry[inode].data_block[q] \in DataBlocks
  <2>1. q \in 0 .. Entries - 1
    BY <1>1, <1>2, Sizes
  <2>2. inode_entry[inode].data_block \in [0 .. Entries - 1 -> DataBlocks]
    BY DEF TypeOK
  <2>3. QED
    BY <2>1, <2>2
<1>3. QED
  BY <1>1, <1>2 DEF ByteAt, Byte, q, r

LEMMA BytesTyped ==
  ASSUME TypeOK, NEW inode \in Inodes, NEW p \in Nat, NEW n \in Nat
  PROVE  /\ Bytes(inode, p, n) \in Seq(Byte)
         /\ Len(Bytes(inode, p, n)) = n
         /\ \A k \in 1 .. n :
              Bytes(inode, p, n)[k] = ByteAt(inode, p + k - 1)
<1> DEFINE g == Bytes(inode, p, n)
<1>1. \A k \in 1 .. n : g[k] = ByteAt(inode, p + k - 1) /\ p + k - 1 \in Nat
  BY DEF Bytes
<1>2. \A k \in 1 .. n : g[k] \in Byte
  BY <1>1, ByteTyped
<1>3. DOMAIN g = 1 .. n /\ g = [k \in 1 .. n |-> g[k]]
  BY DEF Bytes
<1> HIDE DEF g
<1>4. g \in [1 .. n -> Byte]
  BY <1>2, <1>3
<1>5. g \in Seq(Byte) /\ Len(g) = n
  BY <1>3, <1>4
<1>6. QED
  BY <1>1, <1>5 DEF g

LEMMA Joined ==
  ASSUME TypeOK, NEW inode \in Inodes, NEW p \in Nat,
         NEW a \in Nat, NEW b \in Nat
  PROVE  Bytes(inode, p, a) \o Bytes(inode, p + a, b) = Bytes(inode, p, a + b)
<1> DEFINE g == Bytes(inode, p, a)
           h == Bytes(inode, p + a, b)
           w == Bytes(inode, p, a + b)
<1>1. /\ g \in Seq(Byte) /\ Len(g) = a
      /\ \A k \in 1 .. a : g[k] = ByteAt(inode, p + k - 1)
  BY BytesTyped
<1>2. /\ h \in Seq(Byte) /\ Len(h) = b
      /\ \A k \in 1 .. b : h[k] = ByteAt(inode, (p + a) + k - 1)
  <2>1. p + a \in Nat
    OBVIOUS
  <2>2. QED
    BY <2>1, BytesTyped
<1>3. /\ w \in Seq(Byte) /\ Len(w) = a + b
      /\ \A k \in 1 .. a + b : w[k] = ByteAt(inode, p + k - 1)
  <2>1. a + b \in Nat
    OBVIOUS
  <2>2. QED
    BY <2>1, BytesTyped
<1> HIDE DEF g, h, w
<1>4. /\ g \o h \in Seq(Byte) /\ Len(g \o h) = Len(g) + Len(h)
      /\ \A k \in 1 .. Len(g) + Len(h) :
           (g \o h)[k] = IF k <= Len(g) THEN g[k] ELSE h[k - Len(g)]
  <2>1. g \in Seq(Byte) /\ h \in Seq(Byte)
    BY <1>1, <1>2
  <2>2. QED
    BY <2>1, ConcatProperties
<1> DEFINE j == g \o h
<1> HIDE DEF j
<1>5. /\ j \in Seq(Byte) /\ Len(j) = a + b
      /\ \A k \in 1 .. a + b : j[k] = IF k <= a THEN g[k] ELSE h[k - a]
  BY <1>1, <1>2, <1>4 DEF j
<1>6. ASSUME NEW k \in 1 .. a + b PROVE j[k] = w[k]
  <2>1. CASE k <= a
    BY <1>1, <1>3, <1>5, <2>1
  <2>2. CASE ~(k <= a)
    <3>1. k - a \in 1 .. b /\ (p + a) + (k - a) - 1 = p + k - 1
      BY <2>2
    <3>2. QED
      BY <1>2, <1>3, <1>5, <2>2, <3>1
  <2>3. QED
    BY <2>1, <2>2
<1>7. j = w
  BY <1>3, <1>5, <1>6
<1>8. QED
  BY <1>7 DEF g, h, w, j

LEMMA PieceIs ==
  ASSUME NEW inode, NEW p \in Nat, NEW n \in 0 .. MAX_DATA - (p % MAX_DATA)
  PROVE  Piece(inode, p \div MAX_DATA, p % MAX_DATA, n) = Bytes(inode, p, n)
<1> DEFINE q == p \div MAX_DATA
           r == p % MAX_DATA
<1>1. p = MAX_DATA * q + r /\ q \in Nat /\ r \in 0 .. MAX_DATA - 1
  BY Sizes, DivMod
<1> HIDE DEF q, r
<1>2. ASSUME NEW k \in 1 .. n
      PROVE  (p + k - 1) \div MAX_DATA = q /\ (p + k - 1) % MAX_DATA = r + k - 1
  <2>1. n <= MAX_DATA - r
    BY <1>1, Sizes DEF r
  <2>2. r + k - 1 \in 0 .. MAX_DATA - 1 /\ p + k - 1 \in Nat
    BY <1>1, <2>1, Sizes
  <2>3. p + k - 1 = MAX_DATA * q + (r + k - 1)
    BY <1>1, Sizes
  <2>4. QED
    BY <1>1, <2>2, <2>3, Sizes, DivIs
<1>3. Piece(inode, q, r, n) = Bytes(inode, p, n)
  BY <1>2 DEF Piece, Bytes, ByteAt
<1>4. QED
  BY <1>3 DEF q, r

\* The loop of read_data, from the bytes that are left on.
LEMMA CopiedIs ==
  ASSUME TypeOK, NEW inode \in Inodes, NEW offset \in Nat, NEW length \in Nat
  PROVE  Copied(inode, offset, length) = Bytes(inode, offset, length)
<1> DEFINE Pos(n) == offset + length - n
           Here(n) == Clip(n, MAX_DATA - (Pos(n) % MAX_DATA))
           Body(f, n) == IF n = 0 THEN <<>>
                         ELSE Piece(inode, Pos(n) \div MAX_DATA,
                                    Pos(n) % MAX_DATA, Here(n))
                              \o f[n - Here(n)]
           F == CHOOSE f : f = [n \in 0 .. length |-> Body(f, n)]
           g == [n \in 0 .. length |-> Bytes(inode, Pos(n), n)]
<1>1. Copied(inode, offset, length) = F[length]
  BY DEF Copied
<1>2. ASSUME NEW n \in 0 .. length, n # 0
      PROVE  /\ Pos(n) \in Nat /\ Here(n) \in 1 .. n
             /\ Here(n) \in 0 .. MAX_DATA - (Pos(n) % MAX_DATA)
             /\ n - Here(n) \in 0 .. n - 1
             /\ Pos(n - Here(n)) = Pos(n) + Here(n)
  <2>1. Pos(n) \in Nat
    OBVIOUS
  <2>2. Pos(n) % MAX_DATA \in 0 .. MAX_DATA - 1
    BY <2>1, Sizes, DivMod
  <2> DEFINE m == MAX_DATA - (Pos(n) % MAX_DATA)
  <2>3. m \in Nat \ {0}
    BY <2>2, Sizes
  <2> HIDE DEF m
  <2>4. Clip(n, m) \in 1 .. n /\ Clip(n, m) \in 0 .. m
    BY <1>2, <2>3 DEF Clip
  <2>5. Here(n) \in 1 .. n /\ Here(n) \in 0 .. m
    BY <2>4 DEF m
  <2> HIDE DEF Here
  <2>6. Pos(n - Here(n)) = Pos(n) + Here(n) /\ n - Here(n) \in 0 .. n - 1
    BY <1>2, <2>5
  <2>7. QED
    BY <2>1, <2>5, <2>6 DEF m
<1>3. \A n \in 0 .. length : g[n] = Bytes(inode, Pos(n), n)
  OBVIOUS
<1>4. ASSUME NEW n \in 0 .. length PROVE g[n] = Body(g, n)
  <2>1. CASE n = 0
    BY <1>3, <2>1 DEF Bytes
  <2>2. CASE n # 0
    <3> DEFINE h == Here(n)
               p == Pos(n)
    <3>1. /\ p \in Nat /\ h \in 1 .. n /\ n - h \in 0 .. length
          /\ h \in 0 .. MAX_DATA - (p % MAX_DATA) /\ Pos(n - h) = p + h
          /\ n - h \in Nat /\ h \in Nat /\ h + (n - h) = n
      BY <1>2, <2>2
    <3>2. Piece(inode, p \div MAX_DATA, p % MAX_DATA, h) = Bytes(inode, p, h)
      BY <3>1, PieceIs
    <3>3. g[n - h] = Bytes(inode, p + h, n - h)
      BY <1>3, <3>1
    <3>4. Bytes(inode, p, h) \o Bytes(inode, p + h, n - h) = Bytes(inode, p, n)
      <4> HIDE DEF h, p
      <4>1. Bytes(inode, p, h) \o Bytes(inode, p + h, n - h)
              = Bytes(inode, p, h + (n - h))
        BY <3>1, Joined
      <4>2. QED
        BY <3>1, <4>1
    <3>5. g[n] = Bytes(inode, p, n)
      BY <1>3
    <3>6. Body(g, n) = Piece(inode, p \div MAX_DATA, p % MAX_DATA, h)
                         \o g[n - h]
      BY <2>2
    <3> HIDE DEF g, h, p, Body
    <3>7. QED
      BY <3>2, <3>3, <3>4, <3>5, <3>6
  <2>3. QED
    BY <2>1, <2>2
<1>5. g = [n \in 0 .. length |-> Body(g, n)]
  <2> HIDE DEF Body
  <2>1. QED
    BY <1>4
<1>6. F = [n \in 0 .. length |-> Body(F, n)]
  <2> HIDE DEF g, Body
  <2>1. QED
    BY <1>5
<1> HIDE DEF F, g
<1>7. ASSUME NEW x \in 0 .. length, F[x] # g[x],
             \A y \in 0 .. x - 1 : F[y] = g[y]
      PROVE  FALSE
  <2>1. CASE x = 0
    BY <1>4, <1>6, <1>7, <2>1
  <2>2. CASE x # 0
    <3>1. x - Here(x) \in 0 .. x - 1
      BY <1>2, <2>2
    <3> HIDE DEF Here, Pos
    <3>2. F[x - Here(x)] = g[x - Here(x)]
      BY <1>7, <3>1
    <3>3. Body(F, x) = Body(g, x)
      BY <3>2
    <3>4. QED
      BY <1>4, <1>6, <1>7, <3>3
  <2>3. QED
    BY <2>1, <2>2
<1>8. \A n \in 0 .. length : F[n] = g[n]
  <2> DEFINE T == {n \in 0 .. length : F[n] # g[n]}
  <2> SUFFICES ASSUME T # {} PROVE FALSE
    OBVIOUS
  <2>1. T \subseteq Nat
    OBVIOUS
  <2>2. PICK x \in T : \A y \in T : x <= y
    <3> HIDE DEF T
    <3>1. QED
      BY <2>1, LeastNumber
  <2>3. x \in 0 .. length /\ F[x] # g[x]
    OBVIOUS
  <2>4. \A y \in 0 .. x - 1 : F[y] = g[y]
    BY <2>2, <2>3
  <2>5. QED
    BY <1>7, <2>3, <2>4
<1>9. Pos(length) = offset /\ length \in 0 .. length
  OBVIOUS
<1>10. QED
  BY <1>1, <1>3, <1>8, <1>9

\* A read that begins in the file returns what it was asked for.
LEMMA ReadDataIs ==
  ASSUME TypeOK, NEW inode \in Inodes, NEW offset \in Nat, NEW length \in Nat,
         offset < inode_entry[inode].length
  PROVE  /\ ReadData(inode, offset, length).ret = length
         /\ ReadData(inode, offset, length).bytes = Bytes(inode, offset, length)
<1> DEFINE a == offset \div MAX_DATA
           b == inode_entry[inode].length \div MAX_DATA
<1>1. inode_entry[inode].length \in Nat
  <2>1. inode_entry[inode].length \in Lengths
    BY DEF TypeOK
  <2>2. Lengths \subseteq 0 .. Entries * MAX_DATA
    BY ConstantsAssumption
  <2>3. inode_entry[inode].length \in 0 .. Entries * MAX_DATA
    BY <2>1, <2>2
  <2>4. QED
    BY <2>3
<1>2. a <= b
  BY <1>1, Sizes, DivUp
<1>3. a \in Nat /\ b \in Nat
  BY <1>1, Sizes, DivMod
<1> HIDE DEF a, b
<1>4. ~(a > b)
  BY <1>2, <1>3
<1>5. ReadData(inode, offset, length)
        = [ret |-> length, bytes |-> Copied(inode, offset, length)]
  BY <1>4 DEF ReadData, a, b
<1>6. QED
  BY <1>5, CopiedIs

-----------------------------------------------------------------------------
(***************************************************************************)
(* Types.                                                                  *)
(***************************************************************************)
LEMMA EntryTyped ==
  ASSUME TypeOK, NEW e \in 1 .. Len(direntries)
  PROVE  /\ direntries[e].name \in Seq(Chars)
         /\ Len(direntries[e].name) \in 1 .. STR_LEN
         /\ direntries[e].type \in Kinds
         /\ direntries[e].inode \in Inodes
<1>1. direntries \in Dirs
  BY DEF TypeOK
<1>2. /\ direntries \in Seq([name : Seq(Chars), type : Kinds, inode : Inodes])
      /\ Len(direntries[e].name) \in 1 .. STR_LEN
  BY <1>1, ConstantsAssumption
<1>3. direntries[e] \in [name : Seq(Chars), type : Kinds, inode : Inodes]
  BY <1>2, ElementOfSeq
<1>4. QED
  BY <1>2, <1>3

LEMMA DirTyped ==
  ASSUME TypeOK
  PROVE  Len(direntries) \in Nat /\ Len(direntries) <= MAX_INDEX
<1>1. direntries \in Dirs
  BY DEF TypeOK
<1>2. /\ direntries \in Seq([name : Seq(Chars), type : Kinds, inode : Inodes])
      /\ Len(direntries) <= MAX_INDEX
  BY <1>1, ConstantsAssumption
<1>3. QED
  BY <1>2

LEMMA CharsAreStrings ==
  ASSUME NEW s \in Seq(Chars)
  PROVE  s \in Seq(STRING)
<1>1. Chars \subseteq STRING
  BY DEF Chars
<1>2. s \in [1 .. Len(s) -> Chars] /\ Len(s) \in Nat
  OBVIOUS
<1>3. s \in [1 .. Len(s) -> STRING]
  BY <1>1, <1>2
<1>4. QED
  BY <1>2, <1>3

\* The records of the actions, field by field.
Fields == {"kind", "name", "inode_num", "file_pos", "got", "listed", "ret"}

LEMMA FieldsTyped ==
  ASSUME NEW d, d = [f \in Fields |-> d[f]],
         d.kind \in Kinds \cup {"none"}, d.name \in Seq(STRING),
         d.inode_num \in Inodes, d.file_pos \in Nat, d.got \in Seq(Byte),
         d.listed \in Seq(Seq(STRING)), d.ret \in Int
  PROVE  d \in Descriptor
BY DEF Descriptor, Fields

LEMMA ClosedTyped == Closed \in Descriptor
<1>1. /\ <<>> \in Seq(STRING) /\ <<>> \in Seq(Byte)
      /\ <<>> \in Seq(Seq(STRING))
  OBVIOUS
<1>2. 0 \in Inodes /\ 0 \in Nat /\ None \in Int
  BY ConstantsAssumption DEF None
<1>3. QED
  BY <1>1, <1>2 DEF Closed, Descriptor

LEMMA ClosedFields == DOMAIN Closed = Fields
BY DEF Closed, Fields

\* The name of an index is that of the entry, and nothing behind the last:
\* behind the boot block is the length 0 of inode 0.
LEMMA EntryAtIs ==
  ASSUME TypeOK, inode_entry[0].length = 0, NEW i \in Nat
  PROVE  /\ i < Len(direntries) => EntryAt(i) = direntries[i + 1].name
         /\ i >= Len(direntries) => EntryAt(i) = <<>>
         /\ EntryAt(i) \in Seq(STRING)
<1>1. Len(direntries) \in Nat
  BY DirTyped
<1>2. CASE i < Len(direntries)
  <2>1. i + 1 \in 1 .. Len(direntries)
    BY <1>1, <1>2
  <2>2. direntries[i + 1].name \in Seq(STRING)
    BY <2>1, EntryTyped, CharsAreStrings
  <2>3. QED
    BY <1>1, <1>2, <2>2 DEF EntryAt
<1>3. CASE i >= Len(direntries)
  <2>1. <<>> \in Seq(STRING)
    OBVIOUS
  <2>2. ~(i < Len(direntries))
    BY <1>1, <1>3
  <2>3. EntryAt(i) = <<>>
    BY <2>2 DEF EntryAt
  <2>4. QED
    BY <2>1, <2>2, <2>3
<1>4. QED
  BY <1>1, <1>2, <1>3

LEMMA EntryNamedIs ==
  ASSUME TypeOK, NEW s, EntryNamed(s) # 0
  PROVE  /\ EntryNamed(s) \in 1 .. Len(direntries)
         /\ SameName(s, direntries[EntryNamed(s)].name)
         /\ \A j \in 1 .. EntryNamed(s) - 1 : ~SameName(s, direntries[j].name)
<1>1. Len(direntries) \in Nat
  BY DirTyped
<1> DEFINE M == Matches(s)
<1>2. M # {} /\ M \subseteq Nat /\ M \subseteq 1 .. Len(direntries)
  BY <1>1 DEF EntryNamed, Matches
<1>3. EntryNamed(s) = CHOOSE i \in M : \A j \in M : i <= j
  BY <1>2 DEF EntryNamed
<1>4. \E i \in M : \A j \in M : i <= j
  <2> HIDE DEF M
  <2>1. QED
    BY <1>2, LeastNumber
<1> DEFINE e == EntryNamed(s)
<1>5. e \in M /\ \A j \in M : e <= j
  <2> HIDE DEF M
  <2>1. QED
    BY <1>3, <1>4
<1> HIDE DEF e
<1>6. e \in 1 .. Len(direntries) /\ SameName(s, direntries[e].name)
  BY <1>5 DEF Matches
<1>7. ASSUME NEW j \in 1 .. e - 1 PROVE ~SameName(s, direntries[j].name)
  <2>1. j \in 1 .. Len(direntries) /\ ~(e <= j)
    BY <1>1, <1>6
  <2>2. j \notin M
    BY <1>5, <2>1
  <2>3. QED
    BY <2>1, <2>2 DEF Matches
<1>8. QED
  BY <1>6, <1>7 DEF e

-----------------------------------------------------------------------------
(***************************************************************************)
(* Names: what strncmp takes for the same is what has the same first       *)
(* STR_LEN characters.                                                     *)
(***************************************************************************)
LEMMA CharAt ==
  ASSUME NEW s \in Seq(Chars), NEW i \in Nat \ {0}
  PROVE  /\ i <= Len(s) => At(s, i) = s[i] /\ At(s, i) # "nul"
         /\ i > Len(s) => At(s, i) = "nul"
<1>1. Len(s) \in Nat
  OBVIOUS
<1>2. CASE i <= Len(s)
  <2>1. s[i] \in Chars
    BY <1>1, <1>2, ElementOfSeq
  <2>2. QED
    BY <1>1, <1>2, <2>1 DEF At, Chars
<1>3. CASE i > Len(s)
  BY <1>1, <1>3 DEF At
<1>4. QED
  BY <1>1, <1>2, <1>3

LEMMA TruncatedIs ==
  ASSUME NEW s \in Seq(Chars)
  PROVE  /\ Truncated(s) \in Seq(Chars)
         /\ Len(Truncated(s)) = Clip(Len(s), STR_LEN)
         /\ \A i \in 1 .. Clip(Len(s), STR_LEN) : Truncated(s)[i] = s[i]
<1> DEFINE n == Clip(Len(s), STR_LEN)
<1>1. n \in 0 .. Len(s) /\ Len(s) \in Nat
  BY Sizes DEF Clip
<1> HIDE DEF n
<1>2. \A i \in 1 .. n : s[i] \in Chars
  BY <1>1, ElementOfSeq
<1>3. Truncated(s) = SubSeq(s, 1, n)
  BY DEF Truncated, n
<1>4. /\ SubSeq(s, 1, n) \in Seq(Chars) /\ Len(SubSeq(s, 1, n)) = n
      /\ \A i \in 1 .. n : SubSeq(s, 1, n)[i] = s[i]
  BY <1>1, <1>2
<1>5. QED
  BY <1>3, <1>4 DEF n

LEMMA SameNameIs ==
  ASSUME NEW s \in Seq(Chars), NEW f \in Seq(Chars), Len(f) \in 1 .. STR_LEN
  PROVE  SameName(s, f) <=> f = Truncated(s)
<1> DEFINE t == Truncated(s)
<1>1. /\ t \in Seq(Chars) /\ Len(t) = Clip(Len(s), STR_LEN)
      /\ \A i \in 1 .. Len(t) : t[i] = s[i]
  BY TruncatedIs
<1> HIDE DEF t
<1>2. Len(s) \in Nat /\ Len(f) \in Nat /\ STR_LEN \in Nat \ {0}
  BY Sizes
<1>3. ASSUME f = t PROVE SameName(s, f)
  <2>1. ASSUME NEW i \in 1 .. STR_LEN PROVE At(s, i) = At(f, i)
    <3>1. CASE i <= Len(f)
      <4>1. i <= Len(s) /\ f[i] = s[i]
        BY <1>1, <1>2, <1>3, <3>1 DEF Clip
      <4>2. QED
        BY <1>2, <3>1, <4>1, CharAt
    <3>2. CASE i > Len(f)
      <4>1. i > Len(s)
        BY <1>1, <1>2, <1>3, <3>2 DEF Clip
      <4>2. QED
        BY <1>2, <3>2, <4>1, CharAt
    <3>3. QED
      BY <1>2, <3>1, <3>2
  <2>2. QED
    BY <2>1 DEF SameName
<1>4. ASSUME SameName(s, f) PROVE f = t
  <2> DEFINE T == {i \in 1 .. Len(f) : ~(i <= Len(s) /\ s[i] = f[i])}
  <2>1. ASSUME T # {} PROVE FALSE
    <3>1. T \subseteq Nat
      BY <1>2
    <3>2. PICK i \in T : \A j \in T : i <= j
      <4> HIDE DEF T
      <4>1. QED
        BY <2>1, <3>1, LeastNumber
    <3>3. i \in 1 .. Len(f) /\ ~(i <= Len(s) /\ s[i] = f[i])
      OBVIOUS
    <3>4. ASSUME NEW j \in 1 .. i - 1
          PROVE  At(s, j) = At(f, j) /\ At(s, j) # "nul"
      <4>1. j \in 1 .. Len(f) /\ j \notin T
        BY <1>2, <3>2, <3>3
      <4>2. j <= Len(s) /\ s[j] = f[j]
        BY <4>1
      <4>3. QED
        BY <1>2, <4>1, <4>2, CharAt
    <3> HIDE DEF T
    <3>5. i \in 1 .. STR_LEN /\ i \in Nat \ {0}
      BY <1>2, <3>3
    <3>6. At(s, i) = At(f, i)
      BY <1>4, <3>4, <3>5 DEF SameName
    <3>7. At(f, i) = f[i] /\ At(f, i) # "nul"
      BY <1>2, <3>3, <3>5, CharAt
    <3>8. i <= Len(s)
      BY <1>2, <3>5, <3>6, <3>7, CharAt
    <3>9. At(s, i) = s[i]
      BY <3>5, <3>8, CharAt
    <3>10. QED
      BY <3>3, <3>6, <3>7, <3>8, <3>9
  <2>2. \A i \in 1 .. Len(f) : i <= Len(s) /\ s[i] = f[i]
    BY <2>1
  <2> HIDE DEF T
  <2>3. Len(f) <= Len(s)
    BY <1>2, <2>2
  <2>4. Len(f) = Len(t)
    <3>1. CASE Len(f) = STR_LEN
      BY <1>1, <1>2, <2>3, <3>1 DEF Clip
    <3>2. CASE Len(f) # STR_LEN
      <4> DEFINE i == Len(f) + 1
      <4>1. i \in 1 .. STR_LEN /\ i \in Nat \ {0} /\ i > Len(f)
        BY <1>2, <3>2
      <4>2. ASSUME NEW j \in 1 .. i - 1
            PROVE  At(s, j) = At(f, j) /\ At(s, j) # "nul"
        <5>1. j \in 1 .. Len(f)
          BY <1>2
        <5>2. j <= Len(s) /\ s[j] = f[j]
          BY <2>2, <5>1
        <5>3. QED
          BY <1>2, <5>1, <5>2, CharAt
      <4> HIDE DEF i
      <4>3. At(s, i) = At(f, i)
        BY <1>4, <4>1, <4>2 DEF SameName
      <4>4. At(f, i) = "nul"
        BY <4>1, CharAt
      <4>5. ~(i <= Len(s))
        BY <4>1, <4>3, <4>4, CharAt
      <4>6. Len(s) = Len(f)
        BY <1>2, <2>3, <4>5 DEF i
      <4>7. QED
        BY <1>1, <1>2, <4>6 DEF Clip
    <3>3. QED
      BY <3>1, <3>2
  <2>5. \A i \in 1 .. Len(f) : f[i] = t[i]
    BY <1>1, <2>2, <2>4
  <2>6. QED
    BY <1>1, <2>4, <2>5, SeqEqual
<1>5. QED
  BY <1>3, <1>4 DEF t

-----------------------------------------------------------------------------
(***************************************************************************)
(* The invariant.  Of a descriptor f, of the inodes ino and of the         *)
(* directory dir: what has been read of a file is what is before the       *)
(* position, what has been listed are the names before it, and the entry   *)
(* is the first of that name.                                              *)
(***************************************************************************)
BytesOf(blocks, p, n) ==
  [k \in 1 .. n |->
     <<IF (p + k - 1) \div MAX_DATA < Entries
       THEN blocks[(p + k - 1) \div MAX_DATA] ELSE Wild,
       (p + k - 1) % MAX_DATA>>]

ReadOf(f, ino) ==
  f.kind = "file" =>
    /\ f.file_pos = Len(f.got)
    /\ f.got = BytesOf(ino[f.inode_num].data_block, 0, f.file_pos)
    /\ f.ret = 0 => f.file_pos >= ino[f.inode_num].length

ListedOf(f, dir) ==
  f.kind = "dir" =>
    /\ Len(f.listed) = Clip(f.file_pos, Len(dir))
    /\ \A i \in 1 .. Len(f.listed) : f.listed[i] = dir[i].name
    /\ f.ret = 0 => f.file_pos >= Len(dir)

FoundOf(f, dir) ==
  /\ f.kind # "none" =>
       /\ f.ret # -1
       /\ \E i \in 1 .. Len(dir) :
            /\ dir[i].name = Truncated(f.name)
            /\ dir[i].inode = f.inode_num
            /\ \A j \in 1 .. i - 1 : dir[j].name # Truncated(f.name)
  /\ f.ret = -1 =>
       \A i \in 1 .. Len(dir) : dir[i].name # Truncated(f.name)

Holds(f, ino, dir) == ReadOf(f, ino) /\ ListedOf(f, dir) /\ FoundOf(f, dir)

\* inode 0 is the directory itself, and has no bytes.
Rooted == inode_entry[0].length = 0

FileInv ==
  /\ TypeOK
  /\ Rooted
  /\ \A fd \in Fds : Holds(fd_arr[fd], inode_entry, direntries)

LEMMA BytesAre ==
  ASSUME NEW inode, NEW p, NEW n
  PROVE  Bytes(inode, p, n) = BytesOf(inode_entry[inode].data_block, p, n)
BY DEF Bytes, BytesOf, ByteAt

LEMMA ClosedHolds == Holds(Closed, inode_entry, direntries)
BY DEF Holds, ReadOf, ListedOf, FoundOf, Closed, None

LEMMA InitInv == Init => FileInv
<1> SUFFICES ASSUME Init PROVE FileInv
  OBVIOUS
<1>1. fd_arr = [fd \in Fds |-> Closed]
  BY DEF Init
<1>2. TypeOK
  BY <1>1, ClosedTyped DEF Init, TypeOK
<1>3. Rooted
  BY DEF Init, Rooted
<1>4. \A fd \in Fds : Holds(fd_arr[fd], inode_entry, direntries)
  BY <1>1, ClosedHolds
<1>5. QED
  BY <1>2, <1>3, <1>4 DEF FileInv

\* A step that leaves the image and gives one descriptor what holds.
LEMMA OneKept ==
  ASSUME FileInv, UNCHANGED <<direntries, inode_entry>>,
         NEW fd \in Fds, NEW d \in Descriptor,
         Holds(d, inode_entry, direntries),
         fd_arr' = [fd_arr EXCEPT ![fd] = d]
  PROVE  FileInv'
<1>1. fd_arr \in [Fds -> Descriptor]
  BY DEF FileInv, TypeOK
<1>2. \A g \in Fds : fd_arr'[g] = IF g = fd THEN d ELSE fd_arr[g]
  BY <1>1
<1>3. fd_arr' \in [Fds -> Descriptor]
  BY <1>1
<1>4. TypeOK'
  BY <1>3 DEF FileInv, TypeOK
<1>5. Rooted'
  BY DEF FileInv, Rooted
<1>6. \A g \in Fds : Holds(fd_arr'[g], inode_entry, direntries)
  BY <1>2 DEF FileInv
<1>7. \A g \in Fds : Holds(fd_arr'[g], inode_entry', direntries')
  BY <1>6
<1>8. QED
  BY <1>4, <1>5, <1>7 DEF FileInv

LEMMA OpenKept ==
  ASSUME FileInv, NEW fd \in Fds, NEW s \in Names, Open(fd, s)
  PROVE  FileInv'
<1> DEFINE e == EntryNamed(s)
           d == [Closed EXCEPT !.kind = direntries[e].type, !.name = s,
                               !.inode_num = direntries[e].inode]
<1>1. /\ e # 0 /\ fd_arr' = [fd_arr EXCEPT ![fd] = d]
      /\ UNCHANGED <<direntries, inode_entry>>
  BY DEF Open
<1>2. TypeOK /\ s \in Seq(Chars) /\ s \in Seq(STRING)
  BY ConstantsAssumption, CharsAreStrings DEF FileInv
<1>3. /\ e \in 1 .. Len(direntries)
      /\ SameName(s, direntries[e].name)
      /\ \A j \in 1 .. e - 1 : ~SameName(s, direntries[j].name)
  BY <1>1, <1>2, EntryNamedIs
<1>4. Len(direntries) \in Nat
  BY <1>2, DirTyped
<1> HIDE DEF e
<1>5. direntries[e].type \in Kinds /\ direntries[e].inode \in Inodes
  BY <1>2, <1>3, EntryTyped
<1>6. ASSUME NEW j \in 1 .. Len(direntries)
      PROVE  SameName(s, direntries[j].name)
               <=> direntries[j].name = Truncated(s)
  <2>1. /\ direntries[j].name \in Seq(Chars)
        /\ Len(direntries[j].name) \in 1 .. STR_LEN
    BY <1>2, EntryTyped
  <2>2. QED
    BY <1>2, <2>1, SameNameIs
<1>7. Closed \in Descriptor /\ direntries[e].type \in Kinds \cup {"none"}
  BY <1>5, ClosedTyped
<1>8. /\ d \in Descriptor
      /\ d.kind = direntries[e].type /\ d.name = s
      /\ d.inode_num = direntries[e].inode /\ d.file_pos = 0 /\ d.got = <<>>
      /\ d.listed = <<>> /\ d.ret = None
  <2>1. /\ d.kind = direntries[e].type /\ d.name = s
        /\ d.inode_num = direntries[e].inode
        /\ d.file_pos = Closed.file_pos /\ d.got = Closed.got
        /\ d.listed = Closed.listed /\ d.ret = Closed.ret
    BY ClosedFields DEF Fields
  <2>2. DOMAIN d = Fields /\ d = [f \in Fields |-> d[f]]
    BY ClosedFields
  <2>3. /\ Closed.file_pos \in Nat /\ Closed.got \in Seq(Byte)
        /\ Closed.listed \in Seq(Seq(STRING)) /\ Closed.ret \in Int
    BY ClosedTyped DEF Descriptor
  <2> HIDE DEF d
  <2>4. d \in Descriptor
    BY <1>2, <1>5, <1>7, <2>1, <2>2, <2>3, FieldsTyped
  <2>5. QED
    BY <2>1, <2>4 DEF Closed
<1> HIDE DEF d
<1>9. ReadOf(d, inode_entry)
  <2>1. BytesOf(inode_entry[d.inode_num].data_block, 0, 0) = <<>>
    BY DEF BytesOf
  <2>2. QED
    BY <1>8, <2>1 DEF ReadOf, None
<1>10. ListedOf(d, direntries)
  BY <1>4, <1>8 DEF ListedOf, Clip, None
<1>11. FoundOf(d, direntries)
  <2>1. /\ direntries[e].name = Truncated(s)
        /\ direntries[e].inode = d.inode_num
        /\ \A j \in 1 .. e - 1 : direntries[j].name # Truncated(s)
    BY <1>3, <1>4, <1>6, <1>8
  <2>2. d.ret # -1
    BY <1>8 DEF None
  <2>3. QED
    BY <1>3, <1>8, <2>1, <2>2 DEF FoundOf
<1>12. QED
  BY <1>1, <1>8, <1>9, <1>10, <1>11, OneKept DEF Holds

LEMMA OpenFailsKept ==
  ASSUME FileInv, NEW fd \in Fds, NEW s \in Names, OpenFails(fd, s)
  PROVE  FileInv'
<1> DEFINE d == [Closed EXCEPT !.name = s, !.ret = -1]
<1>1. /\ EntryNamed(s) = 0 /\ fd_arr' = [fd_arr EXCEPT ![fd] = d]
      /\ UNCHANGED <<direntries, inode_entry>>
  BY DEF OpenFails
<1>2. TypeOK /\ s \in Seq(Chars) /\ s \in Seq(STRING)
  BY ConstantsAssumption, CharsAreStrings DEF FileInv
<1>3. /\ d \in Descriptor
      /\ d.kind = "none" /\ d.name = s /\ d.ret = -1
  <2>1. /\ d.kind = Closed.kind /\ d.name = s
        /\ d.inode_num = Closed.inode_num
        /\ d.file_pos = Closed.file_pos /\ d.got = Closed.got
        /\ d.listed = Closed.listed /\ d.ret = -1
    BY ClosedFields DEF Fields
  <2>2. DOMAIN d = Fields /\ d = [f \in Fields |-> d[f]]
    BY ClosedFields
  <2>3. /\ Closed.kind \in Kinds \cup {"none"} /\ Closed.inode_num \in Inodes
        /\ Closed.file_pos \in Nat /\ Closed.got \in Seq(Byte)
        /\ Closed.listed \in Seq(Seq(STRING))
    BY ClosedTyped DEF Descriptor
  <2> HIDE DEF d
  <2>4. d \in Descriptor
    BY <1>2, <2>1, <2>2, <2>3, FieldsTyped
  <2>5. QED
    BY <2>1, <2>4 DEF Closed
<1> HIDE DEF d
<1>4. ASSUME NEW i \in 1 .. Len(direntries)
      PROVE  direntries[i].name # Truncated(s)
  <2>1. /\ direntries[i].name \in Seq(Chars)
        /\ Len(direntries[i].name) \in 1 .. STR_LEN
    BY <1>2, EntryTyped
  <2>2. Matches(s) = {}
    <3>1. Len(direntries) \in Nat
      BY <1>2, DirTyped
    <3>2. SUFFICES ASSUME Matches(s) # {} PROVE FALSE
      OBVIOUS
    <3>3. Matches(s) \subseteq Nat \ {0}
      BY <3>1 DEF Matches
    <3>4. \E j \in Matches(s) : \A k \in Matches(s) : j <= k
      BY <3>2, <3>3, LeastNumber
    <3>5. EntryNamed(s) \in Matches(s)
      BY <3>2, <3>4 DEF EntryNamed
    <3>6. QED
      BY <1>1, <3>3, <3>5
  <2>3. ~SameName(s, direntries[i].name)
    BY <2>2 DEF Matches
  <2>4. QED
    BY <1>2, <2>1, <2>3, SameNameIs
<1>5. Holds(d, inode_entry, direntries)
  BY <1>3, <1>4 DEF Holds, ReadOf, ListedOf, FoundOf
<1>6. QED
  BY <1>1, <1>3, <1>5, OneKept

LEMMA CloseKept ==
  ASSUME FileInv, NEW fd \in Fds, Close(fd)
  PROVE  FileInv'
BY ClosedTyped, ClosedHolds, OneKept DEF Close

LEMMA DescriptorFields ==
  ASSUME NEW f \in Descriptor
  PROVE  /\ DOMAIN f = Fields
         /\ f.kind \in Kinds \cup {"none"} /\ f.name \in Seq(STRING)
         /\ f.inode_num \in Inodes /\ f.file_pos \in Nat
         /\ f.got \in Seq(Byte) /\ f.listed \in Seq(Seq(STRING))
         /\ f.ret \in Int
BY DEF Descriptor, Fields

\* At the end of a file, of the directory, or of the boot block: only the
\* value that is returned is new.
LEMMA Ended ==
  ASSUME NEW f \in Descriptor, NEW d, d = [f EXCEPT !.ret = 0]
  PROVE  /\ d \in Descriptor
         /\ d.kind = f.kind /\ d.name = f.name /\ d.inode_num = f.inode_num
         /\ d.file_pos = f.file_pos /\ d.got = f.got
         /\ d.listed = f.listed /\ d.ret = 0
<1>1. /\ d.kind = f.kind /\ d.name = f.name /\ d.inode_num = f.inode_num
      /\ d.file_pos = f.file_pos /\ d.got = f.got
      /\ d.listed = f.listed /\ d.ret = 0
  BY DescriptorFields DEF Fields
<1>2. d = [x \in Fields |-> d[x]]
  BY DescriptorFields
<1>3. /\ d.kind \in Kinds \cup {"none"} /\ d.name \in Seq(STRING)
      /\ d.inode_num \in Inodes /\ d.file_pos \in Nat
      /\ d.got \in Seq(Byte) /\ d.listed \in Seq(Seq(STRING))
      /\ d.ret \in Int
  BY <1>1, DescriptorFields
<1>4. d \in Descriptor
  BY <1>2, <1>3, FieldsTyped
<1>5. QED
  BY <1>1, <1>4

LEMMA FileReadKept ==
  ASSUME FileInv, NEW fd \in Fds, NEW n \in Requests, FileRead(fd, n)
  PROVE  FileInv'
<1>1. TypeOK /\ n \in Nat \ {0}
  BY ConstantsAssumption DEF FileInv
<1>2. fd_arr[fd] \in Descriptor
  BY <1>1 DEF TypeOK
<1>3. PICK f \in Descriptor : f = fd_arr[fd]
  BY <1>2
<1> DEFINE i == f.inode_num
           p == f.file_pos
           m == inode_entry[i].length
           r == ReadData(i, p, n)
<1>4. /\ f.kind = "file"
      /\ fd_arr' = [fd_arr EXCEPT ![fd] =
           IF p >= m THEN [f EXCEPT !.ret = 0]
           ELSE [f EXCEPT !.ret = r.ret, !.file_pos = @ + r.ret,
                          !.got = @ \o r.bytes]]
      /\ UNCHANGED <<direntries, inode_entry>>
  BY <1>3 DEF FileRead
<1>5. Holds(f, inode_entry, direntries)
  BY <1>3 DEF FileInv
<1>6. i \in Inodes /\ p \in Nat /\ f.got \in Seq(Byte)
  BY DescriptorFields
<1>7. m \in Nat
  <2>1. m \in Lengths
    BY <1>1, <1>6 DEF TypeOK
  <2>2. Lengths \subseteq 0 .. Entries * MAX_DATA
    BY ConstantsAssumption
  <2>3. m \in 0 .. Entries * MAX_DATA
    BY <2>1, <2>2
  <2> HIDE DEF m
  <2>4. QED
    BY <2>3
<1>8. CASE p >= m
  <2>1. PICK d : d = [f EXCEPT !.ret = 0]
    OBVIOUS
  <2>2. /\ d \in Descriptor
        /\ d.kind = f.kind /\ d.name = f.name /\ d.inode_num = f.inode_num
        /\ d.file_pos = f.file_pos /\ d.got = f.got
        /\ d.listed = f.listed /\ d.ret = 0
    BY <2>1, Ended
  <2>3. Holds(d, inode_entry, direntries)
    <3>1. ReadOf(d, inode_entry)
      BY <1>4, <1>5, <1>8, <2>2 DEF Holds, ReadOf
    <3>2. ListedOf(d, direntries)
      BY <1>4, <2>2 DEF ListedOf
    <3>3. FoundOf(d, direntries)
      BY <1>4, <1>5, <2>2 DEF Holds, FoundOf
    <3>4. QED
      BY <3>1, <3>2, <3>3 DEF Holds
  <2>4. fd_arr' = [fd_arr EXCEPT ![fd] = d]
    BY <1>4, <1>8, <2>1
  <2>5. QED
    BY <1>4, <2>2, <2>3, <2>4, OneKept
<1>9. CASE ~(p >= m)
  <2>1. r.ret = n /\ r.bytes = Bytes(i, p, n)
    <3>1. p < m
      BY <1>6, <1>7, <1>9
    <3>2. QED
      BY <1>1, <1>6, <3>1, ReadDataIs
  <2> DEFINE g == f.got \o r.bytes
  <2>2. /\ f.got = Bytes(i, 0, p) /\ Len(f.got) = p
    BY <1>4, <1>5, BytesAre DEF Holds, ReadOf
  <2>3. g = Bytes(i, 0, p + n)
    <3>1. 0 + p = p
      BY <1>6
    <3>2. Bytes(i, 0, p) \o Bytes(i, 0 + p, n) = Bytes(i, 0, p + n)
      <4> HIDE DEF i, p
      <4>1. 0 \in Nat /\ n \in Nat
        BY <1>1
      <4>2. QED
        BY <1>1, <1>6, <4>1, Joined
    <3>3. QED
      BY <2>1, <2>2, <3>1, <3>2
  <2>4. g \in Seq(Byte) /\ Len(g) = p + n
    <3> HIDE DEF g
    <3>1. p + n \in Nat
      BY <1>1, <1>6
    <3>2. QED
      BY <1>1, <1>6, <2>3, <3>1, BytesTyped
  <2>5. PICK d : d = [f EXCEPT !.ret = n, !.file_pos = @ + n, !.got = g]
    OBVIOUS
  <2>6. fd_arr' = [fd_arr EXCEPT ![fd] = d]
    BY <1>4, <1>9, <2>1, <2>5
  <2> HIDE DEF g
  <2>7. /\ d.kind = f.kind /\ d.name = f.name /\ d.inode_num = f.inode_num
        /\ d.file_pos = f.file_pos + n /\ d.got = g
        /\ d.listed = f.listed /\ d.ret = n
    BY <2>5, DescriptorFields DEF Fields
  <2>8. d = [x \in Fields |-> d[x]]
    BY <2>5, DescriptorFields
  <2>9. d \in Descriptor
    <3>1. d.file_pos \in Nat /\ d.ret \in Int
      BY <1>1, <1>6, <2>7
    <3>2. QED
      BY <2>4, <2>7, <2>8, <3>1, DescriptorFields, FieldsTyped
  <2>10. ReadOf(d, inode_entry)
    <3>1. g = BytesOf(inode_entry[i].data_block, 0, p + n)
      BY <2>3, BytesAre
    <3>2. d.ret # 0
      BY <1>1, <2>7
    <3>3. QED
      BY <2>4, <2>7, <3>1, <3>2 DEF ReadOf
  <2>11. ListedOf(d, direntries)
    BY <1>4, <2>7 DEF ListedOf
  <2>12. FoundOf(d, direntries)
    <3>1. d.ret # -1
      BY <1>1, <2>7
    <3>2. QED
      BY <1>4, <1>5, <2>7, <3>1 DEF Holds, FoundOf
  <2>13. QED
    BY <1>4, <2>6, <2>9, <2>10, <2>11, <2>12, OneKept DEF Holds
<1>10. QED
  BY <1>8, <1>9

LEMMA DirReadKept ==
  ASSUME FileInv, NEW fd \in Fds, DirRead(fd)
  PROVE  FileInv'
<1>1. TypeOK /\ inode_entry[0].length = 0
  BY DEF FileInv, Rooted
<1>2. fd_arr[fd] \in Descriptor
  BY <1>1 DEF TypeOK
<1>3. PICK f \in Descriptor : f = fd_arr[fd]
  BY <1>2
<1> DEFINE p == f.file_pos
           m == Len(direntries)
           name == EntryAt(p)
           l == IF name = <<>> THEN f.listed ELSE Append(f.listed, name)
<1>4. /\ f.kind = "dir"
      /\ fd_arr' = [fd_arr EXCEPT ![fd] =
           IF p > MAX_INDEX THEN [f EXCEPT !.ret = 0]
           ELSE [f EXCEPT !.ret = Len(name), !.file_pos = NextEntry(@),
                          !.listed = IF name = <<>> THEN @
                                     ELSE Append(@, name)]]
      /\ UNCHANGED <<direntries, inode_entry>>
  BY <1>3 DEF DirRead
<1>5. Holds(f, inode_entry, direntries)
  BY <1>3 DEF FileInv
<1>6. p \in Nat /\ f.listed \in Seq(Seq(STRING))
  BY DescriptorFields
<1>7. m \in Nat /\ m <= MAX_INDEX /\ MAX_INDEX \in Nat
  BY <1>1, Sizes, DirTyped
<1>8. /\ Len(f.listed) = Clip(p, m)
      /\ \A i \in 1 .. Len(f.listed) : f.listed[i] = direntries[i].name
  BY <1>4, <1>5 DEF Holds, ListedOf
<1>9. CASE p > MAX_INDEX
  <2>1. PICK d : d = [f EXCEPT !.ret = 0]
    OBVIOUS
  <2>2. /\ d \in Descriptor
        /\ d.kind = f.kind /\ d.name = f.name /\ d.inode_num = f.inode_num
        /\ d.file_pos = f.file_pos /\ d.got = f.got
        /\ d.listed = f.listed /\ d.ret = 0
    BY <2>1, Ended
  <2>3. Holds(d, inode_entry, direntries)
    <3>1. ReadOf(d, inode_entry)
      BY <1>4, <2>2 DEF ReadOf
    <3>2. ListedOf(d, direntries)
      BY <1>6, <1>7, <1>8, <1>9, <2>2 DEF ListedOf
    <3>3. FoundOf(d, direntries)
      BY <1>4, <1>5, <2>2 DEF Holds, FoundOf
    <3>4. QED
      BY <3>1, <3>2, <3>3 DEF Holds
  <2>4. fd_arr' = [fd_arr EXCEPT ![fd] = d]
    BY <1>4, <1>9, <2>1
  <2>5. QED
    BY <1>4, <2>2, <2>3, <2>4, OneKept
<1>10. CASE ~(p > MAX_INDEX)
  <2>1. /\ p < m => name = direntries[p + 1].name
        /\ p >= m => name = <<>>
        /\ name \in Seq(STRING)
    BY <1>1, <1>6, EntryAtIs
  <2>2. p < m => Len(name) > 0 /\ name # <<>>
    <3>1. SUFFICES ASSUME p < m PROVE Len(name) > 0 /\ name # <<>>
      OBVIOUS
    <3>2. p + 1 \in 1 .. m
      BY <1>6, <1>7, <3>1
    <3>3. Len(direntries[p + 1].name) \in 1 .. STR_LEN
      BY <1>1, <3>2, EntryTyped
    <3>4. Len(name) > 0
      BY <2>1, <3>1, <3>3, Sizes
    <3> HIDE DEF name
    <3>5. QED
      BY <3>4
  <2>3. /\ l \in Seq(Seq(STRING)) /\ Len(l) = Clip(p + 1, m)
        /\ \A i \in 1 .. Len(l) : l[i] = direntries[i].name
    <3>1. CASE p < m
      <4>1. l = Append(f.listed, name) /\ Len(f.listed) = p
        BY <1>6, <1>7, <1>8, <2>2, <3>1 DEF Clip
      <4> HIDE DEF l, name, p, m
      <4>2. /\ l \in Seq(Seq(STRING)) /\ Len(l) = p + 1
            /\ \A i \in 1 .. p : l[i] = f.listed[i]
            /\ l[p + 1] = name
        BY <1>6, <2>1, <4>1, AppendProperties
      <4>3. ASSUME NEW i \in 1 .. Len(l) PROVE l[i] = direntries[i].name
        <5>1. CASE i \in 1 .. p
          BY <1>8, <4>1, <4>2, <5>1
        <5>2. CASE i = p + 1
          BY <2>1, <3>1, <4>2, <5>2
        <5>3. QED
          BY <1>6, <4>2, <5>1, <5>2
      <4>4. Clip(p + 1, m) = p + 1
        BY <1>6, <1>7, <3>1 DEF Clip
      <4>5. QED
        BY <4>2, <4>3, <4>4
    <3>2. CASE p >= m
      <4>1. l = f.listed
        BY <2>1, <3>2
      <4> HIDE DEF l, name, p, m
      <4>2. Clip(p, m) = m /\ Clip(p + 1, m) = m
        BY <1>6, <1>7, <3>2 DEF Clip
      <4>3. QED
        BY <1>6, <1>8, <4>1, <4>2
    <3>3. p < m \/ p >= m
      BY <1>6, <1>7
    <3> HIDE DEF l, m, p
    <3>4. QED
      BY <3>1, <3>2, <3>3
  <2>4. Len(name) \in Nat /\ (Len(name) = 0 => p >= m)
    BY <1>6, <1>7, <2>1, <2>2
  <2>5. PICK d : d = [f EXCEPT !.ret = Len(name), !.file_pos = @ + 1,
                               !.listed = l]
    OBVIOUS
  <2>6. fd_arr' = [fd_arr EXCEPT ![fd] = d]
    BY <1>4, <1>10, <2>5 DEF NextEntry
  <2> HIDE DEF l, name, m
  <2>7. /\ d.kind = f.kind /\ d.name = f.name /\ d.inode_num = f.inode_num
        /\ d.file_pos = p + 1 /\ d.got = f.got
        /\ d.listed = l /\ d.ret = Len(name)
    BY <2>5, DescriptorFields DEF Fields
  <2>8. d = [x \in Fields |-> d[x]]
    BY <2>5, DescriptorFields
  <2>9. d \in Descriptor
    <3>1. d.file_pos \in Nat /\ d.ret \in Int
      BY <1>6, <2>4, <2>7
    <3>2. QED
      BY <2>3, <2>7, <2>8, <3>1, DescriptorFields, FieldsTyped
  <2>10. ReadOf(d, inode_entry)
    BY <1>4, <2>7 DEF ReadOf
  <2>11. ListedOf(d, direntries)
    <3>1. d.ret = 0 => d.file_pos >= m
      BY <1>6, <1>7, <2>4, <2>7
    <3>2. QED
      BY <2>3, <2>7, <3>1 DEF ListedOf, m
  <2>12. FoundOf(d, direntries)
    <3>1. d.ret # -1
      BY <2>4, <2>7
    <3>2. QED
      BY <1>4, <1>5, <2>7, <3>1 DEF Holds, FoundOf
  <2>13. QED
    BY <1>4, <2>6, <2>9, <2>10, <2>11, <2>12, OneKept DEF Holds
<1>11. QED
  BY <1>9, <1>10

LEMMA NextInv ==
  ASSUME FileInv, [Next]_vars
  PROVE  FileInv'
<1>1. CASE UNCHANGED vars
  BY <1>1 DEF vars, FileInv, TypeOK, Rooted
<1>2. CASE Next
  <2>1. PICK fd \in Fds :
          \/ \E s \in Names : Open(fd, s) \/ OpenFails(fd, s)
          \/ Close(fd)
          \/ \E n \in Requests : FileRead(fd, n)
          \/ DirRead(fd)
    BY <1>2 DEF Next, Read
  <2>2. CASE \E s \in Names : Open(fd, s) \/ OpenFails(fd, s)
    BY <2>2, OpenKept, OpenFailsKept
  <2>3. CASE Close(fd)
    BY <2>3, CloseKept
  <2>4. CASE \E n \in Requests : FileRead(fd, n)
    BY <2>4, FileReadKept
  <2>5. CASE DirRead(fd)
    BY <2>5, DirReadKept
  <2>6. QED
    BY <2>1, <2>2, <2>3, <2>4, <2>5
<1>3. QED
  BY <1>1, <1>2

-----------------------------------------------------------------------------
(***************************************************************************)
(* What the invariant implies.                                             *)
(***************************************************************************)
\* The content of a file is its bytes from the first on: no length reaches
\* behind the block numbers of an inode.
LEMMA ContentIs ==
  ASSUME TypeOK, NEW i \in Inodes
  PROVE  /\ inode_entry[i].length \in Nat
         /\ Content(i) = Bytes(i, 0, inode_entry[i].length)
<1> DEFINE m == inode_entry[i].length
           blocks == inode_entry[i].data_block
<1>1. m \in 0 .. Entries * MAX_DATA
  <2>1. m \in Lengths
    BY DEF TypeOK
  <2>2. QED
    BY <2>1, ConstantsAssumption
<1>2. Content(i) = [k \in 1 .. m |-> <<blocks[(k - 1) \div MAX_DATA],
                                       (k - 1) % MAX_DATA>>]
  BY DEF Content
<1>3. Bytes(i, 0, m) = [k \in 1 .. m |->
           <<IF (0 + k - 1) \div MAX_DATA < Entries
             THEN blocks[(0 + k - 1) \div MAX_DATA] ELSE Wild,
             (0 + k - 1) % MAX_DATA>>]
  BY DEF Bytes, ByteAt
<1> HIDE DEF m, blocks
<1>4. ASSUME NEW k \in 1 .. m
      PROVE  0 + k - 1 = k - 1 /\ (k - 1) \div MAX_DATA < Entries
  <2>1. 0 + k - 1 = k - 1 /\ k - 1 \in Nat
    BY <1>1
  <2>2. k - 1 < Entries * MAX_DATA
    BY <1>1, Sizes
  <2>3. QED
    BY <2>1, <2>2, Sizes, DivBelow
<1>5. Content(i) = Bytes(i, 0, m)
  BY <1>2, <1>3, <1>4
<1>6. m \in Nat
  BY <1>1, Sizes
<1>7. QED
  BY <1>5, <1>6 DEF m

LEMMA InvStreams ==
  ASSUME FileInv
  PROVE  Streams
<1> SUFFICES ASSUME NEW fd \in Fds, fd_arr[fd].kind = "file"
             PROVE  LET f == fd_arr[fd]
                        c == Content(f.inode_num)
                        n == Clip(Len(f.got), Len(c))
                    IN  /\ SubSeq(f.got, 1, n) = SubSeq(c, 1, n)
                        /\ f.ret = 0 => n = Len(c)
  BY DEF Streams
<1>1. TypeOK /\ fd_arr[fd] \in Descriptor
  BY DEF FileInv, TypeOK
<1>2. PICK f \in Descriptor : f = fd_arr[fd]
  BY <1>1
<1>3. PICK i \in Inodes : i = f.inode_num
  BY DescriptorFields
<1>4. PICK c : c = Content(i)
  OBVIOUS
<1>5. PICK m \in Nat : m = inode_entry[i].length /\ c = Bytes(i, 0, m)
  BY <1>1, <1>4, ContentIs
<1>6. PICK g : g = f.got
  OBVIOUS
<1>7. /\ f.file_pos = Len(g) /\ g = Bytes(i, 0, Len(g)) /\ g \in Seq(Byte)
      /\ f.ret = 0 => f.file_pos >= m
  BY <1>2, <1>3, <1>5, <1>6, BytesAre, DescriptorFields
     DEF FileInv, Holds, ReadOf
<1>8. /\ c \in Seq(Byte) /\ Len(c) = m
      /\ \A k \in 1 .. m : c[k] = ByteAt(i, 0 + k - 1)
  BY <1>1, <1>5, BytesTyped
<1> DEFINE l == Len(g)
           n == Clip(l, m)
<1>9. l \in Nat
  BY <1>7
<1> HIDE DEF l, n
<1>10. \A k \in 1 .. l : g[k] = ByteAt(i, 0 + k - 1)
  <2>1. g = Bytes(i, 0, l) /\ 0 \in Nat
    BY <1>7 DEF l
  <2>2. QED
    BY <1>1, <1>9, <2>1, BytesTyped
<1>11. n \in Nat /\ n <= l /\ n <= m /\ (l >= m => n = m)
  BY <1>5, <1>9 DEF Clip, n
<1>12. SubSeq(g, 1, n) = SubSeq(c, 1, n)
  <2>1. \A k \in 1 .. n : g[k] = c[k]
    BY <1>5, <1>8, <1>9, <1>10, <1>11
  <2>2. /\ SubSeq(g, 1, n) = [k \in 1 .. n |-> g[k]]
        /\ SubSeq(c, 1, n) = [k \in 1 .. n |-> c[k]]
    BY <1>5, <1>7, <1>8, <1>9, <1>11 DEF l
  <2>3. QED
    BY <2>1, <2>2
<1>13. f.ret = 0 => n = m
  BY <1>7, <1>11 DEF l
<1>14. fd_arr[fd].got = g /\ Content(fd_arr[fd].inode_num) = c
  BY <1>2, <1>3, <1>4, <1>6
<1>15. Clip(Len(g), Len(c)) = n /\ Len(c) = m
  BY <1>8 DEF l, n
<1>16. QED
  BY <1>2, <1>12, <1>13, <1>14, <1>15

LEMMA InvListing ==
  ASSUME FileInv
  PROVE  Listing
<1> SUFFICES ASSUME NEW fd \in Fds, fd_arr[fd].kind = "dir"
             PROVE  LET f == fd_arr[fd] IN
                      /\ Len(f.listed) <= Len(direntries)
                      /\ \A i \in 1 .. Len(f.listed) :
                           f.listed[i] = direntries[i].name
                      /\ f.ret = 0 => Len(f.listed) = Len(direntries)
  BY DEF Listing
<1>1. TypeOK /\ fd_arr[fd] \in Descriptor
  BY DEF FileInv, TypeOK
<1>2. PICK f \in Descriptor : f = fd_arr[fd]
  BY <1>1
<1>3. /\ Len(f.listed) = Clip(f.file_pos, Len(direntries))
      /\ \A i \in 1 .. Len(f.listed) : f.listed[i] = direntries[i].name
      /\ f.ret = 0 => f.file_pos >= Len(direntries)
  BY <1>2 DEF FileInv, Holds, ListedOf
<1>4. Len(direntries) \in Nat /\ f.file_pos \in Nat
  BY <1>1, DirTyped, DescriptorFields
<1>5. /\ Len(f.listed) <= Len(direntries)
      /\ f.ret = 0 => Len(f.listed) = Len(direntries)
  BY <1>3, <1>4 DEF Clip
<1>6. QED
  BY <1>2, <1>3, <1>5

LEMMA InvFinds ==
  ASSUME FileInv
  PROVE  Finds
BY DEF FileInv, Holds, FoundOf, Finds

LEMMA SpecInv == Spec => []FileInv
<1>1. Init => FileInv
  BY InitInv
<1>2. FileInv /\ [Next]_vars => FileInv'
  BY NextInv
<1>3. QED
  BY <1>1, <1>2, PTL DEF Spec

-----------------------------------------------------------------------------
(***************************************************************************)
(* The theorems.                                                           *)
(***************************************************************************)
\* The state has the declared types: in particular every byte read comes from
\* a data block, or from a number behind the last of the inode.
THEOREM TypeCorrect == Spec => []TypeOK
<1>1. FileInv => TypeOK
  BY DEF FileInv
<1>2. QED
  BY <1>1, SpecInv, PTL

\* filesystem_read: however the reads are cut, across blocks of any size,
\* what a descriptor has read is the file from its first byte on, in order,
\* and 0 is returned only when none of it is left.
THEOREM ReadsInOrder == Spec => []Streams
<1>1. FileInv => Streams
  BY InvStreams
<1>2. QED
  BY <1>1, SpecInv, PTL

\* dir_read: a descriptor of the directory lists the names in order, each
\* once, and returns 0 only when it has listed them all.
THEOREM ListsAll == Spec => []Listing
<1>1. FileInv => Listing
  BY InvListing
<1>2. QED
  BY <1>1, SpecInv, PTL

\* open, by read_dentry_by_name and its strncmp: the first entry with the
\* first STR_LEN characters of the name is found, and none is missed.
THEOREM OpensNamed == Spec => []Finds
<1>1. FileInv => Finds
  BY InvFinds
<1>2. QED
  BY <1>1, SpecInv, PTL
=============================================================================
