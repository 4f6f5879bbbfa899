-------------------------- MODULE SharingTheorems ---------------------------
(***************************************************************************)
(* What make_chunks lists is what a peer sends and what is written, for    *)
(* every file of whole chunks.                                             *)
(***************************************************************************)
EXTENDS Sharing, FiniteSetTheorems, WellFoundedInduction, TLAPS

-----------------------------------------------------------------------------
(* Hexadecimal. *)

\* The two digits of a byte give the byte.
LEMMA DigitsOfByte ==
    ASSUME NEW b \in Byte
    PROVE  16 * DigitValue(Digit(b \div 16)) + DigitValue(Digit(b % 16)) = b
<1>1. /\ b \div 16 \in 0 .. 15 /\ b % 16 \in 0 .. 15
      /\ b = 16 * (b \div 16) + (b % 16)
  BY DEF Byte
<1>2. \A n \in 0 .. 15 : DigitValue(Digit(n)) = n
  BY DEF DigitValue, Digit, toupper
<1> QED
  BY <1>1, <1>2

\* hex2binary is the inverse of binary2hex.
LEMMA HexRoundTrip ==
    ASSUME NEW buf \in Seq(Byte)
    PROVE  hex2binary(binary2hex(buf), 2 * Len(buf)) = buf
<1> DEFINE hex == binary2hex(buf)
           L == Len(buf)
<1>1. (2 * L) \div 2 = L
  OBVIOUS
<1>2. ASSUME NEW k \in 1 .. L
      PROVE  /\ hex[2 * k - 1] = Digit(buf[k] \div 16)
             /\ hex[2 * k] = Digit(buf[k] % 16)
  <2>1. 2 * k - 1 \in 1 .. 2 * L /\ 2 * k \in 1 .. 2 * L
    OBVIOUS
  <2>2. /\ (2 * k - 1 + 1) \div 2 = k /\ (2 * k - 1) % 2 = 1
        /\ (2 * k + 1) \div 2 = k /\ (2 * k) % 2 = 0
    OBVIOUS
  <2> QED
    BY <2>1, <2>2 DEF binary2hex
<1>3. ASSUME NEW k \in 1 .. L
      PROVE  16 * DigitValue(hex[2 * k - 1]) + DigitValue(hex[2 * k]) = buf[k]
  BY <1>2, <1>3, DigitsOfByte
<1>4. buf = [k \in 1 .. L |-> buf[k]]
  OBVIOUS
<1> HIDE DEF hex
<1>5. hex2binary(hex, 2 * L) = [k \in 1 .. L |-> buf[k]]
  BY <1>1, <1>3 DEF hex2binary
<1> QED
  BY <1>4, <1>5 DEF hex

-----------------------------------------------------------------------------
(* Numbers. *)

\* The least of a set of naturals.
LEMMA LeastOfNaturals ==
    ASSUME NEW S \in SUBSET Nat, S # {}
    PROVE  Min(S) \in S
<1>1. PICK m \in S : \A k \in S : <<k, m>> \notin OpToRel(<, Nat)
  BY WFMin, NatLessThanWellFounded
<1>2. \A k \in S : <<k, m>> \in Nat \X Nat /\ <<k, m>>[1] = k /\ <<k, m>>[2] = m
  OBVIOUS
<1>3. \A k \in S : ~(k < m)
  BY <1>1, <1>2, Zenon DEF OpToRel
<1>4. \A k \in S : m <= k
  BY <1>3, SMT
<1> QED
  BY <1>4 DEF Min

\* The lesser of two numbers, the first or the second.
LEMMA LesserOf ==
    ASSUME NEW a \in Int, NEW b \in Int, a <= b
    PROVE  Min({a, b}) = a
  BY DEF Min

\* The second case.
LEMMA LesserOfSecond ==
    ASSUME NEW a \in Int, NEW b \in Int, b <= a
    PROVE  Min({a, b}) = b
  BY DEF Min

\* Multiples of C.
LEMMA Multiples ==
    ASSUME NEW C \in Nat \ {0}, NEW i \in Nat, NEW m \in Nat, i < m
    PROVE  /\ i * C \in Nat /\ m * C \in Nat
           /\ i * C + C <= m * C
<1>1. m = i + 1 + (m - i - 1) /\ m - i - 1 \in Nat
  OBVIOUS
<1>2. \A d \in Nat : d * C \in Nat
  OBVIOUS
<1>3. m * C = i * C + C + (m - i - 1) * C
  BY <1>1
<1> QED
  BY <1>1, <1>2, <1>3

\* Quotient and remainder by C.
LEMMA DivMod ==
    ASSUME NEW C \in Nat \ {0}, NEW q \in Nat, NEW r \in 0 .. C - 1
    PROVE  (q * C + r) \div C = q /\ ((q * C + r) % C) = r
  OBVIOUS

\* Every number is a multiple of C and a remainder.
LEMMA DivModExists ==
    ASSUME NEW C \in Nat \ {0}, NEW x \in Nat
    PROVE  /\ x \div C \in Nat /\ (x % C) \in 0 .. C - 1
           /\ x = (x \div C) * C + (x % C)
  OBVIOUS

-----------------------------------------------------------------------------
(* The chunks of a file. *)

\* What is assumed of SHA-1: it yields 20 bytes.
HashesAreBytes ==
    \A x \in Seq(Part) : shahash(x) \in Seq(Byte) /\ Len(shahash(x)) = SHA1_HASH_SIZE

\* And, where what was received is compared with what was asked for: the two do
\* not collide.
NoCollision(x, y) == shahash(x) = shahash(y) => x = y

\* A file of m whole chunks is cut into m blocks of CHUNK_SIZE parts.
LEMMA WholeBlocks ==
    ASSUME CHUNK_SIZE \in Nat \ {0}, NEW file \in Seq(Part), NEW m \in Nat,
           Len(file) = m * CHUNK_SIZE
    PROVE  /\ get_numchunks(file) = m
           /\ \A i \in 0 .. m - 1 :
                 /\ Block(file, i) =
                        [n \in 1 .. CHUNK_SIZE |-> file[i * CHUNK_SIZE + n]]
                 /\ Block(file, i) \in Seq(Part)
<1>1. get_numchunks(file) = m
  <2>1. m * CHUNK_SIZE + CHUNK_SIZE - 1 = m * CHUNK_SIZE + (CHUNK_SIZE - 1)
    BY Multiples
  <2> QED
    BY <2>1, DivMod DEF get_numchunks
<1>2. ASSUME NEW i \in 0 .. m - 1
      PROVE  /\ Block(file, i) =
                    [n \in 1 .. CHUNK_SIZE |-> file[i * CHUNK_SIZE + n]]
             /\ Block(file, i) \in Seq(Part)
  <2>1. /\ i * CHUNK_SIZE \in Nat /\ m * CHUNK_SIZE \in Nat
        /\ i * CHUNK_SIZE + CHUNK_SIZE <= m * CHUNK_SIZE
    BY Multiples
  <2>2. Min({CHUNK_SIZE, Len(file) - i * CHUNK_SIZE}) = CHUNK_SIZE
    BY <2>1, LesserOf
  <2>3. Block(file, i) = [n \in 1 .. CHUNK_SIZE |-> file[i * CHUNK_SIZE + n]]
    BY <2>2 DEF Block
  <2>4. \A n \in 1 .. CHUNK_SIZE : i * CHUNK_SIZE + n \in 1 .. Len(file)
    BY <2>1
  <2>5. \A n \in 1 .. CHUNK_SIZE : file[i * CHUNK_SIZE + n] \in Part
    BY <2>4
  <2> QED
    BY <2>3, <2>5
<1> QED
  BY <1>1, <1>2

\* A hash that was listed is read as what it was.
LEMMA HashOfLine ==
    ASSUME SHA1_HASH_SIZE \in Nat, HashesAreBytes, NEW x \in Seq(Part), NEW id
    PROVE  HashAt(ChunkLine(id, shahash(x))) = shahash(x)
<1>1. shahash(x) \in Seq(Byte) /\ Len(shahash(x)) = SHA1_HASH_SIZE
  BY DEF HashesAreBytes
<1> QED
  BY <1>1, HexRoundTrip DEF HashAt, ChunkLine

\* Whatever lines of make_chunks a master chunk file has, in whatever order and
\* with whatever between them: what a peer sends for a hash it lists passes the
\* comparison in save_data.
THEOREM ChunkArrives ==
    ASSUME CHUNK_SIZE \in Nat \ {0}, SHA1_HASH_SIZE \in Nat, HashesAreBytes,
           NEW file \in Seq(Part), NEW m \in Nat, Len(file) = m * CHUNK_SIZE,
           NEW master,
           \A k \in Entries(master, 3) : \E i \in 0 .. m - 1 :
               master[k] = ChunkLine(i, shahash(Block(file, i))),
           NEW sha1, LinesWith(master, sha1) # {}, NEW id \in Ids(master, sha1),
           NEW data
    PROVE  Kept(sha1, Sent(file, id, data))
<1> DEFINE k == Min(LinesWith(master, sha1))
<1>1. k \in Entries(master, 3) /\ HashAt(master[k]) = sha1
  <2>1. LinesWith(master, sha1) \in SUBSET Nat
    BY DEF LinesWith, Entries
  <2>2. k \in LinesWith(master, sha1)
    BY <2>1, LeastOfNaturals
  <2> QED
    BY <2>2 DEF LinesWith
<1>2. id = master[k].id
  BY DEF Ids
<1> HIDE DEF k
<1>3. PICK i \in 0 .. m - 1 : master[k] = ChunkLine(i, shahash(Block(file, i)))
  BY <1>1
<1>4. /\ Block(file, i) = [n \in 1 .. CHUNK_SIZE |-> file[i * CHUNK_SIZE + n]]
      /\ Block(file, i) \in Seq(Part)
  BY WholeBlocks
<1>5. id = i /\ sha1 = shahash(Block(file, i))
  <2>1. HashAt(master[k]) = shahash(Block(file, i))
    BY <1>3, <1>4, HashOfLine
  <2>2. master[k].id = i
    BY <1>3 DEF ChunkLine
  <2> QED
    BY <1>1, <1>2, <2>1, <2>2
<1>6. /\ i * CHUNK_SIZE \in Nat
      /\ i * CHUNK_SIZE + CHUNK_SIZE <= Len(file)
  BY Multiples
<1>7. \A n \in 1 .. CHUNK_SIZE : i * CHUNK_SIZE + n <= Len(file)
  BY <1>6
<1>8. Sent(file, i, data) = Block(file, i)
  BY <1>4, <1>7 DEF Sent
<1> QED
  BY <1>5, <1>8 DEF Kept

\* A file that does not end with a whole chunk: 512 parts are sent for the short
\* one, which have another hash, so it is refused and asked for again for ever.
THEOREM ShortChunkIsRefused ==
    ASSUME CHUNK_SIZE \in Nat \ {0},
           NEW file \in Seq(Part), NEW m \in Nat, NEW r \in 1 .. CHUNK_SIZE - 1,
           Len(file) = m * CHUNK_SIZE + r, NEW data \in Part,
           NoCollision(Block(file, m), Sent(file, m, data))
    PROVE  /\ get_numchunks(file) = m + 1
           /\ ~Kept(shahash(Block(file, m)), Sent(file, m, data))
<1>1. m * CHUNK_SIZE \in Nat
  BY Multiples
<1>2. get_numchunks(file) = m + 1
  <2>1. m * CHUNK_SIZE + r + CHUNK_SIZE - 1 = (m + 1) * CHUNK_SIZE + (r - 1)
    BY <1>1
  <2>2. r - 1 \in 0 .. CHUNK_SIZE - 1 /\ m + 1 \in Nat
    OBVIOUS
  <2>3. ((m + 1) * CHUNK_SIZE + (r - 1)) \div CHUNK_SIZE = m + 1
    BY <2>2, DivMod
  <2>4. Len(file) + CHUNK_SIZE - 1 = (m + 1) * CHUNK_SIZE + (r - 1)
    BY <2>1
  <2> QED
    BY <2>3, <2>4 DEF get_numchunks
<1>3. Min({CHUNK_SIZE, Len(file) - m * CHUNK_SIZE}) = r
  BY <1>1, LesserOfSecond
<1>4. \A n \in 1 .. r : file[m * CHUNK_SIZE + n] \in Part
  BY <1>1
<1>5. Block(file, m) \in [1 .. r -> Part]
  BY <1>3, <1>4 DEF Block
<1>6. Len(file) \in 1 .. Len(file)
  BY <1>1
<1>7. Sent(file, m, data) \in [1 .. CHUNK_SIZE -> Part]
  BY <1>1, <1>6 DEF Sent
<1>8. Block(file, m) # Sent(file, m, data)
  BY <1>5, <1>7
<1> QED
  BY <1>2, <1>8 DEF Kept, NoCollision

\* There are n numbers from 1 to n.
LEMMA NumbersUpTo ==
    ASSUME NEW n \in Nat
    PROVE  Cardinality(1 .. n) = n
<1>1. Cardinality(1 .. n) = IF 1 > n THEN 0 ELSE n - 1 + 1
  BY FS_Interval
<1> QED
  BY <1>1

\* A chunk file all of whose lines are read fills the table line by line.
LEMMA TableOfLines ==
    ASSUME NEW L \in Nat, NEW lines, Len(lines) = L,
           \A k \in 1 .. L : lines[k].read, NEW memory
    PROVE  TableOf(lines, memory) = [i \in 1 .. L |-> HashAt(lines[i])]
<1> DEFINE S == Entries(lines, 1)
<1>1. S = 1 .. L
  BY DEF Entries
<1>2. Cardinality(1 .. L) = L
  BY NumbersUpTo
<1>3. ASSUME NEW i \in 1 .. L
      PROVE  Kth(S, i) = i
  <2>1. ASSUME NEW k \in 1 .. L
        PROVE  Cardinality({j \in S : j <= k}) = k
    <3>1. {j \in S : j <= k} = 1 .. k
      BY <1>1
    <3>2. Cardinality(1 .. k) = k
      BY NumbersUpTo
    <3> QED
      BY <3>1, <3>2
  <2> QED
    BY <1>1, <2>1 DEF Kth
<1> HIDE DEF S
<1> QED
  BY <1>1, <1>2, <1>3 DEF TableOf, S

\* A user who asks for the chunks that make_chunks lists, and who gets for each
\* of them data that save_data accepts, and which does not collide with the
\* chunk, gets the file.
THEOREM FileIsRestored ==
    ASSUME CHUNK_SIZE \in Nat \ {0}, SHA1_HASH_SIZE \in Nat,
           HashesAreBytes,
           NEW file \in Seq(Part), NEW m \in Nat, Len(file) = m * CHUNK_SIZE,
           NEW memory, NEW chunks_data \in [1 .. m -> [1 .. CHUNK_SIZE -> Part]],
           \A i \in 1 .. m :
              /\ Kept(TableOf(ChunkLines(file), memory)[i], chunks_data[i])
              /\ NoCollision(Block(file, i - 1), chunks_data[i])
    PROVE  Output(chunks_data) = file
<1> DEFINE lines == ChunkLines(file)
<1>1. get_numchunks(file) = m
  BY WholeBlocks
<1>2. /\ Len(lines) = m
      /\ \A k \in 1 .. m : lines[k] = ChunkLine(k - 1, shahash(Block(file, k - 1)))
  BY <1>1 DEF ChunkLines
<1>3. \A k \in 1 .. m : lines[k].read
  BY <1>2 DEF ChunkLine
<1> HIDE DEF lines
<1>4. ASSUME NEW k \in 1 .. m
      PROVE  chunks_data[k] =
                 [n \in 1 .. CHUNK_SIZE |-> file[(k - 1) * CHUNK_SIZE + n]]
  <2>1. k - 1 \in 0 .. m - 1
    OBVIOUS
  <2>2. /\ Block(file, k - 1) =
              [n \in 1 .. CHUNK_SIZE |-> file[(k - 1) * CHUNK_SIZE + n]]
        /\ Block(file, k - 1) \in Seq(Part)
    BY <2>1, WholeBlocks
  <2>3. TableOf(lines, memory)[k] = HashAt(lines[k])
    <3>1. TableOf(lines, memory) = [i \in 1 .. m |-> HashAt(lines[i])]
      BY <1>2, <1>3, TableOfLines, Zenon
    <3> QED
      BY <3>1
  <2>4. HashAt(lines[k]) = shahash(Block(file, k - 1))
    BY <1>2, <2>2, HashOfLine
  <2>5. shahash(chunks_data[k]) = shahash(Block(file, k - 1))
    BY <2>3, <2>4 DEF Kept, lines
  <2>6. chunks_data[k] = Block(file, k - 1)
    BY <2>5 DEF NoCollision
  <2> QED
    BY <2>2, <2>6
<1>5. ASSUME NEW x \in 1 .. m * CHUNK_SIZE
      PROVE  chunks_data[(x - 1) \div CHUNK_SIZE + 1]
                        [((x - 1) % CHUNK_SIZE) + 1] = file[x]
  <2>1. m * CHUNK_SIZE \in Nat /\ x - 1 \in Nat
    BY Multiples
  <2>2. PICK q \in Nat, r \in 0 .. CHUNK_SIZE - 1 :
          /\ q = (x - 1) \div CHUNK_SIZE /\ r = ((x - 1) % CHUNK_SIZE)
          /\ x - 1 = q * CHUNK_SIZE + r
    BY <2>1, DivModExists
  <2>3. q < m
    <3>1. q * CHUNK_SIZE \in Nat
      OBVIOUS
    <3>2. CASE m < q
      <4>1. m * CHUNK_SIZE + CHUNK_SIZE <= q * CHUNK_SIZE
        BY <3>2, Multiples
      <4> QED
        BY <2>1, <2>2, <3>1, <4>1
    <3>3. CASE m = q
      BY <2>1, <2>2, <3>1, <3>3
    <3> QED
      BY <3>2, <3>3
  <2>4. q + 1 \in 1 .. m /\ r + 1 \in 1 .. CHUNK_SIZE
    BY <2>3
  <2>5. chunks_data[q + 1][r + 1] = file[(q + 1 - 1) * CHUNK_SIZE + (r + 1)]
    BY <1>4, <2>4
  <2>6. (q + 1 - 1) * CHUNK_SIZE + (r + 1) = x
    BY <2>2
  <2> QED
    BY <2>2, <2>5, <2>6
<1>6. Len(chunks_data) = m
  OBVIOUS
<1>7. file = [x \in 1 .. m * CHUNK_SIZE |-> file[x]]
  OBVIOUS
<1> QED
  BY <1>5, <1>6, <1>7 DEF Output
=============================================================================
