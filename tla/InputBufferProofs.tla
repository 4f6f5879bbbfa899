-------------------------- MODULE InputBufferProofs ---------------------------
(***************************************************************************)
(* InputBuffer for a buffer of any size: it stays a C string whatever is   *)
(* read, and every line typed at a terminal, from which at most half a     *)
(* buffer waits at any time, is handed over as LineInput promises.         *)
(*                                                                         *)
(* Tidy is why half a buffer is enough: memmove leaves the bytes behind    *)
(* what it moved as they were, and these are zeroes still if the line and  *)
(* what follows it took up no more than half of the buffer.                *)
(***************************************************************************)
EXTENDS InputBuffer, SequenceTheorems, FiniteSetTheorems, TLAPS

\* The bytes in front of cur are those that were read, the others are zeroes.
Tidy ==
    /\ cur <= Half
    /\ \A i \in 0 .. cur - 1 : buf[i] # NUL
    /\ \A i \in cur .. USERBUF_SIZE : buf[i] = NUL

Typed == TypeOK /\ burst \in {Half, USERBUF_SIZE}

Inv == Typed /\ (AtTerminal => Tidy)

-----------------------------------------------------------------------------
(* Least elements. *)

\* strchr finds the first newline if there is one.
LEMMA FirstNewline ==
    ASSUME TypeOK, Newlines # {}
    PROVE  /\ Min(Newlines) \in Newlines
           /\ \A k \in Newlines : Min(Newlines) <= k
<1>1. Newlines \in SUBSET Nat
  BY Buffer_Assumption DEF Newlines, TypeOK
<1>2. PICK m \in Newlines : \A k \in Newlines : <<k, m>> \notin OpToRel(<, Nat)
  BY <1>1, WFMin, NatLessThanWellFounded
<1>3. \A k \in Newlines : <<k, m>> \in Nat \X Nat /\ <<k, m>>[1] = k /\ <<k, m>>[2] = m
  BY <1>1
<1>4. \A k \in Newlines : ~(k < m)
  BY <1>2, <1>3, Zenon DEF OpToRel
<1>5. \A k \in Newlines : m <= k
  BY <1>1, <1>4, SMT
<1> QED
  BY <1>5 DEF Min

\* read() returns no more than there is room for, and than has arrived.
LEMMA ReadFits ==
    ASSUME Typed, pc = "select", cur < USERBUF_SIZE - 1, NEW n \in Readable
    PROVE  /\ n \in Nat /\ n >= 1
           /\ cur + n <= USERBUF_SIZE /\ n <= Len(input) /\ cur + n <= burst
<1>1. /\ USERBUF_SIZE - cur \in Int /\ Len(input) \in Int /\ burst - cur \in Int
      /\ cur \in Nat /\ USERBUF_SIZE \in Nat /\ burst \in Nat
  BY Buffer_Assumption DEF Typed, TypeOK
<1> DEFINE S == {USERBUF_SIZE - cur, Len(input), burst - cur}
<1>2. \E m \in S : \A k \in S : m <= k
  BY <1>1
<1>3. Min(S) \in S /\ \A k \in S : Min(S) <= k
  BY <1>2 DEF Min
<1>4. n \in 1 .. Min(S)
  BY DEF Readable
<1> QED
  BY <1>1, <1>3, <1>4

-----------------------------------------------------------------------------
(* The invariant. *)

\* The buffer is zeroed at first.
LEMMA InitInv == Init => Inv
  BY Buffer_Assumption DEF Init, Inv, Typed, TypeOK, AtTerminal, Tidy

\* What is read is put behind what is there.
LEMMA ReadInv ==
    ASSUME Typed, Read
    PROVE  TypeOK' /\ (AtTerminal /\ Tidy => Tidy')
<1>1. PICK n \in Readable :
          /\ buf' = [i \in DOMAIN buf |->
                        IF i \in cur .. cur + n - 1 THEN input[i - cur + 1] ELSE buf[i]]
          /\ cur' = cur + n
          /\ input' = SubSeq(input, n + 1, Len(input))
  BY DEF Read
<1>2. /\ n \in Nat /\ n >= 1 /\ cur + n <= USERBUF_SIZE /\ n <= Len(input)
      /\ cur + n <= burst
  BY ReadFits DEF Read
<1>3. /\ cur \in Nat /\ USERBUF_SIZE \in Nat /\ UNSIGNED \in Nat
      /\ UNSIGNED > USERBUF_SIZE /\ DOMAIN buf = 0 .. USERBUF_SIZE
  BY Buffer_Assumption DEF Typed, TypeOK
<1>4. /\ input \in Seq(Letter \cup {NL})
      /\ \A i \in cur .. cur + n - 1 :
           i - cur + 1 \in 1 .. Len(input) /\ input[i - cur + 1] \in Letter \cup {NL}
  BY <1>2, <1>3 DEF Typed, TypeOK
<1>5. \A i \in 0 .. USERBUF_SIZE :
        buf'[i] = IF i \in cur .. cur + n - 1 THEN input[i - cur + 1] ELSE buf[i]
  BY <1>1, <1>3
<1>6. buf' \in [0 .. USERBUF_SIZE -> Letter \cup {NUL, NL}]
  BY <1>1, <1>3, <1>4 DEF Typed, TypeOK
<1>7. buf'[USERBUF_SIZE] = NUL
  BY <1>2, <1>3, <1>5 DEF Typed, TypeOK
<1>8. input' \in Seq(Letter \cup {NL})
  <2>1. \A i \in n + 1 .. Len(input) : input[i] \in Letter \cup {NL}
    BY <1>2, <1>4
  <2> QED
    BY <1>1, <1>2, <1>4, <2>1, SubSeqProperties
<1>9. TypeOK'
  BY <1>1, <1>2, <1>3, <1>6, <1>7, <1>8 DEF TypeOK, Read
<1>10. AtTerminal /\ Tidy => Tidy'
  <2> SUFFICES ASSUME AtTerminal, Tidy PROVE Tidy'
    OBVIOUS
  <2>1. cur' <= Half
    BY <1>1, <1>2 DEF AtTerminal
  <2>3. \A i \in 0 .. cur' - 1 : buf'[i] # NUL
    BY <1>1, <1>2, <1>3, <1>4, <1>5, Buffer_Assumption DEF Tidy
  <2>4. \A i \in cur' .. USERBUF_SIZE : buf'[i] = NUL
    BY <1>1, <1>2, <1>3, <1>5 DEF Tidy
  <2> QED
    BY <2>1, <2>3, <2>4 DEF Tidy
<1> QED
  BY <1>9, <1>10

\* The newline the line ends at is in the string, in front of its last byte, and
\* the bytes in front of it are neither newlines nor zeroes.
LEMMA LineAt ==
    ASSUME Typed, Newlines # {}, NEW k, k = Min(Newlines)
    PROVE  /\ k \in 0 .. USERBUF_SIZE - 1
           /\ buf[k] = NL /\ buf[k] # NUL
           /\ \A i \in 0 .. k - 1 : buf[i] # NL
<1>1. /\ k \in DOMAIN buf /\ buf[k] = NL /\ \A i \in 0 .. k : buf[i] # NUL
      /\ \A l \in Newlines : k <= l
  BY FirstNewline DEF Typed, Newlines
<1>2. DOMAIN buf = 0 .. USERBUF_SIZE /\ buf[USERBUF_SIZE] = NUL /\ USERBUF_SIZE \in Nat
  BY Buffer_Assumption DEF Typed, TypeOK
<1>3. k \in 0 .. USERBUF_SIZE - 1 /\ buf[k] # NUL
  BY <1>1, <1>2
<1>4. ASSUME NEW i \in 0 .. k - 1 PROVE buf[i] # NL
  <2>1. buf[i] = NL => i \in Newlines
    BY <1>1, <1>2, <1>3 DEF Newlines
  <2> QED
    BY <1>1, <1>3, <2>1
<1> QED
  BY <1>1, <1>3, <1>4

\* The buffer after a line was handed over, if half of it was in use.
LEMMA MovedTidy ==
    ASSUME 2 * Half <= USERBUF_SIZE + 1,
           Inv, AtTerminal, pc = "split", Newlines # {}, NEW k, k = Min(Newlines)
    PROVE  /\ Left(k) = cur - (k + 1)
           /\ cur \in Nat /\ k \in Nat /\ k < cur /\ cur <= Half
           /\ \A i \in 0 .. cur - (k + 1) - 1 :
                Moved(k)[i] = buf[i + k + 1] /\ Moved(k)[i] # NUL
           /\ \A i \in cur - (k + 1) .. USERBUF_SIZE : Moved(k)[i] = NUL
<1>1. k \in 0 .. USERBUF_SIZE - 1 /\ k < cur
  <2>1. k \in 0 .. USERBUF_SIZE - 1 /\ buf[k] # NUL
    BY LineAt DEF Inv
  <2> QED
    BY <2>1, Buffer_Assumption DEF Inv, Typed, TypeOK, Tidy
<1>2. /\ cur \in Nat /\ USERBUF_SIZE \in Nat /\ UNSIGNED \in Nat
      /\ UNSIGNED > USERBUF_SIZE /\ DOMAIN buf = 0 .. USERBUF_SIZE
      /\ Half \in Nat /\ Half <= USERBUF_SIZE
  BY Buffer_Assumption DEF Inv, Typed, TypeOK
<1>3. Tidy
  BY DEF Inv
<1>4. cur - (k + 1) \in 0 .. UNSIGNED - 1
  BY <1>1, <1>2, <1>3 DEF Tidy
<1>5. Left(k) = cur - (k + 1)
  BY <1>2, <1>4 DEF Left
<1>6. \A i \in 0 .. USERBUF_SIZE :
        Moved(k)[i] = IF i < USERBUF_SIZE - k THEN buf[i + k + 1]
                      ELSE IF i = k THEN NUL ELSE buf[i]
  BY <1>2 DEF Moved
<1>7. ASSUME NEW i \in 0 .. cur - (k + 1) - 1
      PROVE  Moved(k)[i] = buf[i + k + 1] /\ Moved(k)[i] # NUL
  <2>1. i < USERBUF_SIZE - k /\ i + k + 1 \in 0 .. cur - 1 /\ i \in 0 .. USERBUF_SIZE
    BY <1>1, <1>2, <1>3 DEF Tidy
  <2> QED
    BY <1>3, <1>6, <2>1 DEF Tidy
<1>8. ASSUME NEW i \in cur - (k + 1) .. USERBUF_SIZE
      PROVE  Moved(k)[i] = NUL
  <2>1. i \in 0 .. USERBUF_SIZE
    BY <1>4
  <2>2. CASE i < USERBUF_SIZE - k
    <3>1. i + k + 1 \in cur .. USERBUF_SIZE
      BY <1>1, <1>2, <2>2
    <3> QED
      BY <1>3, <1>6, <2>1, <2>2, <3>1 DEF Tidy
  <2>3. CASE ~(i < USERBUF_SIZE - k)
    <3>1. cur <= Half
      BY <1>3 DEF Tidy
    <3>2. i \in cur .. USERBUF_SIZE
      BY <1>1, <1>2, <2>1, <2>3, <3>1
    <3>3. Moved(k)[i] = IF i = k THEN NUL ELSE buf[i]
      BY <1>6, <2>1, <2>3
    <3> QED
      BY <1>3, <3>2, <3>3 DEF Tidy
  <2> QED
    BY <2>2, <2>3
<1> QED
  BY <1>1, <1>2, <1>3, <1>5, <1>7, <1>8 DEF Tidy

\* A line that is handed over leaves a C string behind.
LEMMA HandleLineType ==
    ASSUME Typed, HandleLine
    PROVE  TypeOK'
<1> DEFINE k == Min(Newlines)
<1>1. /\ buf' = Moved(k) /\ cur' = Left(k) /\ pc' = pc /\ input' = input
  BY DEF HandleLine
<1>2. k \in 0 .. USERBUF_SIZE - 1
  BY LineAt DEF HandleLine
<1> HIDE DEF k
<1>3. /\ cur \in Int /\ USERBUF_SIZE \in Nat /\ UNSIGNED \in Nat /\ UNSIGNED > 0
      /\ DOMAIN buf = 0 .. USERBUF_SIZE
  BY Buffer_Assumption DEF Typed, TypeOK
<1>4. Left(k) \in 0 .. UNSIGNED - 1
  BY <1>2, <1>3 DEF Left
<1>5. Moved(k) \in [0 .. USERBUF_SIZE -> Letter \cup {NUL, NL}]
  <2>1. \A i \in 0 .. USERBUF_SIZE : i < USERBUF_SIZE - k => i + k + 1 \in 0 .. USERBUF_SIZE
    BY <1>2, <1>3
  <2> QED
    BY <1>3, <2>1 DEF Moved, Typed, TypeOK
<1>6. Moved(k)[USERBUF_SIZE] = NUL
  BY <1>2, <1>3 DEF Moved, Typed, TypeOK
<1> QED
  BY <1>1, <1>4, <1>5, <1>6 DEF Typed, TypeOK

-----------------------------------------------------------------------------
(* What was typed and not handed over. *)

\* Its length, and its bytes.
LEMMA Unread ==
    ASSUME NEW b \in [0 .. USERBUF_SIZE -> Letter \cup {NUL, NL}],
           NEW c \in 0 .. USERBUF_SIZE, \A i \in 0 .. c - 1 : b[i] # NUL,
           NEW s \in Seq(Letter \cup {NL})
    PROVE  LET u == [i \in 1 .. Min({c, USERBUF_SIZE}) |-> b[i - 1]] \o s
           IN  /\ u \in Seq(Letter \cup {NL})
               /\ Len(u) = c + Len(s)
               /\ \A i \in 1 .. c + Len(s) :
                    u[i] = IF i <= c THEN b[i - 1] ELSE s[i - c]
<1> DEFINE front == [i \in 1 .. c |-> b[i - 1]]
<1>1. USERBUF_SIZE \in Nat /\ c \in Nat
  BY Buffer_Assumption
<1>2. Min({c, USERBUF_SIZE}) = c
  <2>1. \E m \in {c, USERBUF_SIZE} : \A l \in {c, USERBUF_SIZE} : m <= l
    BY <1>1
  <2>2. /\ Min({c, USERBUF_SIZE}) \in {c, USERBUF_SIZE}
        /\ \A l \in {c, USERBUF_SIZE} : Min({c, USERBUF_SIZE}) <= l
    BY <2>1 DEF Min
  <2> QED
    BY <1>1, <2>2
<1>3. front \in Seq(Letter \cup {NL}) /\ Len(front) = c
  <2>1. \A i \in 1 .. c : i - 1 \in 0 .. USERBUF_SIZE /\ i - 1 \in 0 .. c - 1
    BY <1>1
  <2>2. front \in [1 .. c -> Letter \cup {NL}]
    BY <2>1
  <2>3. front \in Seq(Letter \cup {NL})
    BY <1>1, <2>2
  <2> QED
    BY <1>1, <2>2, <2>3
<1>4. \A i \in 1 .. c : front[i] = b[i - 1]
  OBVIOUS
<1> HIDE DEF front
<1>5. /\ front \o s \in Seq(Letter \cup {NL})
      /\ Len(front \o s) = Len(front) + Len(s)
      /\ \A i \in 1 .. Len(front) + Len(s) :
           (front \o s)[i] = IF i <= Len(front) THEN front[i] ELSE s[i - Len(front)]
  BY <1>3, ConcatProperties
<1>6. \A i \in 1 .. c + Len(s) :
        (front \o s)[i] = IF i <= c THEN b[i - 1] ELSE s[i - c]
  BY <1>1, <1>3, <1>4, <1>5
<1> QED
  BY <1>2, <1>3, <1>5, <1>6 DEF front

\* Reading moves what is typed into the buffer, and nothing else.
LEMMA ReadKeeps ==
    ASSUME Inv, Inv', AtTerminal, Read
    PROVE  (Contents \o input)' = Contents \o input
<1> DEFINE old == Contents \o input
           new == Contents' \o input'
<1>1. PICK n \in Readable :
          /\ buf' = [i \in DOMAIN buf |->
                        IF i \in cur .. cur + n - 1 THEN input[i - cur + 1] ELSE buf[i]]
          /\ cur' = cur + n
          /\ input' = SubSeq(input, n + 1, Len(input))
  BY DEF Read
<1>2. /\ n \in Nat /\ n >= 1 /\ n <= Len(input) /\ cur + n <= USERBUF_SIZE
      /\ cur \in Nat /\ USERBUF_SIZE \in Nat /\ DOMAIN buf = 0 .. USERBUF_SIZE
      /\ input \in Seq(Letter \cup {NL})
  BY ReadFits, Buffer_Assumption DEF Read, Inv, Typed, TypeOK
<1>3. /\ Len(input') = Len(input) - n
      /\ \A i \in 1 .. Len(input) - n : input'[i] = input[n + i]
  <2>1. \A i \in n + 1 .. Len(input) : input[i] \in Letter \cup {NL}
    BY <1>2
  <2>2. /\ Len(input') = IF n + 1 <= Len(input) THEN Len(input) - (n + 1) + 1 ELSE 0
        /\ \A i \in 1 .. Len(input) - (n + 1) + 1 : input'[i] = input[n + 1 + i - 1]
    BY <1>1, <1>2, <2>1, SubSeqProperties
  <2> QED
    BY <1>2, <2>2
<1>4. AtTerminal'
  BY DEF AtTerminal, Read
<1>5. /\ old \in Seq(Letter \cup {NL})
      /\ Len(old) = cur + Len(input)
      /\ \A i \in 1 .. cur + Len(input) :
           old[i] = IF i <= cur THEN buf[i - 1] ELSE input[i - cur]
  <2>1. /\ buf \in [0 .. USERBUF_SIZE -> Letter \cup {NUL, NL}]
        /\ cur \in 0 .. USERBUF_SIZE /\ \A i \in 0 .. cur - 1 : buf[i] # NUL
        /\ input \in Seq(Letter \cup {NL})
    BY Buffer_Assumption DEF Inv, Typed, TypeOK, Tidy
  <2> QED
    BY <2>1, Unread DEF Contents
<1>6. /\ new \in Seq(Letter \cup {NL})
      /\ Len(new) = cur' + Len(input')
      /\ \A i \in 1 .. cur' + Len(input') :
           new[i] = IF i <= cur' THEN buf'[i - 1] ELSE input'[i - cur']
  <2>1. Tidy' /\ TypeOK'
    BY <1>4 DEF Inv, Typed
  <2>2. /\ buf' \in [0 .. USERBUF_SIZE -> Letter \cup {NUL, NL}]
        /\ cur' \in 0 .. USERBUF_SIZE /\ \A i \in 0 .. cur' - 1 : buf'[i] # NUL
        /\ input' \in Seq(Letter \cup {NL})
    BY <2>1, Buffer_Assumption DEF TypeOK, Tidy
  <2> QED
    BY <2>2, Unread DEF Contents
<1> HIDE DEF old, new
<1>7. Len(new) = Len(old)
  BY <1>1, <1>2, <1>3, <1>5, <1>6
<1>8. ASSUME NEW i \in 1 .. cur + Len(input)
      PROVE  new[i] = old[i]
  <2> DEFINE typed == Len(input)
  <2>1. /\ cur' = cur + n /\ Len(input') = typed - n /\ typed \in Nat
        /\ n \in Nat /\ n <= typed /\ cur \in Nat /\ i \in 1 .. cur + typed
    BY <1>1, <1>2, <1>3
  <2> HIDE DEF typed
  <2>5. i \in 1 .. cur' + Len(input') /\ i \in 1 .. cur + typed
    BY <2>1
  <2>6. /\ new[i] = IF i <= cur' THEN buf'[i - 1] ELSE input'[i - cur']
        /\ old[i] = IF i <= cur THEN buf[i - 1] ELSE input[i - cur]
    BY <1>5, <1>6, <2>5 DEF typed
  <2>2. CASE i <= cur
    <3>1. i - 1 \in 0 .. USERBUF_SIZE /\ i - 1 \notin cur .. cur + n - 1 /\ i <= cur'
      BY <1>2, <2>1, <2>2
    <3>2. buf'[i - 1] = buf[i - 1]
      BY <1>1, <1>2, <3>1
    <3> QED
      BY <2>2, <2>6, <3>1, <3>2
  <2>3. CASE cur < i /\ i <= cur + n
    <3>1. i - 1 \in 0 .. USERBUF_SIZE /\ i - 1 \in cur .. cur + n - 1 /\ i <= cur'
          /\ i - 1 - cur + 1 = i - cur
      BY <1>2, <2>1, <2>3
    <3>2. buf'[i - 1] = input[i - cur]
      BY <1>1, <1>2, <3>1
    <3>3. ~(i <= cur)
      BY <2>1, <2>3
    <3> QED
      BY <2>6, <3>1, <3>2, <3>3
  <2>4. CASE cur + n < i
    <3>1. /\ i - cur' \in 1 .. typed - n /\ n + (i - cur') = i - cur
          /\ ~(i <= cur') /\ ~(i <= cur)
      BY <2>1, <2>4
    <3>2. input'[i - cur'] = input[i - cur]
      BY <1>3, <3>1 DEF typed
    <3> QED
      BY <2>6, <3>1, <3>2
  <2> QED
    BY <1>2, <2>2, <2>3, <2>4
<1> QED
  BY <1>5, <1>6, <1>7, <1>8, SeqEqual DEF old, new

\* A line that is handed over is the first one that was typed, and the rest of
\* what was typed is still there.
LEMMA HandsOver ==
    ASSUME 2 * Half <= USERBUF_SIZE + 1, Inv, Inv', AtTerminal, HandleLine
    PROVE  Lines!Next
<1> DEFINE k == Min(Newlines)
           unread == Contents \o input
           new == Contents' \o input'
           rest == SubSeq(unread, k + 2, Len(unread))
<1>1. /\ buf' = Moved(k) /\ cur' = Left(k) /\ input' = input /\ pc = "split"
      /\ lines' = Append(lines, [i \in 1 .. k |-> buf[i - 1]])
      /\ Newlines # {}
  BY DEF HandleLine
<1>2. /\ k \in 0 .. USERBUF_SIZE - 1 /\ buf[k] = NL /\ \A i \in 0 .. k - 1 : buf[i] # NL
  BY <1>1, LineAt DEF Inv
<1>3. /\ Left(k) = cur - (k + 1)
      /\ cur \in Nat /\ k \in Nat /\ k < cur
      /\ \A i \in 0 .. cur - (k + 1) - 1 : Moved(k)[i] = buf[i + k + 1]
  BY <1>1, MovedTidy
<1> HIDE DEF k
<1>4. AtTerminal' /\ Len(input) \in Nat
  BY DEF AtTerminal, HandleLine, Inv, Typed, TypeOK
<1>5. /\ unread \in Seq(Letter \cup {NL})
      /\ Len(unread) = cur + Len(input)
      /\ \A i \in 1 .. cur + Len(input) :
           unread[i] = IF i <= cur THEN buf[i - 1] ELSE input[i - cur]
  <2>1. /\ buf \in [0 .. USERBUF_SIZE -> Letter \cup {NUL, NL}]
        /\ cur \in 0 .. USERBUF_SIZE /\ \A i \in 0 .. cur - 1 : buf[i] # NUL
        /\ input \in Seq(Letter \cup {NL})
    BY Buffer_Assumption DEF Inv, Typed, TypeOK, Tidy
  <2> QED
    BY <2>1, Unread DEF Contents
<1>6. /\ new \in Seq(Letter \cup {NL})
      /\ Len(new) = cur' + Len(input')
      /\ \A i \in 1 .. cur' + Len(input') :
           new[i] = IF i <= cur' THEN buf'[i - 1] ELSE input'[i - cur']
  <2>1. Tidy' /\ TypeOK'
    BY <1>4 DEF Inv, Typed
  <2>2. /\ buf' \in [0 .. USERBUF_SIZE -> Letter \cup {NUL, NL}]
        /\ cur' \in 0 .. USERBUF_SIZE /\ \A i \in 0 .. cur' - 1 : buf'[i] # NUL
        /\ input' \in Seq(Letter \cup {NL})
    <3>1. cur' \in Nat /\ cur' <= Half
      BY <2>1, Buffer_Assumption DEF TypeOK, Tidy
    <3>2. cur' \in 0 .. USERBUF_SIZE
      BY <3>1, Buffer_Assumption
    <3>3. \A i \in 0 .. cur' - 1 : buf'[i] # NUL
      BY <2>1 DEF Tidy
    <3>4. /\ buf' \in [0 .. USERBUF_SIZE -> Letter \cup {NUL, NL}]
          /\ input' \in Seq(Letter \cup {NL})
      BY <2>1 DEF TypeOK
    <3> QED
      BY <3>2, <3>3, <3>4
  <2> QED
    BY <2>2, Unread DEF Contents
<1> HIDE DEF unread, new
<1>7. /\ rest \in Seq(Letter \cup {NL})
      /\ Len(rest) = Len(unread) - (k + 1)
      /\ \A i \in 1 .. Len(unread) - (k + 1) : rest[i] = unread[i + k + 1]
  <2>1. \A i \in k + 2 .. Len(unread) : unread[i] \in Letter \cup {NL}
    BY <1>3, <1>5
  <2>2. /\ rest \in Seq(Letter \cup {NL})
        /\ Len(rest) = IF k + 2 <= Len(unread) THEN Len(unread) - (k + 2) + 1 ELSE 0
        /\ \A i \in 1 .. Len(unread) - (k + 2) + 1 : rest[i] = unread[k + 2 + i - 1]
    BY <1>3, <1>4, <1>5, <2>1, SubSeqProperties
  <2> QED
    BY <1>3, <1>4, <1>5, <2>2
<1> HIDE DEF rest
<1>8. Len(new) = Len(rest)
  BY <1>1, <1>3, <1>4, <1>5, <1>6, <1>7
<1>9. ASSUME NEW i \in 1 .. Len(rest)
      PROVE  new[i] = rest[i]
  <2> DEFINE typed == Len(input)
             j == i + k + 1
  <2>1. /\ cur' = cur - (k + 1) /\ Len(input') = typed /\ typed \in Nat
        /\ i \in 1 .. cur + typed - (k + 1)
        /\ cur \in Nat /\ k \in Nat /\ k < cur
    BY <1>1, <1>3, <1>4, <1>5, <1>7
  <2>4. rest[i] = unread[j]
    BY <1>7
  <2> HIDE DEF typed
  <2>5. j \in 1 .. cur + typed /\ i \in 1 .. cur' + Len(input')
    BY <2>1
  <2>6. /\ new[i] = IF i <= cur' THEN buf'[i - 1] ELSE input'[i - cur']
        /\ unread[j] = IF j <= cur THEN buf[j - 1] ELSE input[j - cur]
    BY <1>5, <1>6, <2>5 DEF typed
  <2>2. CASE i <= cur'
    <3>1. i - 1 \in 0 .. cur - (k + 1) - 1 /\ j <= cur /\ (i - 1) + k + 1 = j - 1
      BY <2>1, <2>2
    <3>2. buf'[i - 1] = buf[j - 1]
      BY <1>1, <1>3, <3>1
    <3> QED
      BY <2>2, <2>4, <2>6, <3>1, <3>2
  <2>3. CASE ~(i <= cur')
    <3>1. ~(j <= cur) /\ i - cur' = j - cur
      BY <2>1, <2>3
    <3> QED
      BY <1>1, <2>3, <2>4, <2>6, <3>1
  <2> QED
    BY <2>2, <2>3
<1>10. new = rest
  BY <1>6, <1>7, <1>8, <1>9, SeqEqual
<1>11. SubSeq(unread, 1, k) = [i \in 1 .. k |-> buf[i - 1]]
  <2>1. \A i \in 1 .. k : unread[i] = buf[i - 1]
    BY <1>3, <1>4, <1>5
  <2>2. SubSeq(unread, 1, k) = [i \in 1 .. k |-> unread[i]]
    BY <1>3, <1>5
  <2> QED
    BY <2>1, <2>2
<1>12. /\ k + 1 \in DOMAIN unread /\ unread[k + 1] = NL
       /\ \A i \in 1 .. k : unread[i] # NL
  <2>1. k + 1 \in 1 .. cur + Len(input) /\ k + 1 <= cur /\ (k + 1) - 1 = k
    BY <1>3, <1>4
  <2>2. ASSUME NEW i \in 1 .. k PROVE unread[i] # NL
    <3>1. i \in 1 .. cur + Len(input) /\ i <= cur /\ i - 1 \in 0 .. k - 1
      BY <1>3, <1>4
    <3> QED
      BY <1>2, <1>5, <3>1
  <2> QED
    BY <1>2, <1>5, <2>1, <2>2
<1>13. Lines!HandOver(k + 1)
  <2>1. (k + 1) - 1 = k /\ (k + 1) + 1 = k + 2
    BY <1>3
  <2> QED
    BY <1>1, <1>10, <1>11, <1>12, <2>1 DEF Lines!HandOver, rest, unread, new
<1> QED
  BY <1>12, <1>13 DEF Lines!Next, unread

-----------------------------------------------------------------------------
(* Theorems. *)

\* Every step keeps the buffer a C string.
LEMMA NextType == Typed /\ [Next]_vars => Typed'
<1>1. ASSUME Typed, BufferFull \/ NoMoreLines \/ UNCHANGED vars
      PROVE  TypeOK'
  BY <1>1 DEF Typed, TypeOK, BufferFull, NoMoreLines, vars
<1>2. ASSUME Typed, Read PROVE TypeOK'
  BY <1>2, ReadInv
<1>3. ASSUME Typed, HandleLine PROVE TypeOK'
  BY <1>3, HandleLineType
<1>4. [Next]_vars => burst' = burst
  BY DEF Next, BufferFull, Read, HandleLine, NoMoreLines, vars
<1> QED
  BY <1>1, <1>2, <1>3, <1>4 DEF Next, Typed

\* And, if no more than half of it is in use, tidy.
LEMMA NextInv ==
    ASSUME 2 * Half <= USERBUF_SIZE + 1
    PROVE  Inv /\ [Next]_vars => Inv'
<1> SUFFICES ASSUME Inv, [Next]_vars, AtTerminal'
             PROVE  Tidy'
  BY NextType DEF Inv
<1>1. AtTerminal /\ Tidy /\ Typed
  BY DEF Inv, AtTerminal, Next, BufferFull, Read, HandleLine, NoMoreLines, vars
<1>2. CASE BufferFull \/ NoMoreLines \/ UNCHANGED vars
  BY <1>1, <1>2 DEF Tidy, BufferFull, NoMoreLines, vars
<1>3. CASE Read
  BY <1>1, <1>3, ReadInv
<1>4. CASE HandleLine
  <2> DEFINE k == Min(Newlines)
  <2>1. /\ buf' = Moved(k) /\ cur' = Left(k) /\ pc = "split" /\ Newlines # {}
    BY <1>4 DEF HandleLine
  <2>2. /\ Left(k) = cur - (k + 1)
        /\ cur \in Nat /\ k \in Nat /\ k < cur /\ cur <= Half
        /\ \A i \in 0 .. cur - (k + 1) - 1 : Moved(k)[i] # NUL
        /\ \A i \in cur - (k + 1) .. USERBUF_SIZE : Moved(k)[i] = NUL
    BY <1>1, <2>1, MovedTidy
  <2> HIDE DEF k
  <2>3. cur' <= Half
    BY <2>1, <2>2, Buffer_Assumption
  <2> QED
    BY <2>1, <2>2, <2>3 DEF Tidy
<1> QED
  BY <1>2, <1>3, <1>4 DEF Next

\* Whatever is read, and however cur wraps around: the last byte of the buffer
\* stays 0, so that strchr stops in it, and no read or move goes past it.
THEOREM TypeCorrect == Spec => []TypeOK
<1>1. Init => Typed
  BY InitInv DEF Inv
<1>2. Typed => TypeOK
  BY DEF Typed
<1> QED
  BY <1>1, <1>2, NextType, PTL DEF Spec

\* While at most half of the buffer is in use, as with lines typed at a terminal
\* (4096 bytes of 8191), every line is handed over once, as it was typed and in
\* order, and no byte that memmove left behind is taken for input.
THEOREM TypedLines ==
    ASSUME 2 * Half <= USERBUF_SIZE + 1
    PROVE  Spec => TypedLinesAreHandedOver
<1>1. Init => lines = <<>>
  BY DEF Init
<1>2. ASSUME Inv, Inv', [Next]_vars
      PROVE  [AtTerminal => Lines!Next]_<<Contents \o input, lines>>
  <2> SUFFICES ASSUME AtTerminal
               PROVE  \/ Lines!Next
                      \/ (Contents \o input)' = Contents \o input /\ lines' = lines
    OBVIOUS
  <2>1. CASE BufferFull \/ NoMoreLines \/ UNCHANGED vars
    BY <2>1 DEF BufferFull, NoMoreLines, vars, Contents
  <2>2. CASE Read
    BY <1>2, <2>2, ReadKeeps DEF Read
  <2>3. CASE HandleLine
    BY <1>2, <2>3, HandsOver
  <2> QED
    BY <1>2, <2>1, <2>2, <2>3 DEF Next
<1>3. Spec => []Inv
  BY InitInv, NextInv, PTL DEF Spec
<1> QED
  BY <1>1, <1>2, <1>3, PTL DEF Spec, TypedLinesAreHandedOver
=============================================================================
