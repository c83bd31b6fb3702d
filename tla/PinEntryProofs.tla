----------------------------- MODULE PinEntryProofs -----------------------------
(* For every PIN length: the digit buffer holds the tail of what was typed, and    *)
(* Enter hands over exactly the attempt the person typed.                          *)
EXTENDS PinEntry, TLAPS

\* A number written as a multiple of p and a rest below p has that rest as remainder.
LEMMA RemainderUnique ==
  ASSUME NEW t \in Nat, NEW p \in Nat \ {0}, NEW a \in Nat, NEW c \in 0 .. p - 1,
         t = p * a + c
  PROVE  t % p = c
OBVIOUS

\* The remainder of a successor: it wraps exactly at the divisor.
LEMMA SuccessorRemainder ==
  ASSUME NEW m \in Nat, NEW p \in Nat \ {0}
  PROVE  (m + 1) % p = IF m % p = p - 1 THEN 0 ELSE (m % p) + 1
<1> DEFINE q == m \div p
           r == m % p
<1>1. /\ q \in Nat
      /\ r \in 0 .. p - 1
      /\ m = p * q + r
  OBVIOUS
<1> HIDE DEF q, r
<1>2. CASE r = p - 1
  <2>1. m + 1 = p * (q + 1) + 0
    BY <1>1, <1>2
  <2>2. (m + 1) % p = 0
    BY <1>1, <2>1, RemainderUnique
  <2> QED BY <1>2, <2>2 DEF r
<1>3. CASE r # p - 1
  <2>1. m + 1 = p * q + (r + 1) /\ r + 1 \in 0 .. p - 1
    BY <1>1, <1>3
  <2>2. (m + 1) % p = r + 1
    BY <1>1, <2>1, RemainderUnique
  <2> QED BY <1>3, <2>2 DEF r
<1> QED BY <1>2, <1>3

\* How the length of the attempt in progress grows with the digits typed.
LEMMA AttemptLenStep ==
  ASSUME NEW n \in Nat
  PROVE  /\ AttemptLen(n) \in 0 .. PIN_LEN
         /\ AttemptLen(n) <= n
         /\ AttemptLen(n + 1) = IF AttemptLen(n) < PIN_LEN THEN AttemptLen(n) + 1 ELSE 1
         /\ AttemptLen(n) = PIN_LEN <=> n # 0 /\ n % PIN_LEN = 0
<1>1. PIN_LEN \in Nat \ {0}
  BY PinAssumption
<1>2. CASE n = 0
  <2>1. 0 % PIN_LEN = 0
    BY <1>1
  <2> QED BY <1>1, <1>2, <2>1 DEF AttemptLen
<1>3. CASE n # 0
  <2> DEFINE m == n - 1
             r == m % PIN_LEN
  <2>1. /\ m \in Nat
        /\ r \in 0 .. PIN_LEN - 1
        /\ n = m + 1
    BY <1>1, <1>3
  <2>2. r <= m
    BY <1>1, <2>1
  <2>3. n % PIN_LEN = IF r = PIN_LEN - 1 THEN 0 ELSE r + 1
    BY <1>1, <2>1, SuccessorRemainder
  <2>4. AttemptLen(n) = r + 1 /\ AttemptLen(n + 1) = (n % PIN_LEN) + 1
    BY <1>3, <2>1 DEF AttemptLen
  <2> HIDE DEF r, m
  <2> QED BY <1>1, <1>3, <2>1, <2>2, <2>3, <2>4
<1> QED BY <1>2, <1>3

\* The conjunction that is inductive for the buffer.
EntryInv == EntryTypeOK /\ BufferIsTail

\* A fresh or reset buffer satisfies it.
LEMMA BlankEntry ==
  ASSUME buffer = Blank, len = 0, typed = <<>>
  PROVE  EntryInv
<1>1. Blank \in Codes /\ PIN_LEN \in Nat \ {0}
  BY PinAssumption DEF Blank, Codes
<1>2. EntryTypeOK
  BY <1>1 DEF EntryTypeOK
<1>3. BufferIsTail
  BY DEF BufferIsTail, AttemptLen
<1> QED BY <1>2, <1>3 DEF EntryInv

\* PinEntry::reset re-establishes it.
LEMMA ResetKeepsEntryInv ==
  ASSUME Reset
  PROVE  EntryInv'
<1>1. Blank \in Codes /\ PIN_LEN \in Nat \ {0}
  BY PinAssumption DEF Blank, Codes
<1>2. EntryTypeOK'
  BY <1>1 DEF EntryTypeOK, Reset, Codes
<1>3. BufferIsTail'
  BY DEF BufferIsTail, AttemptLen, Reset
<1> QED BY <1>2, <1>3 DEF EntryInv

\* A digit keeps it, whether it extends the attempt or starts a new one.
LEMMA PushDigitKeepsEntryInv ==
  ASSUME EntryInv, NEW d \in Digits, PushDigit(d)
  PROVE  EntryInv'
<1>1. /\ buffer \in Codes
      /\ len \in 0 .. PIN_LEN
      /\ typed \in Seq(Digits)
      /\ PIN_LEN \in Nat \ {0}
  BY PinAssumption DEF EntryInv, EntryTypeOK
<1>2. /\ Len(typed) \in Nat
      /\ typed' = Append(typed, d)
      /\ typed' \in Seq(Digits)
      /\ Len(typed') = Len(typed) + 1
      /\ \A i \in 1 .. Len(typed) : typed'[i] = typed[i]
      /\ typed'[Len(typed) + 1] = d
  BY <1>1 DEF PushDigit
<1>3. /\ len = AttemptLen(Len(typed))
      /\ len <= Len(typed)
      /\ AttemptLen(Len(typed) + 1) = IF len < PIN_LEN THEN len + 1 ELSE 1
      /\ \A i \in 1 .. len : buffer[i] = typed[Len(typed) - len + i]
  BY <1>2, AttemptLenStep DEF EntryInv, BufferIsTail
<1>4. CASE len < PIN_LEN
  <2>1. /\ buffer' = [buffer EXCEPT ![len + 1] = d]
        /\ len' = len + 1
    BY <1>1, <1>4 DEF PushDigit, NextSlot
  <2>2. EntryTypeOK'
    BY <1>1, <1>2, <1>4, <2>1 DEF EntryTypeOK, Codes
  <2>3. ASSUME NEW i \in 1 .. len'
        PROVE  buffer'[i] = typed'[Len(typed') - len' + i]
    <3>1. CASE i = len + 1
      <4>1. Len(typed') - len' + i = Len(typed) + 1
        BY <1>1, <1>2, <2>1, <3>1
      <4>2. buffer'[len + 1] = d
        BY <1>1, <1>4, <2>1 DEF Codes
      <4> QED BY <1>2, <3>1, <4>1, <4>2
    <3>2. CASE i # len + 1
      <4>1. i \in 1 .. len /\ Len(typed') - len' + i = Len(typed) - len + i
        BY <1>1, <1>2, <2>1, <3>2
      <4>2. buffer'[i] = buffer[i]
        BY <1>1, <1>4, <2>1, <4>1 DEF Codes
      <4>3. Len(typed) - len + i \in 1 .. Len(typed)
        BY <1>1, <1>2, <1>3, <4>1
      <4> QED BY <1>2, <1>3, <4>1, <4>2, <4>3
    <3> QED BY <3>1, <3>2
  <2>4. len' = AttemptLen(Len(typed'))
    BY <1>2, <1>3, <1>4, <2>1
  <2> QED BY <2>2, <2>3, <2>4 DEF EntryInv, BufferIsTail
<1>5. CASE ~(len < PIN_LEN)
  <2>1. /\ buffer' = [buffer EXCEPT ![1] = d]
        /\ len' = 1
    BY <1>1, <1>5 DEF PushDigit, NextSlot
  <2>2. EntryTypeOK'
    BY <1>1, <1>2, <2>1 DEF EntryTypeOK, Codes
  <2>3. ASSUME NEW i \in 1 .. len'
        PROVE  buffer'[i] = typed'[Len(typed') - len' + i]
    <3>1. i = 1 /\ Len(typed') - len' + i = Len(typed) + 1
      BY <1>2, <2>1
    <3>2. buffer'[1] = d
      BY <1>1, <2>1 DEF Codes
    <3> QED BY <1>2, <3>1, <3>2
  <2>4. len' = AttemptLen(Len(typed'))
    BY <1>2, <1>3, <1>5, <2>1
  <2> QED BY <2>2, <2>3, <2>4 DEF EntryInv, BufferIsTail
<1> QED BY <1>4, <1>5

\* What Enter hands over follows from the invariant.
LEMMA SubmissionFromEntryInv ==
  ASSUME EntryInv
  PROVE  /\ SubmitsWhatWasTyped
         /\ EnterResult = Pending <=> ~WholeAttempt(typed)
<1>1. /\ buffer \in Codes
      /\ len \in 0 .. PIN_LEN
      /\ typed \in Seq(Digits)
      /\ PIN_LEN \in Nat \ {0}
      /\ Len(typed) \in Nat
  BY PinAssumption DEF EntryInv, EntryTypeOK
<1>2. /\ len = PIN_LEN <=> Len(typed) # 0 /\ Len(typed) % PIN_LEN = 0
      /\ len = PIN_LEN => Len(typed) >= PIN_LEN
      /\ \A i \in 1 .. len : buffer[i] = typed[Len(typed) - len + i]
  BY <1>1, AttemptLenStep DEF EntryInv, BufferIsTail
<1>3. typed = <<>> <=> Len(typed) = 0
  BY <1>1
<1>4. WholeAttempt(typed) <=> len = PIN_LEN
  BY <1>2, <1>3 DEF WholeAttempt
<1>5. len = PIN_LEN => buffer = LastAttempt(typed)
  BY <1>1, <1>2 DEF LastAttempt, Codes
<1>6. buffer # Pending
  BY <1>1 DEF Codes, Pending
<1> QED BY <1>4, <1>5, <1>6 DEF SubmitsWhatWasTyped, EnterResult
=================================================================================
