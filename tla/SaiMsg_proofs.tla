----------------------------- MODULE SaiMsg_proofs -----------------------------
(***************************************************************************)
(* Proofs about SaiMsg, for buffers, sizes and an unsigned type of any     *)
(* size: reading stays within what was written, and a message is a stream. *)
(***************************************************************************)
EXTENDS SaiMsg, TLAPS

Inv == TypeOK /\ ReadIsWritten

\* The remainder of what is below twice the divisor.
LEMMA SmallRemainder ==
  ASSUME NEW a \in Nat, NEW m \in Nat, 0 < a, a < 2 * m, a % m = 0
  PROVE  a = m
OBVIOUS

\* Counting down by four from below Wrap reaches zero from whole words only.
LEMMA EndsOnWords ==
  ASSUME NEW size \in Sizes, CopyEnds(size)
  PROVE  /\ size \in Nat /\ size % 4 = 0 /\ PadSize(size) = size
         /\ size \div 4 \in Words
<1>1. size \in 1..Size
  BY MsgAssumption
<1>2. PICK n \in 0..(Wrap \div 4) : (size + Wrap - 4 * n) % Wrap = 0
  BY DEF CopyEnds
<1>3. size + Wrap - 4 * n = Wrap
  <2> DEFINE a == size + Wrap - 4 * n
  <2>1. Wrap \in Nat /\ Wrap % 4 = 0 /\ Size \in Nat /\ Size < Wrap
    BY MsgAssumption
  <2>2. 4 * n <= Wrap /\ n \in Nat
    BY <1>2, <2>1
  <2>3. a \in Nat /\ 0 < a /\ a < 2 * Wrap
    BY <1>1, <2>1, <2>2
  <2> HIDE DEF a
  <2>4. a % Wrap = 0
    BY <1>2 DEF a
  <2> QED
    BY <2>1, <2>3, <2>4, SmallRemainder DEF a
<1>4. size = 4 * n
  BY <1>1, <1>3, MsgAssumption
<1> QED
  BY <1>1, <1>4, MsgAssumption DEF PadSize, Words
-----------------------------------------------------------------------------
LEMMA Sizing ==
  ASSUME Inv
  PROVE  /\ Size \in Nat /\ Size % 4 = 0 /\ payload \in 0..Size
         /\ From \in 0..payload /\ From % 4 = 0 /\ None \notin 0..Size
         /\ tail = None \/ tail = From
<1>1. None \notin Nat /\ Size \in Nat /\ Size % 4 = 0
  BY MsgAssumption
<1> QED
  BY <1>1 DEF Inv, TypeOK, ReadIsWritten, From

\* Writing words into the buffer keeps it typed.
LEMMA FilledType ==
  ASSUME Inv, NEW n \in Nat, NEW ws \in [1..n -> Val], NEW at \in Nat
  PROVE  Filled(ws, at) \in [Words -> Val]
<1>1. Len(ws) = n /\ \A i \in Words : i - at \div 4 \in 1..Len(ws) => ws[i - at \div 4] \in Val
  BY DEF Words
<1>2. buf \in [Words -> Val]
  BY DEF Inv, TypeOK
<1> QED
  BY <1>1, <1>2 DEF Filled

\* What a put and a get of whole words do, in words.
PutWords(n, ws) ==
  /\ payload % 4 = 0 /\ payload + 4 * n <= Size
  /\ ws \in [1..n -> Val]
  /\ buf' = Filled(ws, payload) /\ payload' = payload + 4 * n
  /\ got' = None
  /\ UNCHANGED <<tail, stuck>>

GetWords(n) ==
  /\ From + 4 * n <= payload
  /\ got' = [i \in 1..n |-> buf[From \div 4 + i]]
  /\ tail' = From + 4 * n
  /\ UNCHANGED <<buf, payload, stuck>>

LEMMA PutIsWords ==
  ASSUME Inv, NEW size \in Sizes, NEW ws \in [1..(size \div 4) -> Val], PutData(size, ws)
  PROVE  PutWords(size \div 4, ws) /\ size \div 4 \in Words
<1>1. size \in Nat /\ size % 4 = 0 /\ PadSize(size) = size /\ size \div 4 \in Words
  BY EndsOnWords DEF PutData
<1>2. size = 4 * (size \div 4)
  BY <1>1
<1>3. payload % 4 = 0 /\ size <= Size - payload
  BY <1>1 DEF PutData, Fits, Room
<1>4. payload + 4 * (size \div 4) <= Size /\ payload' = payload + 4 * (size \div 4)
  BY <1>1, <1>2, <1>3, Sizing DEF PutData
<1> QED
  BY <1>1, <1>3, <1>4 DEF PutData, PutWords

LEMMA PutEventIsWords ==
  ASSUME Inv, NEW type \in Val, NEW id \in Val, PutEvent(type, id)
  PROVE  \E n \in {1, 2} : \E ws \in [1..n -> Val] : PutWords(n, ws) /\ n \in Words
<1>1. payload % 4 = 0 /\ 4 <= Room /\ Room = Size - payload
  BY DEF PutEvent, Fits, PadSize, Room
<1>2. CASE 8 <= Room
  <2>1. <<type, id>> \in [1..2 -> Val]
    OBVIOUS
  <2>2. PutWords(2, <<type, id>>) /\ 2 \in Words
    BY <1>1, <1>2, <2>1, Sizing DEF PutEvent, PutWords, Words
  <2> QED
    BY <2>1, <2>2
<1>3. CASE ~(8 <= Room)
  <2>1. <<type>> \in [1..1 -> Val]
    OBVIOUS
  <2>2. PutWords(1, <<type>>) /\ 1 \in Words
    BY <1>1, <1>3, <2>1, Sizing DEF PutEvent, PutWords, Words
  <2> QED
    BY <2>1, <2>2
<1> QED
  BY <1>2, <1>3

LEMMA GetIsWords ==
  ASSUME Inv, NEW size \in Sizes, GetData(size)
  PROVE  GetWords(size \div 4) /\ size \div 4 \in Words
<1>1. size \in Nat /\ size % 4 = 0 /\ PadSize(size) = size /\ size \div 4 \in Words
  BY EndsOnWords DEF GetData
<1>2. size = 4 * (size \div 4)
  BY <1>1
<1> QED
  BY <1>1, <1>2, Sizing DEF GetData, GetWords

LEMMA PutKeeps ==
  ASSUME Inv, NEW n \in Words, NEW ws, PutWords(n, ws) PROVE Inv'
<1>1. n \in Nat /\ n > 0
  BY DEF Words
<1>2. buf' \in [Words -> Val]
  BY <1>1, FilledType, Sizing DEF PutWords
<1>3. payload' \in 0..Size /\ From' = From /\ From <= payload'
  BY <1>1, Sizing DEF PutWords, From
<1> QED
  BY <1>2, <1>3, Sizing DEF Inv, TypeOK, ReadIsWritten, PutWords

LEMMA GetKeeps ==
  ASSUME Inv, NEW n \in Words, GetWords(n) PROVE Inv'
<1>1. n \in Nat /\ n > 0
  BY DEF Words
<1>2. \A i \in 1..n : From \div 4 + i \in Words
  BY <1>1, Sizing DEF GetWords, Words
<1>3. got' \in [1..n -> Val]
  BY <1>2 DEF GetWords, Inv, TypeOK
<1>4. tail' \in 0..payload /\ tail' % 4 = 0 /\ tail' # None
  BY <1>1, Sizing DEF GetWords
<1>5. From' = tail'
  BY <1>4 DEF From
<1>6. TypeOK'
  BY <1>3, <1>4, Sizing DEF Inv, TypeOK, GetWords
<1> QED
  BY <1>4, <1>5, <1>6, Sizing DEF Inv, ReadIsWritten, GetWords

LEMMA InitInv == Init => Inv
<1> SUFFICES ASSUME Init PROVE Inv
  OBVIOUS
<1>1. TypeOK
  BY DEF Init, TypeOK
<1>2. From = 0 /\ payload \in 0..Size /\ Size \in Nat
  BY MsgAssumption DEF Init, From
<1> QED
  BY <1>1, <1>2 DEF Inv, ReadIsWritten

LEMMA NextInv == Inv /\ [Next]_vars => Inv'
<1> SUFFICES ASSUME Inv, [Next]_vars PROVE Inv'
  OBVIOUS
<1>1. ASSUME NEW size \in Sizes, NEW ws \in [1..(size \div 4) -> Val], PutData(size, ws)
      PROVE  Inv'
  BY <1>1, PutIsWords, PutKeeps
<1>2. ASSUME NEW size \in Sizes, GetData(size) PROVE Inv'
  BY <1>2, GetIsWords, GetKeeps
<1>3. ASSUME NEW type \in Val, NEW id \in Val, PutEvent(type, id) PROVE Inv'
  BY <1>3, PutEventIsWords, PutKeeps
<1>4. ASSUME NEW size \in Sizes, PutRefused(size) \/ GetRefused(size) \/ CopyRunsAway(size)
      PROVE  Inv'
  BY <1>4 DEF PutRefused, GetRefused, CopyRunsAway, Refused, Inv, TypeOK, ReadIsWritten, From
<1>5. CASE Clear
  BY <1>5, MsgAssumption DEF Clear, Inv, TypeOK, ReadIsWritten, From
<1>6. CASE UNCHANGED vars
  BY <1>6 DEF vars, Inv, TypeOK, ReadIsWritten, From
<1> QED
  BY <1>1, <1>2, <1>3, <1>4, <1>5, <1>6 DEF Next

(* The message is typed, whatever is put, got, refused or never ends, for  *)
(* any buffer and sizes (saiagent_msg.c:97-156).                           *)
THEOREM MsgTypeCorrect == Spec => []TypeOK
  BY InitInv, NextInv, PTL DEF Spec, Inv

(* The reader stays within what was written, itself within the buffer      *)
(* (saiagent_msg.c:97-156).                                                *)
THEOREM ReadStaysWithinWritten == Spec => []ReadIsWritten
  BY InitInv, NextInv, PTL DEF Spec, Inv
-----------------------------------------------------------------------------
(* The copy loop.                                                          *)

(* for (; size; size -= 4) meets zero exactly from a multiple of four,     *)
(* whatever the width of size_t (saiagent_msg.c:77-94).                    *)
THEOREM CopyEndsOnWords ==
  \A size \in Sizes : CopyEnds(size) <=> size % 4 = 0
<1> SUFFICES ASSUME NEW size \in Sizes PROVE CopyEnds(size) <=> size % 4 = 0
  OBVIOUS
<1>1. CopyEnds(size) => size % 4 = 0
  BY EndsOnWords
<1>2. ASSUME size % 4 = 0 PROVE CopyEnds(size)
  <2>1. size \in 1..Size /\ Size \in Nat /\ Wrap \in Nat /\ Wrap % 4 = 0 /\ Size < Wrap
    BY MsgAssumption
  <2>2. size \div 4 \in 0..(Wrap \div 4) /\ 4 * (size \div 4) = size
    BY <1>2, <2>1
  <2>3. size + Wrap - 4 * (size \div 4) = Wrap
    BY <2>1, <2>2
  <2>4. Wrap % Wrap = 0
    BY <2>1
  <2>5. (size + Wrap - 4 * (size \div 4)) % Wrap = 0
    BY <2>3, <2>4, Zenon
  <2> QED
    BY <2>2, <2>5 DEF CopyEnds
<1> QED
  BY <1>1, <1>2

(* A copy runs away only with a size that is not a multiple of four: with  *)
(* the structures of tests/check_saiagent.c no message ever does           *)
(* (saiagent_msg.c:78-85).                                                 *)
THEOREM OnlyPartWordsRunAway ==
  Spec => [](stuck => \E size \in Sizes : size % 4 # 0)
<1> DEFINE Stuck == stuck => \E size \in Sizes : size % 4 # 0
<1>1. Init => Stuck
  BY DEF Init
<1>2. Stuck /\ [Next]_vars => Stuck'
  <2> SUFFICES ASSUME Stuck, [Next]_vars PROVE Stuck'
    OBVIOUS
  <2>1. ASSUME NEW size \in Sizes, CopyRunsAway(size) PROVE Stuck'
    BY <2>1, CopyEndsOnWords DEF CopyRunsAway
  <2>2. ASSUME \A size \in Sizes : ~CopyRunsAway(size) PROVE stuck' = stuck
    BY <2>2 DEF Next, PutData, PutRefused, PutEvent, GetData, GetRefused, Clear, Refused, vars
  <2> QED
    BY <2>1, <2>2
<1> QED
  BY <1>1, <1>2, PTL DEF Spec
-----------------------------------------------------------------------------
(* SaiMsg implements Stream.                                               *)
Contents == [i \in 1..(payload \div 4) |-> buf[i]]

LEMMA ContentsType ==
  ASSUME Inv
  PROVE  /\ payload \div 4 \in 0..(Size \div 4)
         /\ Contents \in [1..(payload \div 4) -> Val]
         /\ Contents \in Seq(Val) /\ Len(Contents) = payload \div 4
<1>1. payload \div 4 \in 0..(Size \div 4)
  BY Sizing
<1>2. Contents \in [1..(payload \div 4) -> Val]
  BY <1>1, Sizing DEF Contents, Inv, TypeOK, Words
<1> QED
  BY <1>1, <1>2

LEMMA SeqIs ==
  ASSUME NEW T, NEW q \in Seq(T) PROVE q = [i \in 1..Len(q) |-> q[i]]
OBVIOUS

LEMMA ConcatIs ==
  ASSUME NEW T, NEW q \in Seq(T), NEW r \in Seq(T)
  PROVE  q \o r = [i \in 1..(Len(q) + Len(r)) |->
                    IF i <= Len(q) THEN q[i] ELSE r[i - Len(q)]]
<1>1. q \o r \in Seq(T) /\ Len(q \o r) = Len(q) + Len(r) /\ Len(q) \in Nat /\ Len(r) \in Nat
  OBVIOUS
<1>2. \A i \in 1..(Len(q) + Len(r)) : (q \o r)[i] = IF i <= Len(q) THEN q[i] ELSE r[i - Len(q)]
  OBVIOUS
<1>3. q \o r = [i \in 1..Len(q \o r) |-> (q \o r)[i]]
  BY <1>1, SeqIs
<1> QED
  BY <1>1, <1>2, <1>3

LEMMA SubSeqIs ==
  ASSUME NEW T, NEW q \in Seq(T), NEW k \in Nat, NEW n \in Nat, k + n <= Len(q)
  PROVE  SubSeq(q, k + 1, k + n) = [i \in 1..n |-> q[k + i]]
OBVIOUS

LEMMA PutIsPut ==
  ASSUME Inv, NEW n \in Words, NEW ws, PutWords(n, ws) PROVE St!Next
<1>1. n \in Nat /\ n > 0 /\ n <= Size \div 4
  BY Sizing DEF Words
<1>2. ws \in Seq(Val) /\ Len(ws) = n /\ DOMAIN ws = 1..n
  BY <1>1 DEF PutWords
<1>3. /\ payload' \div 4 = payload \div 4 + n
      /\ payload \div 4 + n <= Size \div 4
  BY <1>1, Sizing DEF PutWords
<1>4. Contents' = Contents \o ws
  <2>1. Contents' = [i \in 1..(payload \div 4 + n) |-> buf'[i]]
    BY <1>3 DEF Contents
  <2>2. Contents \o ws = [i \in 1..(payload \div 4 + n) |->
                           IF i <= payload \div 4 THEN Contents[i] ELSE ws[i - payload \div 4]]
    <3>1. Contents \in Seq(Val) /\ Len(Contents) = payload \div 4
      BY ContentsType
    <3> QED
      BY <1>2, <3>1, ConcatIs
  <2>3. ASSUME NEW i \in 1..(payload \div 4 + n)
        PROVE  buf'[i] = IF i <= payload \div 4 THEN Contents[i] ELSE ws[i - payload \div 4]
    <3>1. i \in Words /\ payload \div 4 \in Nat
      BY <1>1, <1>3, <2>3, Sizing DEF Words
    <3>2. buf'[i] = IF i - payload \div 4 \in 1..n THEN ws[i - payload \div 4] ELSE buf[i]
      BY <1>2, <3>1 DEF PutWords, Filled
    <3> QED
      BY <1>1, <2>3, <3>1, <3>2 DEF Contents
  <2> QED
    BY <2>1, <2>2, <2>3
<1>5. From' = From
  BY DEF PutWords, From
<1>6. St!Put(ws)
  BY <1>2, <1>3, <1>4, <1>5, ContentsType DEF St!Put, Contents, PutWords
<1>7. ws \in [1..n -> Val] /\ n \in 1..(Size \div 4)
  BY DEF PutWords, Words
<1> QED
  BY <1>6, <1>7 DEF St!Next

LEMMA GetIsGet ==
  ASSUME Inv, NEW n \in Words, GetWords(n) PROVE St!Next
<1>1. n \in Nat /\ n > 0 /\ n \in 1..(Size \div 4)
  BY DEF Words
<1>2. From \div 4 \in Nat /\ From \div 4 + n <= payload \div 4 /\ payload \div 4 \in Nat
  BY <1>1, Sizing DEF GetWords
<1>3. SubSeq(Contents, From \div 4 + 1, From \div 4 + n)
        = [i \in 1..n |-> Contents[From \div 4 + i]]
  BY <1>1, <1>2, ContentsType
<1>4. got' = SubSeq(Contents, From \div 4 + 1, From \div 4 + n)
  <2>1. \A i \in 1..n : Contents[From \div 4 + i] = buf[From \div 4 + i]
    BY <1>1, <1>2 DEF Contents
  <2> QED
    BY <1>3, <2>1 DEF GetWords
<1>5. From' \div 4 = From \div 4 + n
  <2>1. From + 4 * n \in 0..Size /\ tail' = From + 4 * n
    BY <1>1, Sizing DEF GetWords
  <2>2. From' = From + 4 * n
    BY <2>1, Sizing DEF From
  <2> QED
    BY <1>1, <2>2, Sizing
<1>6. St!Get(n)
  BY <1>2, <1>4, <1>5, ContentsType DEF St!Get, Contents, GetWords
<1> QED
  BY <1>1, <1>6 DEF St!Next

LEMMA NextIsStreamStep == Inv /\ [Next]_vars => [St!Next]_(St!vars)
<1> SUFFICES ASSUME Inv, [Next]_vars PROVE [St!Next]_(St!vars)
  OBVIOUS
<1>1. ASSUME NEW size \in Sizes, NEW ws \in [1..(size \div 4) -> Val], PutData(size, ws)
      PROVE  St!Next
  BY <1>1, PutIsWords, PutIsPut
<1>2. ASSUME NEW size \in Sizes, GetData(size) PROVE St!Next
  BY <1>2, GetIsWords, GetIsGet
<1>3. ASSUME NEW type \in Val, NEW id \in Val, PutEvent(type, id) PROVE St!Next
  BY <1>3, PutEventIsWords, PutIsPut
<1>4. ASSUME NEW size \in Sizes, PutRefused(size) \/ GetRefused(size) PROVE St!Next
  <2>1. got' = None /\ UNCHANGED <<buf, payload, tail>>
    BY <1>4 DEF PutRefused, GetRefused, Refused
  <2> QED
    BY <2>1 DEF St!Next, St!Refuse, From
<1>5. ASSUME NEW size \in Sizes, CopyRunsAway(size) PROVE UNCHANGED St!vars
  BY <1>5 DEF CopyRunsAway, St!vars, From
<1>6. CASE Clear
  <2>1. payload' = 0 /\ tail' = None /\ got' = None
    BY <1>6 DEF Clear
  <2>2. [i \in 1..(payload' \div 4) |-> buf'[i]] = << >> /\ From' \div 4 = 0
    BY <2>1 DEF From
  <2> QED
    BY <2>1, <2>2 DEF St!Next, St!Reset
<1>7. CASE UNCHANGED vars
  BY <1>7 DEF vars, St!vars, From
<1> QED
  BY <1>1, <1>2, <1>3, <1>4, <1>5, <1>6, <1>7 DEF Next

LEMMA InitIsStreamInit == Init => St!Init
<1> SUFFICES ASSUME Init PROVE St!Init
  OBVIOUS
<1>1. Inv /\ tail = None /\ got = None
  BY InitInv DEF Init
<1> QED
  BY <1>1, ContentsType DEF St!Init, Contents, From

(* Words come out of a message as they were put in, each once and in       *)
(* order, whatever fails in between (saiagent_msg.c:97-156).               *)
THEOREM StreamImplemented == Spec => ImplementsStream
<1>1. Init => Inv
  BY InitInv
<1> QED
  BY <1>1, NextInv, InitIsStreamInit, NextIsStreamStep, PTL
     DEF Spec, ImplementsStream, St!Spec
=============================================================================
