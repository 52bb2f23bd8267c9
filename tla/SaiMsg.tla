------------------------------- MODULE SaiMsg -------------------------------
(***************************************************************************)
(* Messages, src/src/saiagent_msg.c: a buffer filled from the front and    *)
(* read from the front, in words of four bytes.  Sizes and offsets are in  *)
(* bytes and unsigned, as wide as size_t.                                  *)
(***************************************************************************)
EXTENDS Naturals, Sequences

CONSTANTS Val,       \* values of a word
          None,      \* NULL, and "nothing was got"
          Size,      \* bytes in the buffer, msg->size
          Sizes,     \* sizes of the data that is put and got
          Wrap       \* number of values of size_t, a power of two

ASSUME MsgAssumption ==
  /\ None \notin Val /\ None \notin Nat
  /\ Wrap \in Nat /\ Wrap % 4 = 0
  /\ Size \in Nat /\ Size < Wrap /\ Size % 4 = 0
  /\ Sizes \subseteq 1..Size

VARIABLES
  buf,       \* the words of msg->buff; what was there before is not cleared
  payload,   \* msg->payload_size
  tail,      \* msg->tail as an offset, or None
  got,       \* the words the last call handed out, or None
  stuck      \* a copy loop has missed zero and runs through memory

vars == <<buf, payload, tail, got, stuck>>

Words == 1..(Size \div 4)

\* SAIAGENT_MSG_PADSIZE
PadSize(size) == ((size + 3) \div 4) * 4

\* for (; size; size -= 4) ends, with unsigned arithmetic.
CopyEnds(size) == \E n \in 0..(Wrap \div 4) : (size + Wrap - 4 * n) % Wrap = 0

TypeOK ==
  /\ buf \in [Words -> Val]
  /\ payload \in 0..Size
  /\ tail \in 0..Size \cup {None}
  /\ got \in {None} \cup UNION {[1..n -> Val] : n \in Words}
  /\ stuck \in BOOLEAN

\* A received request, of any size, or with payload 0 a reply to be filled.
Init ==
  /\ buf \in [Words -> Val]
  /\ payload \in 0..Size
  /\ tail = None /\ got = None /\ stuck = FALSE
-----------------------------------------------------------------------------
Room == Size - payload
From == IF tail = None THEN 0 ELSE tail

\* saiagent_msg_put_data; every message has a buffer.  No code puts data into
\* a request it received, so the payload is whole words.
Fits(size) == ~stuck /\ payload % 4 = 0 /\ PadSize(size) <= Room

\* The buffer with the words ws written at the byte offset `at`.
Filled(ws, at) ==
  [i \in Words |-> IF i - at \div 4 \in 1..Len(ws) THEN ws[i - at \div 4] ELSE buf[i]]

PutData(size, ws) ==
  /\ Fits(size) /\ CopyEnds(size)
  /\ buf' = Filled(ws, payload)
  /\ payload' = payload + PadSize(size)
  /\ got' = None
  /\ UNCHANGED <<tail, stuck>>

\* A copy whose size is not a multiple of four never ends.
CopyRunsAway(size) ==
  /\ Fits(size) \/ (~stuck /\ payload # 0 /\ From + PadSize(size) <= payload)
  /\ ~CopyEnds(size)
  /\ stuck' = TRUE
  /\ UNCHANGED <<buf, payload, tail, got>>

Refused ==
  /\ got' = None
  /\ UNCHANGED <<buf, payload, tail, stuck>>

PutRefused(size) == ~stuck /\ PadSize(size) > Room /\ Refused

\* saiagent_msg_put_event: the type stays when there is no room for the id;
\* with no room for either it is PutRefused(4).
PutEvent(type, id) ==
  /\ Fits(4)
  /\ buf' = Filled(IF 8 <= Room THEN <<type, id>> ELSE <<type>>, payload)
  /\ payload' = payload + IF 8 <= Room THEN 8 ELSE 4
  /\ got' = None
  /\ UNCHANGED <<tail, stuck>>

MutGetData(size) ==         \* mutant: the check forgets what was read before
  /\ ~stuck /\ payload # 0 /\ PadSize(size) <= payload /\ CopyEnds(size)
  /\ got' = [i \in 1..(size \div 4) |-> buf[From \div 4 + i]]
  /\ tail' = From + PadSize(size)
  /\ UNCHANGED <<buf, payload, stuck>>

\* saiagent_msg_get_data
GetData(size) ==
  /\ ~stuck /\ payload # 0 /\ From + PadSize(size) <= payload /\ CopyEnds(size)
  /\ got' = [i \in 1..(size \div 4) |-> buf[From \div 4 + i]]
  /\ tail' = From + PadSize(size)
  /\ UNCHANGED <<buf, payload, stuck>>

GetRefused(size) ==
  /\ ~stuck /\ (payload = 0 \/ From + PadSize(size) > payload)
  /\ Refused

MutClear ==                 \* mutant: the read position is kept
  /\ ~stuck
  /\ payload' = 0 /\ got' = None
  /\ UNCHANGED <<buf, tail, stuck>>

\* saiagent_msg_clear
Clear ==
  /\ ~stuck
  /\ payload' = 0 /\ tail' = None /\ got' = None
  /\ UNCHANGED <<buf, stuck>>

Next ==
  \/ \E size \in Sizes :
       \/ \E ws \in [1..(size \div 4) -> Val] : PutData(size, ws)
       \/ PutRefused(size) \/ CopyRunsAway(size)
       \/ GetData(size) \/ GetRefused(size)
  \/ \E type, id \in Val : PutEvent(type, id)
  \/ Clear

Spec == Init /\ [][Next]_vars
-----------------------------------------------------------------------------
(* What is read was put: the reader never passes what is there, and what   *)
(* is there lies in the buffer (saiagent_msg.c:105, 130).                  *)
ReadIsWritten == From <= payload /\ payload <= Size /\ From % 4 = 0

(* Refinement: a message is a stream of words (saiagent_msg.h:7-11),       *)
(* whatever mix of sizes, failures, events and clears fills and reads it.  *)
St == INSTANCE Stream WITH
        words    <- [i \in 1..(payload \div 4) |-> buf[i]],
        read     <- From \div 4,
        MaxWords <- Size \div 4

ImplementsStream == St!Spec
=============================================================================
